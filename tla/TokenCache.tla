------------------------------ MODULE TokenCache ------------------------------
(***************************************************************************)
(* The input-token cache (serving/input_token_cache.py): renderer threads  *)
(* tokenize prompts through a bounded LRU cache that belongs to the        *)
(* renderer's tokenizer.  Each `with lock` block is one action; between    *)
(* two of them other threads run.  A key is a text with its options, its   *)
(* tokens are named by the tokenizer and the key they come from.  Prompts  *)
(* that bypass the cache (offsets, multi-modal data) are left out.         *)
(***************************************************************************)
EXTENDS Integers, Sequences, FiniteSets

CONSTANTS
  Threads,
  Keys,
  Tokenizers,
  Caches,      \* bound: the TextTokenCache objects that may be created
  Cost,        \* the byte cost of a row, by key
  MaxEntries,
  MaxBytes,
  Nothing

ASSUME TokenCacheAssumption ==
  /\ Cost \in [Keys -> Nat \ {0}]
  /\ MaxEntries \in Nat /\ MaxBytes \in Nat
  /\ Nothing \notin Tokenizers /\ Nothing \notin Caches /\ Nothing \notin Keys

VARIABLES
  tokenizer,   \* what the renderer's get_tokenizer returns
  current,     \* the renderer's cache and the tokenizer it was made for
  owner,       \* the tokenizer each cache was made for, Nothing before that
  rows,        \* _rows of each cache, the least recently used first
  bytes,       \* _bytes of each cache
  calls        \* the call of each thread: its place and its local variables

vars == <<tokenizer, current, owner, rows, bytes, calls>>

Tokens(tok, k) == <<tok, k>>
Row(k, ids) == [key |-> k, ids |-> ids, cost |-> Cost[k]]
NoCall == [step |-> "idle", key |-> Nothing, tokenizer |-> Nothing,
           cache |-> Nothing, ids |-> Nothing]

Init ==
  /\ tokenizer \in Tokenizers
  /\ current = [cache |-> Nothing, tokenizer |-> Nothing]
  /\ owner = [c \in Caches |-> Nothing]
  /\ rows = [c \in Caches |-> <<>>]
  /\ bytes = [c \in Caches |-> 0]
  /\ calls = [t \in Threads |-> NoCall]

At(t, step) == calls[t].step = step

\* The renderer is given another tokenizer.
ReplaceTokenizer ==
  /\ tokenizer' \in Tokenizers \ {tokenizer}
  /\ UNCHANGED <<current, owner, rows, bytes, calls>>

\* cached_tokenize_prompt: the tokenizer is read before any lock is taken.
Start(t, k) ==
  /\ At(t, "idle")
  /\ calls' = [calls EXCEPT ![t] = [NoCall EXCEPT !.step = "selecting",
                                                  !.key = k,
                                                  !.tokenizer = tokenizer]]
  /\ UNCHANGED <<tokenizer, current, owner, rows, bytes>>

\* Mutated form: any cache of the renderer is good.
SelectAnyCache(t) ==
  /\ At(t, "selecting")
  /\ IF current.cache # Nothing
     THEN /\ calls' = [calls EXCEPT ![t].step = "looking up",
                                    ![t].cache = current.cache]
          /\ UNCHANGED <<current, owner>>
     ELSE \E c \in Caches :
            /\ owner[c] = Nothing
            /\ owner' = [owner EXCEPT ![c] = calls[t].tokenizer]
            /\ current' = [cache |-> c, tokenizer |-> calls[t].tokenizer]
            /\ calls' = [calls EXCEPT ![t].step = "looking up", ![t].cache = c]
  /\ UNCHANGED <<tokenizer, rows, bytes>>

\* Under _init_lock: the renderer's cache, or a new one for this tokenizer.
SelectCache(t) ==
  /\ At(t, "selecting")
  /\ IF current.tokenizer = calls[t].tokenizer
     THEN /\ calls' = [calls EXCEPT ![t].step = "looking up",
                                    ![t].cache = current.cache]
          /\ UNCHANGED <<current, owner>>
     ELSE \E c \in Caches :
            /\ owner[c] = Nothing
            /\ owner' = [owner EXCEPT ![c] = calls[t].tokenizer]
            /\ current' = [cache |-> c, tokenizer |-> calls[t].tokenizer]
            /\ calls' = [calls EXCEPT ![t].step = "looking up", ![t].cache = c]
  /\ UNCHANGED <<tokenizer, rows, bytes>>

Places(c, k) == {i \in DOMAIN rows[c] : rows[c][i].key = k}

MovedToEnd(s, i) ==
  [j \in 1..Len(s) |-> CASE j < i -> s[j]
                         [] j >= i /\ j < Len(s) -> s[j + 1]
                         [] j >= i /\ j = Len(s) -> s[i]]

Return(t, ids) == calls' = [calls EXCEPT ![t].step = "returned", ![t].ids = ids]

\* The row is there: it becomes the most recent, and its tokens are returned.
Hit(t) ==
  \E i \in Places(calls[t].cache, calls[t].key) :
    /\ rows' = [rows EXCEPT ![calls[t].cache] = MovedToEnd(@, i)]
    /\ Return(t, rows[calls[t].cache][i].ids)
    /\ UNCHANGED bytes

\* Under the cache's lock: a hit, or the call goes on to tokenize.
LookUp(t) ==
  /\ At(t, "looking up")
  /\ \/ Hit(t)
     \/ /\ Places(calls[t].cache, calls[t].key) = {}
        /\ calls' = [calls EXCEPT ![t].step = "tokenizing"]
        /\ UNCHANGED <<rows, bytes>>
  /\ UNCHANGED <<tokenizer, current, owner>>

\* Mutated form: a row that cannot fit is inserted all the same.
TokenizeAnySize(t) ==
  /\ At(t, "tokenizing")
  /\ LET ids == Tokens(calls[t].tokenizer, calls[t].key)
     IN  calls' = [calls EXCEPT ![t].step = "inserting", ![t].ids = ids]
  /\ UNCHANGED <<tokenizer, current, owner, rows, bytes>>

\* Without a lock: tokenize; a row that can never fit is not offered.
Tokenize(t) ==
  /\ At(t, "tokenizing")
  /\ LET ids == Tokens(calls[t].tokenizer, calls[t].key)
     IN  IF MaxEntries = 0 \/ Cost[calls[t].key] > MaxBytes
         THEN Return(t, ids)
         ELSE calls' = [calls EXCEPT ![t].step = "inserting", ![t].ids = ids]
  /\ UNCHANGED <<tokenizer, current, owner, rows, bytes>>

\* The tokenizer raises: the call ends, nothing is cached.
TokenizeFails(t) ==
  /\ At(t, "tokenizing")
  /\ calls' = [calls EXCEPT ![t] = NoCall]
  /\ UNCHANGED <<tokenizer, current, owner, rows, bytes>>

\* The cost of the first n rows of s.
CostOfFirst(s) ==
  LET sum[n \in 0..Len(s)] == IF n = 0 THEN 0 ELSE sum[n - 1] + s[n].cost
  IN  sum

\* The eviction loop on s stops after removing n rows (it raises on an empty
\* cache).
StopsAfter(s, total, n) ==
  LET Fits(m) == Len(s) - m <= MaxEntries /\ total - CostOfFirst(s)[m] <= MaxBytes
  IN  /\ Fits(n) \/ n = Len(s)
      /\ \A m \in 0..(n - 1) : ~Fits(m)

\* With row k the rows of cache c are grown; the oldest are evicted.
InsertAndEvict(c, k, grown) ==
  LET total == bytes[c] + Cost[k]
  IN  \E n \in 0..Len(grown) :
        /\ StopsAfter(grown, total, n)
        /\ rows' = [rows EXCEPT ![c] = SubSeq(grown, n + 1, Len(grown))]
        /\ bytes' = [bytes EXCEPT ![c] = total - CostOfFirst(grown)[n]]

\* Mutated form: a row that another thread inserted meanwhile is overwritten.
InsertAgain(t) ==
  /\ At(t, "inserting")
  /\ LET c == calls[t].cache
         k == calls[t].key
     IN  InsertAndEvict(c, k,
           IF Places(c, k) = {}
           THEN Append(rows[c], Row(k, calls[t].ids))
           ELSE [i \in DOMAIN rows[c] |-> IF i \in Places(c, k)
                                          THEN Row(k, calls[t].ids)
                                          ELSE rows[c][i]])
  /\ Return(t, calls[t].ids)
  /\ UNCHANGED <<tokenizer, current, owner>>

\* Under the cache's lock: another thread may have inserted the row meanwhile;
\* if not, it is appended and the oldest rows are evicted.
Insert(t) ==
  /\ At(t, "inserting")
  /\ \/ Hit(t)
     \/ /\ Places(calls[t].cache, calls[t].key) = {}
        /\ InsertAndEvict(calls[t].cache, calls[t].key,
             Append(rows[calls[t].cache], Row(calls[t].key, calls[t].ids)))
        /\ Return(t, calls[t].ids)
  /\ UNCHANGED <<tokenizer, current, owner>>

\* The caller builds its prompt from the tokens.
Finish(t) ==
  /\ At(t, "returned")
  /\ calls' = [calls EXCEPT ![t] = NoCall]
  /\ UNCHANGED <<tokenizer, current, owner, rows, bytes>>

Step(t) == \/ SelectCache(t) \/ LookUp(t) \/ Tokenize(t) \/ Insert(t) \/ Finish(t)

Next == \/ ReplaceTokenizer
        \/ \E t \in Threads, k \in Keys : Start(t, k)
        \/ \E t \in Threads : Step(t) \/ TokenizeFails(t)

Spec == Init /\ [][Next]_vars
=============================================================================
