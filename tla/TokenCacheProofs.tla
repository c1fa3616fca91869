--------------------------- MODULE TokenCacheProofs ---------------------------
(***************************************************************************)
(* The input-token cache, proved for any number of threads, keys,          *)
(* tokenizers and caches, for any costs and any bounds: a call returns its *)
(* own tokens (IInv), every cache keeps its account (AInv), and a row      *)
(* survives its own insertion.  How many rows are evicted only matters to  *)
(* the account, whose proof needs what CostOfFirst sums up to.             *)
(***************************************************************************)
EXTENDS TokenCacheProperties, SequenceTheorems, WellFoundedInduction, TLAPS

RendererTyped ==
  /\ tokenizer \in Tokenizers
  /\ current \in [cache : Caches \cup {Nothing},
                  tokenizer : Tokenizers \cup {Nothing}]
  /\ owner \in [Caches -> Tokenizers \cup {Nothing}]
  /\ rows \in [Caches -> Seq(CachedRows)]

CallsTyped ==
  /\ calls \in [Threads -> Calls]
  /\ \A t \in Threads :
       /\ ~At(t, "idle") => /\ calls[t].key \in Keys
                           /\ calls[t].tokenizer \in Tokenizers
       /\ ~At(t, "idle") /\ ~At(t, "selecting") => calls[t].cache \in Caches

\* The renderer and its calls use a cache for the tokenizer it was made for.
CacheOfTokenizer ==
  /\ current.tokenizer # Nothing => /\ current.cache \in Caches
                                    /\ owner[current.cache] = current.tokenizer
  /\ \A t \in Threads : ~At(t, "idle") /\ ~At(t, "selecting") =>
       owner[calls[t].cache] = calls[t].tokenizer

\* A cache holds tokens of its own tokenizer, and none before it was made.
RowsOfOwner ==
  \A c \in Caches :
    /\ \A i \in 1..Len(rows[c]) :
         rows[c][i].ids = Tokens(owner[c], rows[c][i].key)
    /\ owner[c] = Nothing => rows[c] = <<>>

\* What a call inserts or returns are its own tokens.
TokensOfCall ==
  \A t \in Threads : At(t, "inserting") \/ At(t, "returned") =>
    calls[t].ids = Tokens(calls[t].tokenizer, calls[t].key)

IInv == /\ RendererTyped /\ CallsTyped /\ CacheOfTokenizer
        /\ RowsOfOwner /\ TokensOfCall

-----------------------------------------------------------------------------
\* Moving a row to the end keeps the rows.
LEMMA MovedRows ==
  ASSUME NEW S, NEW s \in Seq(S), NEW i \in 1..Len(s)
  PROVE  /\ MovedToEnd(s, i) \in Seq(S)
         /\ Len(MovedToEnd(s, i)) = Len(s)
         /\ \A j \in 1..Len(s) : \E k \in 1..Len(s) : MovedToEnd(s, i)[j] = s[k]
<1> DEFINE m == MovedToEnd(s, i)
<1>1. Len(s) \in Nat /\ \A k \in 1..Len(s) : s[k] \in S
  BY LenProperties, ElementOfSeq
<1>2. ASSUME NEW j \in 1..Len(s)
      PROVE  \E k \in 1..Len(s) : m[j] = s[k]
  <2>1. CASE j < i
    BY <1>1, <2>1 DEF MovedToEnd
  <2>2. CASE j >= i /\ j < Len(s)
    <3>1. m[j] = s[j + 1] /\ j + 1 \in 1..Len(s)
      BY <1>1, <2>2 DEF MovedToEnd
    <3> QED
      BY <3>1
  <2>3. CASE j >= i /\ j = Len(s)
    BY <1>1, <2>3 DEF MovedToEnd
  <2> QED
    BY <1>1, <2>1, <2>2, <2>3
<1>3. m = [j \in 1..Len(s) |-> m[j]]
  BY DEF MovedToEnd
<1>4. m \in [1..Len(s) -> S]
  BY <1>1, <1>2, <1>3
<1>5. m \in Seq(S)
  BY <1>1, <1>4, SeqDef
<1>6. DOMAIN m = 1..Len(s) /\ DOMAIN m = 1..Len(m) /\ Len(m) \in Nat
  BY <1>4, <1>5, LenProperties
<1>7. Len(m) = Len(s)
  BY <1>1, <1>6
<1> QED
  BY <1>2, <1>5, <1>7

\* Evicting the first rows keeps what is true of each of them.
LEMMA KeptRows ==
  ASSUME NEW tok, NEW s \in Seq(CachedRows), NEW n \in 0..Len(s),
         \A i \in 1..Len(s) : s[i].ids = Tokens(tok, s[i].key)
  PROVE  /\ SubSeq(s, n + 1, Len(s)) \in Seq(CachedRows)
         /\ \A i \in 1..Len(SubSeq(s, n + 1, Len(s))) :
              SubSeq(s, n + 1, Len(s))[i].ids
                = Tokens(tok, SubSeq(s, n + 1, Len(s))[i].key)
<1> DEFINE kept == SubSeq(s, n + 1, Len(s))
<1>1. Len(s) \in Nat /\ n \in Nat /\ n <= Len(s)
  BY LenProperties
<1>2. \A i \in (n + 1)..Len(s) : s[i] \in CachedRows
  BY <1>1, ElementOfSeq
<1>3. /\ kept \in Seq(CachedRows)
      /\ Len(kept) = IF n + 1 <= Len(s) THEN Len(s) - (n + 1) + 1 ELSE 0
      /\ \A i \in 1..(Len(s) - (n + 1) + 1) : kept[i] = s[n + 1 + i - 1]
  BY <1>1, <1>2, SubSeqProperties
<1>4. \A i \in 1..Len(kept) : kept[i] = s[n + i] /\ n + i \in 1..Len(s)
  <2> HIDE DEF kept
  <2> QED
    BY <1>1, <1>3
<1> QED
  BY <1>3, <1>4

\* A cache whose rows are replaced by tokens of its own tokenizer stays right.
LEMMA RowsReplaced ==
  ASSUME IInv, NEW c \in Caches, owner[c] # Nothing, UNCHANGED owner,
         NEW s \in Seq(CachedRows), rows' = [rows EXCEPT ![c] = s],
         \A i \in 1..Len(s) : s[i].ids = Tokens(owner[c], s[i].key)
  PROVE  rows' \in [Caches -> Seq(CachedRows)] /\ RowsOfOwner'
<1>1. rows \in [Caches -> Seq(CachedRows)]
  BY DEF IInv, RendererTyped
<1> QED
  BY <1>1 DEF IInv, RowsOfOwner

\* One call moves on, with the cache and the tokens that belong to it.
LEMMA CallMoves ==
  ASSUME IInv, NEW t \in Threads, NEW call \in Calls,
         calls' = [calls EXCEPT ![t] = call],
         call.step # "idle" => call.key \in Keys /\ call.tokenizer \in Tokenizers,
         call.step \notin {"idle", "selecting"} =>
           call.cache \in Caches /\ owner'[call.cache] = call.tokenizer,
         call.step \in {"inserting", "returned"} =>
           call.ids = Tokens(call.tokenizer, call.key),
         \A c \in Caches : owner[c] # Nothing => owner'[c] = owner[c],
         current'.tokenizer # Nothing => /\ current'.cache \in Caches
                                         /\ owner'[current'.cache] = current'.tokenizer
  PROVE  CallsTyped' /\ CacheOfTokenizer' /\ TokensOfCall'
<1>1. calls \in [Threads -> Calls] /\ calls' \in [Threads -> Calls]
  BY DEF IInv, CallsTyped
<1>2. calls'[t] = call /\ \A u \in Threads \ {t} : calls'[u] = calls[u]
  BY <1>1
<1>3. CallsTyped'
  BY <1>1, <1>2 DEF IInv, CallsTyped, At
<1>4. ASSUME NEW u \in Threads, ~At(u, "idle")', ~At(u, "selecting")'
      PROVE  owner'[calls'[u].cache] = calls'[u].tokenizer
  <2>1. CASE u = t
    BY <1>2, <1>4, <2>1 DEF At
  <2>2. CASE u # t
    <3>1. /\ calls[u].cache \in Caches /\ calls[u].tokenizer \in Tokenizers
          /\ owner[calls[u].cache] = calls[u].tokenizer
      BY <1>2, <1>4, <2>2 DEF IInv, CallsTyped, CacheOfTokenizer, At
    <3> QED
      BY <1>2, <2>2, <3>1, TokenCacheAssumption
  <2> QED
    BY <2>1, <2>2
<1>5. CacheOfTokenizer'
  BY <1>4 DEF CacheOfTokenizer
<1>6. TokensOfCall'
  BY <1>1, <1>2 DEF IInv, TokensOfCall, At
<1> QED
  BY <1>3, <1>5, <1>6

-----------------------------------------------------------------------------
\* A renderer without a cache satisfies the invariant.
LEMMA InitIInv == Init => IInv
<1> SUFFICES ASSUME Init PROVE IInv
  OBVIOUS
<1>1. RendererTyped
  BY DEF Init, RendererTyped
<1>2. CallsTyped /\ TokensOfCall /\ \A t \in Threads : At(t, "idle")
  BY DEF Init, CallsTyped, TokensOfCall, At, NoCall, Calls
<1>3. RowsOfOwner
  BY DEF Init, RowsOfOwner
<1>4. CacheOfTokenizer
  BY <1>2 DEF Init, CacheOfTokenizer
<1> QED
  BY <1>1, <1>2, <1>3, <1>4 DEF IInv

\* What a call under way knows: its key, its tokenizer, and its cache's owner.
LEMMA CallKnows ==
  ASSUME IInv, NEW t \in Threads, ~At(t, "idle")
  PROVE  /\ calls[t] \in Calls
         /\ calls[t].key \in Keys /\ calls[t].tokenizer \in Tokenizers
         /\ ~At(t, "selecting") =>
              /\ calls[t].cache \in Caches
              /\ owner[calls[t].cache] = calls[t].tokenizer
              /\ owner[calls[t].cache] # Nothing
BY TokenCacheAssumption DEF IInv, CallsTyped, CacheOfTokenizer

\* A call returns its own tokens.
LEMMA ReturnStep ==
  ASSUME IInv, NEW t \in Threads, ~At(t, "idle"), ~At(t, "selecting"),
         Return(t, Tokens(calls[t].tokenizer, calls[t].key)),
         UNCHANGED <<tokenizer, current, owner>>
  PROVE  CallsTyped' /\ CacheOfTokenizer' /\ TokensOfCall'
<1> DEFINE ids == Tokens(calls[t].tokenizer, calls[t].key)
           call == [calls[t] EXCEPT !.step = "returned", !.ids = ids]
<1>1. /\ calls[t] \in Calls /\ calls[t].key \in Keys
      /\ calls[t].tokenizer \in Tokenizers /\ calls[t].cache \in Caches
      /\ owner[calls[t].cache] = calls[t].tokenizer
  BY CallKnows
<1>2. ids \in AnyTokens
  BY <1>1 DEF AnyTokens
<1>3. /\ call \in Calls /\ call.step = "returned" /\ call.key = calls[t].key
      /\ call.tokenizer = calls[t].tokenizer /\ call.cache = calls[t].cache
      /\ call.ids = Tokens(call.tokenizer, call.key)
  BY <1>1, <1>2 DEF Calls
<1>4. calls' = [calls EXCEPT ![t] = call]
  BY DEF Return
<1> HIDE DEF call, ids
<1> QED
  BY <1>1, <1>3, <1>4, CallMoves DEF IInv, CacheOfTokenizer

LEMMA StartStep ==
  ASSUME IInv, NEW t \in Threads, NEW k \in Keys, Start(t, k)
  PROVE  IInv'
<1> DEFINE call == [NoCall EXCEPT !.step = "selecting", !.key = k,
                                 !.tokenizer = tokenizer]
<1>1. tokenizer \in Tokenizers /\ UNCHANGED <<tokenizer, current, owner, rows>>
  BY DEF IInv, RendererTyped, Start
<1>2. call \in Calls /\ call.step = "selecting"
      /\ call.key \in Keys /\ call.tokenizer \in Tokenizers
  BY <1>1 DEF NoCall, Calls
<1>3. calls' = [calls EXCEPT ![t] = call]
  BY DEF Start
<1>4. CallsTyped' /\ CacheOfTokenizer' /\ TokensOfCall'
  <2> HIDE DEF call
  <2> QED
    BY <1>1, <1>2, <1>3, CallMoves DEF IInv, CacheOfTokenizer
<1>5. RendererTyped' /\ RowsOfOwner'
  BY <1>1 DEF IInv, RendererTyped, RowsOfOwner
<1> QED
  BY <1>4, <1>5 DEF IInv

LEMMA SelectCacheStep ==
  ASSUME IInv, NEW t \in Threads, SelectCache(t)
  PROVE  IInv'
<1>1. /\ calls[t] \in Calls /\ calls[t].key \in Keys
      /\ calls[t].tokenizer \in Tokenizers /\ calls[t].tokenizer # Nothing
      /\ calls \in [Threads -> Calls]
  BY CallKnows, TokenCacheAssumption DEF SelectCache, At, IInv, CallsTyped
<1>2. UNCHANGED <<tokenizer, rows>>
  BY DEF SelectCache
<1>3. CASE current.tokenizer = calls[t].tokenizer
  <2> DEFINE call == [calls[t] EXCEPT !.step = "looking up", !.cache = current.cache]
  <2>1. current.cache \in Caches /\ owner[current.cache] = calls[t].tokenizer
    BY <1>1, <1>3 DEF IInv, CacheOfTokenizer
  <2>2. /\ call \in Calls /\ call.step = "looking up" /\ call.key \in Keys
        /\ call.tokenizer = calls[t].tokenizer /\ call.cache = current.cache
    BY <1>1, <2>1 DEF Calls
  <2>3. calls' = [calls EXCEPT ![t] = call] /\ UNCHANGED <<current, owner>>
    BY <1>1, <1>3 DEF SelectCache
  <2>4. CallsTyped' /\ CacheOfTokenizer' /\ TokensOfCall'
    <3> HIDE DEF call
    <3> QED
      BY <1>1, <2>1, <2>2, <2>3, CallMoves DEF IInv, CacheOfTokenizer
  <2>5. RendererTyped' /\ RowsOfOwner'
    BY <1>2, <2>3 DEF IInv, RendererTyped, RowsOfOwner
  <2> QED
    BY <2>4, <2>5 DEF IInv
<1>4. CASE current.tokenizer # calls[t].tokenizer
  <2>1. PICK c \in Caches :
          /\ owner[c] = Nothing
          /\ owner' = [owner EXCEPT ![c] = calls[t].tokenizer]
          /\ current' = [cache |-> c, tokenizer |-> calls[t].tokenizer]
          /\ calls' = [calls EXCEPT ![t].step = "looking up", ![t].cache = c]
    BY <1>4 DEF SelectCache
  <2> DEFINE call == [calls[t] EXCEPT !.step = "looking up", !.cache = c]
  <2>2. /\ call \in Calls /\ call.step = "looking up" /\ call.key \in Keys
        /\ call.tokenizer = calls[t].tokenizer /\ call.cache = c
    BY <1>1 DEF Calls
  <2>3. calls' = [calls EXCEPT ![t] = call]
    BY <1>1, <2>1
  <2>4. /\ owner \in [Caches -> Tokenizers \cup {Nothing}]
        /\ owner'[c] = calls[t].tokenizer
        /\ \A d \in Caches \ {c} : owner'[d] = owner[d]
    BY <2>1 DEF IInv, RendererTyped
  <2>5. CallsTyped' /\ CacheOfTokenizer' /\ TokensOfCall'
    <3> HIDE DEF call
    <3> QED
      BY <1>1, <2>1, <2>2, <2>3, <2>4, CallMoves
  <2>6. RendererTyped'
    BY <1>1, <1>2, <2>1 DEF IInv, RendererTyped
  <2>7. RowsOfOwner'
    <3>1. rows[c] = <<>>
      BY <2>1 DEF IInv, RowsOfOwner
    <3>2. ASSUME NEW d \in Caches
          PROVE  /\ \A i \in 1..Len(rows[d]) :
                      rows[d][i].ids = Tokens(owner'[d], rows[d][i].key)
                 /\ owner'[d] = Nothing => rows[d] = <<>>
      <4>1. CASE d = c
        <5>1. Len(rows[d]) = 0
          BY <3>1, <4>1, EmptySeq
        <5> QED
          BY <3>1, <4>1, <5>1
      <4>2. CASE d # c
        BY <2>4, <4>2 DEF IInv, RowsOfOwner
      <4> QED
        BY <4>1, <4>2
    <3> QED
      BY <1>2, <3>2 DEF RowsOfOwner
  <2> QED
    BY <2>5, <2>6, <2>7 DEF IInv
<1> QED
  BY <1>3, <1>4

\* A hit returns tokens that belong to the call: its cache has its tokenizer.
LEMMA HitStep ==
  ASSUME IInv, NEW t \in Threads, ~At(t, "idle"), ~At(t, "selecting"), Hit(t),
         UNCHANGED <<tokenizer, current, owner>>
  PROVE  IInv'
<1> DEFINE c == calls[t].cache
<1>1. /\ calls[t] \in Calls /\ calls[t].key \in Keys
      /\ calls[t].tokenizer \in Tokenizers
      /\ c \in Caches /\ owner[c] = calls[t].tokenizer /\ owner[c] # Nothing
  BY CallKnows
<1>2. rows \in [Caches -> Seq(CachedRows)] /\ rows[c] \in Seq(CachedRows)
  BY <1>1 DEF IInv, RendererTyped
<1>3. PICK i \in Places(c, calls[t].key) :
        /\ rows' = [rows EXCEPT ![c] = MovedToEnd(rows[c], i)]
        /\ Return(t, rows[c][i].ids)
  BY <1>2 DEF Hit
<1>4. i \in 1..Len(rows[c]) /\ rows[c][i].key = calls[t].key
  BY <1>2, <1>3, LenProperties DEF Places
<1>5. rows[c][i].ids = Tokens(owner[c], calls[t].key)
  BY <1>1, <1>4 DEF IInv, RowsOfOwner
<1> DEFINE moved == MovedToEnd(rows[c], i)
<1>6. /\ moved \in Seq(CachedRows) /\ Len(moved) = Len(rows[c])
      /\ \A j \in 1..Len(rows[c]) : \E k \in 1..Len(rows[c]) : moved[j] = rows[c][k]
  <2>1. \A s \in Seq(CachedRows) : \A n \in 1..Len(s) :
          /\ MovedToEnd(s, n) \in Seq(CachedRows)
          /\ Len(MovedToEnd(s, n)) = Len(s)
          /\ \A j \in 1..Len(s) :
               \E k \in 1..Len(s) : MovedToEnd(s, n)[j] = s[k]
    BY MovedRows
  <2> HIDE DEF c
  <2> QED
    BY <1>2, <1>4, <2>1
<1>7. \A j \in 1..Len(moved) : moved[j].ids = Tokens(owner[c], moved[j].key)
  <2>1. \A k \in 1..Len(rows[c]) :
          rows[c][k].ids = Tokens(owner[c], rows[c][k].key)
    BY <1>1 DEF IInv, RowsOfOwner
  <2> HIDE DEF moved, c
  <2> QED
    BY <1>6, <2>1
<1>8. RendererTyped' /\ RowsOfOwner'
  <2>1. rows' \in [Caches -> Seq(CachedRows)] /\ RowsOfOwner'
    <3> HIDE DEF moved, c
    <3> QED
      BY <1>1, <1>3, <1>6, <1>7, RowsReplaced DEF moved
  <2> QED
    BY <2>1 DEF IInv, RendererTyped
<1>9. CallsTyped' /\ CacheOfTokenizer' /\ TokensOfCall'
  BY <1>1, <1>3, <1>5, ReturnStep
<1> QED
  BY <1>8, <1>9 DEF IInv

LEMMA LookUpStep ==
  ASSUME IInv, NEW t \in Threads, LookUp(t)
  PROVE  IInv'
<1>1. At(t, "looking up") /\ ~At(t, "idle") /\ ~At(t, "selecting")
      /\ UNCHANGED <<tokenizer, current, owner>>
  BY DEF LookUp, At
<1>2. CASE Hit(t)
  BY <1>1, <1>2, HitStep
<1>3. CASE /\ calls' = [calls EXCEPT ![t].step = "tokenizing"]
           /\ UNCHANGED <<rows, bytes>>
  <2> DEFINE call == [calls[t] EXCEPT !.step = "tokenizing"]
  <2>1. /\ calls[t] \in Calls /\ calls[t].key \in Keys
        /\ calls[t].tokenizer \in Tokenizers /\ calls[t].cache \in Caches
        /\ owner[calls[t].cache] = calls[t].tokenizer
    BY <1>1, CallKnows
  <2>2. /\ call \in Calls /\ call.step = "tokenizing" /\ call.key = calls[t].key
        /\ call.tokenizer = calls[t].tokenizer /\ call.cache = calls[t].cache
    BY <2>1 DEF Calls
  <2>3. calls' = [calls EXCEPT ![t] = call]
    BY <1>3
  <2>4. CallsTyped' /\ CacheOfTokenizer' /\ TokensOfCall'
    <3> HIDE DEF call
    <3> QED
      BY <1>1, <2>1, <2>2, <2>3, CallMoves DEF IInv, CacheOfTokenizer
  <2>5. RendererTyped' /\ RowsOfOwner'
    BY <1>1, <1>3 DEF IInv, RendererTyped, RowsOfOwner
  <2> QED
    BY <2>4, <2>5 DEF IInv
<1> QED
  BY <1>2, <1>3 DEF LookUp

LEMMA TokenizeStep ==
  ASSUME IInv, NEW t \in Threads, Tokenize(t)
  PROVE  IInv'
<1> DEFINE ids == Tokens(calls[t].tokenizer, calls[t].key)
           call == [calls[t] EXCEPT !.step = "inserting", !.ids = ids]
<1>1. /\ At(t, "tokenizing") /\ ~At(t, "idle") /\ ~At(t, "selecting")
      /\ UNCHANGED <<tokenizer, current, owner, rows, bytes>>
  BY DEF Tokenize, At
<1>2. /\ calls[t] \in Calls /\ calls[t].key \in Keys
      /\ calls[t].tokenizer \in Tokenizers /\ calls[t].cache \in Caches
      /\ owner[calls[t].cache] = calls[t].tokenizer
  BY <1>1, CallKnows
<1>3. RendererTyped' /\ RowsOfOwner'
  BY <1>1 DEF IInv, RendererTyped, RowsOfOwner
<1>4. CASE Return(t, ids)
  <2>1. CallsTyped' /\ CacheOfTokenizer' /\ TokensOfCall'
    BY <1>1, <1>4, ReturnStep
  <2> QED
    BY <1>3, <2>1 DEF IInv
<1>5. CASE calls' = [calls EXCEPT ![t].step = "inserting", ![t].ids = ids]
  <2>1. ids \in AnyTokens
    BY <1>2 DEF AnyTokens
  <2>2. /\ call \in Calls /\ call.step = "inserting" /\ call.ids = ids
        /\ call.key = calls[t].key /\ call.tokenizer = calls[t].tokenizer
        /\ call.cache = calls[t].cache
    BY <1>2, <2>1 DEF Calls
  <2>3. calls' = [calls EXCEPT ![t] = call]
    BY <1>5
  <2>4. CallsTyped' /\ CacheOfTokenizer' /\ TokensOfCall'
    <3>1. call.ids = Tokens(call.tokenizer, call.key)
      BY <2>2
    <3> HIDE DEF call, ids
    <3> QED
      BY <1>1, <1>2, <2>2, <2>3, <3>1, CallMoves DEF IInv, CacheOfTokenizer
  <2> QED
    BY <1>3, <2>4 DEF IInv
<1> QED
  BY <1>4, <1>5 DEF Tokenize

\* A row inserted is the call's own; those that stay were there before.
LEMMA InsertStep ==
  ASSUME IInv, NEW t \in Threads, Insert(t)
  PROVE  IInv'
<1> DEFINE c == calls[t].cache
           k == calls[t].key
           row == Row(k, calls[t].ids)
           grown == Append(rows[c], row)
<1>1. At(t, "inserting") /\ ~At(t, "idle") /\ ~At(t, "selecting")
      /\ UNCHANGED <<tokenizer, current, owner>>
  BY DEF Insert, At
<1>2. CASE Hit(t)
  BY <1>1, <1>2, HitStep
<1>3. CASE InsertAndEvict(c, k, grown) /\ Return(t, calls[t].ids)
  <2>1. /\ calls[t] \in Calls /\ k \in Keys /\ calls[t].tokenizer \in Tokenizers
        /\ c \in Caches /\ owner[c] = calls[t].tokenizer /\ owner[c] # Nothing
        /\ calls[t].ids = Tokens(calls[t].tokenizer, k)
    BY <1>1, CallKnows DEF IInv, TokensOfCall
  <2>2. rows \in [Caches -> Seq(CachedRows)] /\ rows[c] \in Seq(CachedRows)
    BY <2>1 DEF IInv, RendererTyped
  <2>3. row \in CachedRows /\ row.key = k /\ row.ids = Tokens(owner[c], k)
    BY <2>1, TokenCacheAssumption DEF Row, CachedRows, AnyTokens
  <2>4. /\ grown \in Seq(CachedRows) /\ Len(grown) = Len(rows[c]) + 1
        /\ \A i \in 1..Len(rows[c]) : grown[i] = rows[c][i]
        /\ grown[Len(rows[c]) + 1] = row
    <3> HIDE DEF row, c
    <3> QED
      BY <2>2, <2>3, AppendProperties
  <2>5. \A i \in 1..Len(grown) : grown[i].ids = Tokens(owner[c], grown[i].key)
    <3>1. \A i \in 1..Len(rows[c]) :
            rows[c][i].ids = Tokens(owner[c], rows[c][i].key)
      BY <2>1 DEF IInv, RowsOfOwner
    <3>2. Len(rows[c]) \in Nat
      BY <2>2, LenProperties
    <3> HIDE DEF row, c, k, grown
    <3> QED
      BY <2>3, <2>4, <3>1, <3>2
  <2>6. PICK n \in 0..Len(grown) :
          rows' = [rows EXCEPT ![c] = SubSeq(grown, n + 1, Len(grown))]
    BY <1>3 DEF InsertAndEvict
  <2> DEFINE kept == SubSeq(grown, n + 1, Len(grown))
  <2>7. kept \in Seq(CachedRows)
        /\ \A i \in 1..Len(kept) : kept[i].ids = Tokens(owner[c], kept[i].key)
    <3> HIDE DEF grown, c
    <3> QED
      BY <2>4, <2>5, <2>6, KeptRows
  <2>8. RendererTyped' /\ RowsOfOwner'
    <3>1. rows' \in [Caches -> Seq(CachedRows)] /\ RowsOfOwner'
      <4> HIDE DEF kept, c, grown
      <4> QED
        BY <1>1, <2>1, <2>6, <2>7, RowsReplaced DEF kept
    <3> QED
      BY <1>1, <3>1 DEF IInv, RendererTyped
  <2>9. CallsTyped' /\ CacheOfTokenizer' /\ TokensOfCall'
    BY <1>1, <1>3, <2>1, ReturnStep
  <2> QED
    BY <2>8, <2>9 DEF IInv
<1> QED
  BY <1>2, <1>3 DEF Insert

\* A call that ended or failed is as if it never ran.
LEMMA CallEnds ==
  ASSUME IInv, NEW t \in Threads, calls' = [calls EXCEPT ![t] = NoCall],
         UNCHANGED <<tokenizer, current, owner, rows, bytes>>
  PROVE  IInv'
<1>1. NoCall \in Calls /\ NoCall.step = "idle"
  BY DEF NoCall, Calls
<1>2. CallsTyped' /\ CacheOfTokenizer' /\ TokensOfCall'
  BY <1>1, CallMoves DEF IInv, CacheOfTokenizer
<1>3. RendererTyped' /\ RowsOfOwner'
  BY DEF IInv, RendererTyped, RowsOfOwner
<1> QED
  BY <1>2, <1>3 DEF IInv

LEMMA ReplaceTokenizerStep ==
  ASSUME IInv, ReplaceTokenizer
  PROVE  IInv'
BY DEF ReplaceTokenizer, IInv, RendererTyped, CallsTyped, CacheOfTokenizer,
       RowsOfOwner, TokensOfCall, At

\* Every step keeps the invariant.
LEMMA NextIInv == IInv /\ [Next]_vars => IInv'
<1> SUFFICES ASSUME IInv, [Next]_vars PROVE IInv'
  OBVIOUS
<1>1. CASE ReplaceTokenizer
  BY <1>1, ReplaceTokenizerStep
<1>2. ASSUME NEW t \in Threads, NEW k \in Keys, Start(t, k) PROVE IInv'
  BY <1>2, StartStep
<1>3. ASSUME NEW t \in Threads, SelectCache(t) PROVE IInv'
  BY <1>3, SelectCacheStep
<1>4. ASSUME NEW t \in Threads, LookUp(t) PROVE IInv'
  BY <1>4, LookUpStep
<1>5. ASSUME NEW t \in Threads, Tokenize(t) PROVE IInv'
  BY <1>5, TokenizeStep
<1>6. ASSUME NEW t \in Threads, Insert(t) PROVE IInv'
  BY <1>6, InsertStep
<1>7. ASSUME NEW t \in Threads, Finish(t) \/ TokenizeFails(t) PROVE IInv'
  BY <1>7, CallEnds DEF Finish, TokenizeFails
<1>8. CASE UNCHANGED vars
  BY <1>8 DEF vars, IInv, RendererTyped, CallsTyped, CacheOfTokenizer,
              RowsOfOwner, TokensOfCall, At
<1> QED
  BY <1>1, <1>2, <1>3, <1>4, <1>5, <1>6, <1>7, <1>8 DEF Next, Step

-----------------------------------------------------------------------------
\* A non-empty set of natural numbers has a least element.
LEMMA LeastElement ==
  ASSUME NEW T, T \subseteq Nat, T # {}
  PROVE  \E x \in T : \A y \in T : x <= y
<1> DEFINE R == OpToRel(<, Nat)
<1>1. IsWellFoundedOn(R, Nat)
  BY NatLessThanWellFounded
<1> HIDE DEF R
<1>2. PICK x \in T : \A y \in T : <<y, x>> \notin R
  BY <1>1, WFMin
<1>3. \A y \in T : ~(y < x)
  BY <1>2 DEF R, OpToRel
<1> QED
  BY <1>2, <1>3

\* A set of the numbers up to n that has 0 and, with a number, the next is all of them.
LEMMA UpTo ==
  ASSUME NEW n \in Nat, NEW P, 0 \in P, \A m \in 1..n : m - 1 \in P => m \in P
  PROVE  0..n \subseteq P
<1> SUFFICES ASSUME (0..n) \ P # {} PROVE FALSE
  OBVIOUS
<1>0. (0..n) \ P \subseteq Nat
  OBVIOUS
<1>1. PICK m \in (0..n) \ P : \A y \in (0..n) \ P : m <= y
  BY <1>0, LeastElement
<1>2. m # 0
  BY <1>1
<1>3. m - 1 \in 0..n /\ m \in 1..n /\ ~(m <= m - 1)
  BY <1>1, <1>2
<1>4. m - 1 \in P
  BY <1>1, <1>3
<1> QED
  BY <1>1, <1>3, <1>4

\* The rows of a sequence have costs.
LEMMA RowCosts ==
  ASSUME NEW s \in Seq(CachedRows)
  PROVE  /\ Len(s) \in Nat /\ 0 \in 0..Len(s) /\ Len(s) \in 0..Len(s)
         /\ \A n \in 1..Len(s) : s[n] \in CachedRows /\ s[n].cost \in Nat \ {0}
<1>1. Len(s) \in Nat
  BY LenProperties
<1>2. ASSUME NEW n \in 1..Len(s) PROVE s[n] \in CachedRows /\ s[n].cost \in Nat \ {0}
  <2>1. s[n] \in CachedRows
    BY ElementOfSeq
  <2> QED
    BY <2>1 DEF CachedRows
<1> QED
  BY <1>1, <1>2

\* f adds up the costs of the rows of s.
AddsUp(f, s) ==
  f = [n \in 0..Len(s) |-> IF n = 0 THEN 0 ELSE f[n - 1] + s[n].cost]

\* The rows of every sequence can be added up: a sum over n - 1 rows extends to n.
LEMMA SumExists ==
  ASSUME NEW s \in Seq(CachedRows)
  PROVE  \E f : AddsUp(f, s)
<1> DEFINE Sum(f, m) == /\ f[0] = 0
                        /\ \A n \in 1..m : f[n] = f[n - 1] + s[n].cost
           P == {m \in 0..Len(s) : \E f \in [0..m -> Nat] : Sum(f, m)}
<1>1. Len(s) \in Nat /\ Len(s) \in 0..Len(s) /\ \A n \in 1..Len(s) : s[n].cost \in Nat
  BY RowCosts
<1>2. 0 \in P
  <2> DEFINE z == [n \in 0..0 |-> 0]
  <2>1. z \in [0..0 -> Nat] /\ z[0] = 0 /\ \A n \in 1..0 : FALSE
    OBVIOUS
  <2>2. 0 \in 0..Len(s)
    BY <1>1
  <2> HIDE DEF z
  <2>3. Sum(z, 0)
    BY <2>1
  <2> HIDE DEF Sum
  <2> QED
    BY <2>1, <2>2, <2>3
<1>3. ASSUME NEW m \in 1..Len(s), m - 1 \in P PROVE m \in P
  <2>1. PICK f \in [0..(m - 1) -> Nat] : Sum(f, m - 1)
    BY <1>3
  <2> DEFINE g == [n \in 0..m |-> IF n = m THEN f[m - 1] + s[m].cost ELSE f[n]]
  <2>2. f[m - 1] \in Nat /\ s[m].cost \in Nat /\ m \in Nat
    BY <1>1, <2>1
  <2>3. g \in [0..m -> Nat]
    BY <2>1, <2>2
  <2>4. g[0] = 0
    BY <1>1, <2>1
  <2>5. ASSUME NEW n \in 1..m PROVE g[n] = g[n - 1] + s[n].cost
    <3>1. CASE n = m
      BY <3>1, <1>1
    <3>2. CASE n # m
      <4>1. n \in 1..(m - 1)
        BY <3>2, <1>1
      <4>2. f[n] = f[n - 1] + s[n].cost
        BY <2>1, <4>1
      <4> QED
        BY <4>1, <4>2, <1>1
    <3> QED
      BY <3>1, <3>2
  <2>6. Sum(g, m)
    <3> HIDE DEF g
    <3> QED
      BY <2>4, <2>5
  <2>7. m \in 0..Len(s)
    BY <1>1
  <2> HIDE DEF g, Sum
  <2> QED
    BY <2>3, <2>6, <2>7
<1>4. Len(s) \in P
  <2> HIDE DEF P
  <2> QED
    BY <1>1, <1>2, <1>3, UpTo
<1>5. PICK f \in [0..Len(s) -> Nat] : Sum(f, Len(s))
  BY <1>4
<1>6. ASSUME NEW n \in 0..Len(s)
      PROVE  f[n] = IF n = 0 THEN 0 ELSE f[n - 1] + s[n].cost
  BY <1>1, <1>5
<1> QED
  BY <1>5, <1>6 DEF AddsUp

\* CostOfFirst: what it is for none, and for one more.
LEMMA CostSums ==
  ASSUME NEW s \in Seq(CachedRows)
  PROVE  /\ CostOfFirst(s) \in [0..Len(s) -> Nat]
         /\ CostOfFirst(s)[0] = 0
         /\ \A n \in 1..Len(s) : CostOfFirst(s)[n] = CostOfFirst(s)[n - 1] + s[n].cost
<1> DEFINE f == CostOfFirst(s)
<1>1. f = CHOOSE g : AddsUp(g, s)
  BY DEF CostOfFirst, AddsUp
<1>2. AddsUp(f, s)
  BY <1>1, SumExists
<1> HIDE DEF f
<1>3. Len(s) \in Nat /\ Len(s) \in 0..Len(s) /\ \A n \in 1..Len(s) : s[n].cost \in Nat
  BY RowCosts
<1>4. /\ f = [n \in 0..Len(s) |-> f[n]]
      /\ f[0] = 0
      /\ \A n \in 1..Len(s) : f[n] = f[n - 1] + s[n].cost
  BY <1>2, <1>3 DEF AddsUp
<1> DEFINE P == {m \in 0..Len(s) : f[m] \in Nat}
<1>5. 0 \in P /\ \A m \in 1..Len(s) : m - 1 \in P => m \in P
  <2>1. 0 \in P
    BY <1>3, <1>4
  <2>2. ASSUME NEW m \in 1..Len(s), m - 1 \in P PROVE m \in P
    <3>1. f[m] = f[m - 1] + s[m].cost /\ f[m - 1] \in Nat /\ s[m].cost \in Nat
      BY <1>3, <1>4, <2>2
    <3>2. m \in 0..Len(s)
      BY <1>3
    <3> QED
      BY <3>1, <3>2
  <2> QED
    BY <2>1, <2>2
<1>6. \A n \in 0..Len(s) : f[n] \in Nat
  <2> HIDE DEF P
  <2>1. 0..Len(s) \subseteq P
    BY <1>3, <1>5, UpTo
  <2> QED
    BY <2>1 DEF P
<1> QED
  BY <1>4, <1>6 DEF f

\* Two functions on 0..n that start alike and grow alike are the same.
LEMMA SameSums ==
  ASSUME NEW n \in Nat, NEW f \in [0..n -> Int], NEW g \in [0..n -> Int], f[0] = g[0],
         \A m \in 1..n : f[m] - f[m - 1] = g[m] - g[m - 1]
  PROVE  f = g
<1> DEFINE P == {m \in 0..n : f[m] = g[m]}
<1>1. 0 \in P
  OBVIOUS
<1>2. ASSUME NEW m \in 1..n, m - 1 \in P PROVE m \in P
  <2>1. m - 1 \in 0..n /\ m \in 0..n /\ f[m] - f[m - 1] = g[m] - g[m - 1]
    OBVIOUS
  <2>2. f[m] \in Int /\ g[m] \in Int /\ f[m - 1] \in Int /\ f[m - 1] = g[m - 1]
    BY <1>2, <2>1
  <2> QED
    BY <2>1, <2>2
<1>3. 0..n \subseteq P
  <2> HIDE DEF P
  <2> QED
    BY <1>1, <1>2, UpTo
<1> QED
  BY <1>3

\* An appended row adds its cost.
LEMMA AppendedSums ==
  ASSUME NEW s \in Seq(CachedRows), NEW row \in CachedRows
  PROVE  /\ \A n \in 0..Len(s) : CostOfFirst(Append(s, row))[n] = CostOfFirst(s)[n]
         /\ CostOfFirst(Append(s, row))[Len(s) + 1] = CostOfFirst(s)[Len(s)] + row.cost
<1> DEFINE grown == Append(s, row)
           f == CostOfFirst(s)
           h == CostOfFirst(grown)
           g == [n \in 0..Len(s) |-> h[n]]
<1>1. /\ grown \in Seq(CachedRows) /\ Len(grown) = Len(s) + 1
      /\ \A n \in 1..Len(s) : grown[n] = s[n]
      /\ grown[Len(s) + 1] = row
  BY AppendProperties
<1>2. /\ Len(s) \in Nat /\ f \in [0..Len(s) -> Nat] /\ f[0] = 0
      /\ \A n \in 1..Len(s) : f[n] = f[n - 1] + s[n].cost /\ s[n].cost \in Nat
  BY CostSums, RowCosts
<1>3. /\ h \in [0..(Len(s) + 1) -> Nat] /\ h[0] = 0
      /\ \A n \in 1..(Len(s) + 1) : h[n] = h[n - 1] + grown[n].cost
  <2> HIDE DEF grown
  <2> QED
    BY <1>1, CostSums
<1> HIDE DEF grown, f, h
<1>4. ASSUME NEW n \in 1..Len(s) PROVE f[n] - f[n - 1] = g[n] - g[n - 1]
  <2>1. /\ n - 1 \in 0..Len(s) /\ n \in 0..Len(s)
        /\ n - 1 \in 0..(Len(s) + 1) /\ n \in 1..(Len(s) + 1)
    BY <1>2
  <2>2. h[n] = h[n - 1] + s[n].cost /\ h[n - 1] \in Nat /\ s[n].cost \in Nat
    BY <1>1, <1>2, <1>3, <2>1
  <2>3. f[n] = f[n - 1] + s[n].cost /\ f[n - 1] \in Nat
    BY <1>2, <2>1
  <2> QED
    BY <2>1, <2>2, <2>3
<1>5. g \in [0..Len(s) -> Int] /\ f \in [0..Len(s) -> Int] /\ f[0] = g[0]
  BY <1>2, <1>3
<1>6. f = g
  <2> HIDE DEF g
  <2> QED
    BY <1>2, <1>4, <1>5, SameSums
<1>7. \A n \in 0..Len(s) : h[n] = f[n]
  BY <1>6
<1>8. h[Len(s) + 1] = h[Len(s)] + row.cost
  <2>1. Len(s) + 1 \in 1..(Len(s) + 1) /\ (Len(s) + 1) - 1 = Len(s)
    BY <1>2
  <2>2. h[Len(s) + 1] = h[(Len(s) + 1) - 1] + grown[Len(s) + 1].cost
    BY <1>3, <2>1
  <2> QED
    BY <1>1, <2>1, <2>2
<1> QED
  BY <1>2, <1>7, <1>8 DEF f, h, grown

\* Evicting the first n rows: what is left, and what it costs.
LEMMA KeptSums ==
  ASSUME NEW s \in Seq(CachedRows), NEW n \in 0..Len(s)
  PROVE  LET kept == SubSeq(s, n + 1, Len(s))
         IN  /\ kept \in Seq(CachedRows) /\ Len(kept) = Len(s) - n
             /\ \A i \in 1..(Len(s) - n) : kept[i] = s[n + i]
             /\ CostOfFirst(kept)[Len(kept)] = CostOfFirst(s)[Len(s)] - CostOfFirst(s)[n]
<1> DEFINE kept == SubSeq(s, n + 1, Len(s))
           f == CostOfFirst(s)
           h == CostOfFirst(kept)
           m == Len(s) - n
           g == [i \in 0..m |-> f[n + i] - f[n]]
<1>1. Len(s) \in Nat /\ n \in Nat /\ n <= Len(s) /\ m \in Nat
  BY LenProperties
<1>2. \A i \in (n + 1)..Len(s) : s[i] \in CachedRows
  BY <1>1, ElementOfSeq
<1>3. /\ kept \in Seq(CachedRows)
      /\ Len(kept) = IF n + 1 <= Len(s) THEN Len(s) - (n + 1) + 1 ELSE 0
      /\ \A i \in 1..(Len(s) - (n + 1) + 1) : kept[i] = s[n + 1 + i - 1]
  BY <1>1, <1>2, SubSeqProperties
<1> HIDE DEF kept
<1>4. Len(kept) = m /\ \A i \in 1..m : kept[i] = s[n + i]
  <2>1. Len(kept) = m
    BY <1>1, <1>3
  <2>2. ASSUME NEW i \in 1..m PROVE kept[i] = s[n + i]
    <3>1. i \in 1..(Len(s) - (n + 1) + 1) /\ n + 1 + i - 1 = n + i
      BY <1>1
    <3> QED
      BY <1>3, <3>1
  <2> QED
    BY <2>1, <2>2
<1>5. /\ f \in [0..Len(s) -> Nat]
      /\ \A i \in 1..Len(s) : f[i] = f[i - 1] + s[i].cost /\ s[i].cost \in Nat
  BY CostSums, RowCosts
<1>6. /\ h \in [0..m -> Nat] /\ h[0] = 0
      /\ \A i \in 1..m : h[i] = h[i - 1] + kept[i].cost
  <2>1. /\ h \in [0..Len(kept) -> Nat] /\ h[0] = 0
        /\ \A i \in 1..Len(kept) : h[i] = h[i - 1] + kept[i].cost
    BY <1>3, CostSums
  <2> QED
    BY <1>4, <2>1
<1> HIDE DEF f, h
<1>7. ASSUME NEW i \in 0..m PROVE n + i \in 0..Len(s) /\ f[n + i] \in Nat /\ f[n] \in Nat
  BY <1>1, <1>5
<1>8. ASSUME NEW i \in 1..m PROVE h[i] - h[i - 1] = g[i] - g[i - 1]
  <2>1. i \in 0..m /\ i - 1 \in 0..m /\ n + i \in 1..Len(s) /\ (n + i) - 1 = n + (i - 1)
    BY <1>1
  <2>2. f[n + i] = f[n + (i - 1)] + s[n + i].cost /\ s[n + i].cost \in Nat
    BY <1>5, <2>1
  <2>3. f[n] \in Nat /\ f[n + (i - 1)] \in Nat
    BY <1>7, <2>1
  <2>4. h[i] = h[i - 1] + s[n + i].cost /\ h[i - 1] \in Nat
    BY <1>4, <1>6, <2>1
  <2>5. g[i] = f[n + i] - f[n] /\ g[i - 1] = f[n + (i - 1)] - f[n]
    BY <2>1
  <2> HIDE DEF m, g
  <2> QED
    BY <2>2, <2>3, <2>4, <2>5
<1>9. g \in [0..m -> Int] /\ h \in [0..m -> Int] /\ g[0] = h[0]
  <2>1. 0 \in 0..m /\ n + 0 = n
    BY <1>1
  <2>2. g[0] = 0
    BY <2>1, <1>7
  <2>3. g \in [0..m -> Int]
    <3>1. ASSUME NEW i \in 0..m PROVE f[n + i] - f[n] \in Int
      <4>1. f[n + i] \in Nat /\ f[n] \in Nat
        BY <1>7
      <4> HIDE DEF g, m
      <4> QED
        BY <4>1
    <3> QED
      BY <3>1
  <2>4. h \in [0..m -> Int]
    BY <1>6
  <2> HIDE DEF g, m
  <2> QED
    BY <1>6, <2>2, <2>3, <2>4
<1>10. h = g
  <2> HIDE DEF g, m
  <2> QED
    BY <1>1, <1>8, <1>9, SameSums
<1>11. g[m] = f[Len(s)] - f[n]
  <2>1. m \in 0..m /\ n + m = Len(s)
    BY <1>1
  <2> QED
    BY <2>1
<1> QED
  BY <1>3, <1>4, <1>10, <1>11 DEF kept, f, h

\* Moving a row to the end, by its elements.
LEMMA MovedElements ==
  ASSUME NEW s \in Seq(CachedRows), NEW i \in 1..Len(s)
  PROVE  LET moved == MovedToEnd(s, i)
         IN  /\ moved \in Seq(CachedRows) /\ Len(moved) = Len(s)
             /\ \A j \in 1..(i - 1) : moved[j] = s[j]
             /\ \A j \in i..(Len(s) - 1) : moved[j] = s[j + 1]
             /\ moved[Len(s)] = s[i]
<1>1. Len(s) \in Nat
  BY LenProperties
<1>2. /\ \A j \in 1..(i - 1) : MovedToEnd(s, i)[j] = s[j]
      /\ \A j \in i..(Len(s) - 1) : MovedToEnd(s, i)[j] = s[j + 1]
      /\ MovedToEnd(s, i)[Len(s)] = s[i]
  <2>1. ASSUME NEW j \in 1..(i - 1) PROVE MovedToEnd(s, i)[j] = s[j]
    BY <1>1 DEF MovedToEnd
  <2>2. ASSUME NEW j \in i..(Len(s) - 1) PROVE MovedToEnd(s, i)[j] = s[j + 1]
    BY <1>1 DEF MovedToEnd
  <2>3. MovedToEnd(s, i)[Len(s)] = s[i]
    BY <1>1 DEF MovedToEnd
  <2> QED
    BY <2>1, <2>2, <2>3
<1> QED
  BY <1>2, MovedRows

\* Moving a row to the end does not change what the rows cost.
LEMMA MovedSums ==
  ASSUME NEW s \in Seq(CachedRows), NEW i \in 1..Len(s)
  PROVE  CostOfFirst(MovedToEnd(s, i))[Len(s)] = CostOfFirst(s)[Len(s)]
<1> DEFINE moved == MovedToEnd(s, i)
           f == CostOfFirst(s)
           h == CostOfFirst(moved)
           x == s[i].cost
           g == [j \in 0..Len(s) |-> IF j < i THEN f[j] ELSE IF j < Len(s) THEN f[j + 1] - x
                                     ELSE f[Len(s)]]
<1>1. /\ moved \in Seq(CachedRows) /\ Len(moved) = Len(s)
      /\ \A j \in 1..(i - 1) : moved[j] = s[j]
      /\ \A j \in i..(Len(s) - 1) : moved[j] = s[j + 1]
      /\ moved[Len(s)] = s[i]
  BY MovedElements
<1> HIDE DEF moved
<1>2. /\ Len(s) \in Nat /\ f \in [0..Len(s) -> Nat] /\ f[0] = 0
      /\ \A n \in 1..Len(s) : f[n] = f[n - 1] + s[n].cost /\ s[n].cost \in Nat
      /\ x \in Nat
  BY CostSums, RowCosts
<1>3. /\ h \in [0..Len(s) -> Nat] /\ h[0] = 0
      /\ \A n \in 1..Len(s) : h[n] = h[n - 1] + moved[n].cost
  BY <1>1, CostSums
<1> HIDE DEF f, h
<1>4. f[i] = f[i - 1] + x
  BY <1>2
<1> HIDE DEF x
<1>5. ASSUME NEW j \in 1..Len(s) PROVE h[j] - h[j - 1] = g[j] - g[j - 1]
  <2>1. /\ j \in 0..Len(s) /\ j - 1 \in 0..Len(s) /\ Len(s) \in 0..Len(s)
        /\ h[j] = h[j - 1] + moved[j].cost
        /\ h[j - 1] \in Nat /\ f[j] \in Nat /\ f[j - 1] \in Nat /\ x \in Nat
    BY <1>2, <1>3
  <2>2. CASE j < i
    <3>1. moved[j].cost = s[j].cost
      BY <1>1, <2>2
    <3>2. f[j] = f[j - 1] + s[j].cost /\ s[j].cost \in Nat
      BY <1>2
    <3>3. g[j] = f[j] /\ g[j - 1] = f[j - 1]
      BY <2>1, <2>2
    <3> QED
      BY <2>1, <3>1, <3>2, <3>3
  <2>3. CASE j >= i /\ j < Len(s)
    <3>1. moved[j].cost = s[j + 1].cost
      BY <1>1, <1>2, <2>3
    <3>2. j + 1 \in 1..Len(s) /\ (j + 1) - 1 = j
      BY <1>2, <2>3
    <3>3. f[j + 1] = f[j] + s[j + 1].cost /\ s[j + 1].cost \in Nat
      BY <1>2, <3>2
    <3>4. g[j] = f[j + 1] - x
      BY <2>1, <2>3
    <3>5. g[j - 1] = f[j] - x
      <4>1. CASE j = i
        BY <1>2, <1>4, <2>1, <2>3, <4>1
      <4>2. CASE j # i
        <5>1. ~(j - 1 < i) /\ j - 1 < Len(s) /\ (j - 1) + 1 = j
          BY <1>2, <2>3, <4>2
        <5> QED
          BY <2>1, <5>1
      <4> QED
        BY <4>1, <4>2
    <3>6. f[j + 1] - x = (f[j] - x) + s[j + 1].cost
      BY <2>1, <3>3
    <3>7. h[j] - h[j - 1] = s[j + 1].cost
      BY <2>1, <3>1, <3>3
    <3>8. f[j] - x \in Int
      BY <2>1
    <3> HIDE DEF g
    <3> QED
      BY <3>3, <3>4, <3>5, <3>6, <3>7, <3>8
  <2>4. CASE j >= i /\ j = Len(s)
    <3>1. moved[j].cost = x
      BY <1>1, <2>4 DEF x
    <3>2. g[j] = f[Len(s)]
      BY <2>1, <2>4, <1>2
    <3>3. g[j - 1] = f[j] - x
      <4>1. CASE j = i
        BY <1>2, <1>4, <2>1, <2>4, <4>1
      <4>2. CASE j # i
        <5>1. ~(j - 1 < i) /\ j - 1 < Len(s) /\ (j - 1) + 1 = j
          BY <1>2, <2>4, <4>2
        <5> QED
          BY <2>1, <5>1
      <4> QED
        BY <4>1, <4>2
    <3>4. h[j] - h[j - 1] = x
      BY <2>1, <3>1
    <3>5. g[j] = f[j]
      BY <2>4, <3>2
    <3> HIDE DEF g
    <3> QED
      BY <2>1, <3>3, <3>4, <3>5
  <2> QED
    BY <1>2, <2>2, <2>3, <2>4
<1>6. g \in [0..Len(s) -> Int] /\ h \in [0..Len(s) -> Int] /\ h[0] = g[0]
  <2>1. ASSUME NEW j \in 0..Len(s) PROVE g[j] \in Int
    <3>1. CASE j < i
      <4>1. g[j] = f[j]
        BY <3>1
      <4> HIDE DEF g
      <4> QED
        BY <1>2, <4>1
    <3>2. CASE j >= i /\ j < Len(s)
      <4>1. j + 1 \in 0..Len(s)
        BY <1>2, <3>2
      <4>2. f[j + 1] \in Nat /\ x \in Nat
        BY <1>2, <4>1
      <4>3. g[j] = f[j + 1] - x
        BY <1>2, <3>2
      <4> HIDE DEF g
      <4> QED
        BY <4>2, <4>3
    <3>3. CASE j >= i /\ ~(j < Len(s))
      <4>1. g[j] = f[Len(s)] /\ Len(s) \in 0..Len(s)
        BY <1>2, <3>3
      <4> HIDE DEF g
      <4> QED
        BY <1>2, <4>1
    <3> QED
      BY <3>1, <3>2, <3>3
  <2>2. g \in [0..Len(s) -> Int]
    BY <2>1
  <2>3. g[0] = 0
    BY <1>2
  <2> HIDE DEF g
  <2> QED
    BY <1>3, <2>2, <2>3
<1>7. h = g
  <2> HIDE DEF g
  <2> QED
    BY <1>2, <1>5, <1>6, SameSums
<1>8. g[Len(s)] = f[Len(s)]
  BY <1>2
<1> QED
  BY <1>7, <1>8 DEF f, h, moved

-----------------------------------------------------------------------------
\* What AccountsExact says of one cache with rows s and b bytes.
Exact(s, b) ==
  /\ Len(s) <= MaxEntries
  /\ b <= MaxBytes
  /\ b = CostOfFirst(s)[Len(s)]
  /\ \A i, j \in DOMAIN s : s[i].key = s[j].key => i = j

\* What the eviction of the first n rows leaves, and what it gives back.
Left(s, n) == SubSeq(s, n + 1, Len(s))
Freed(s, n) == CostOfFirst(s)[n]

\* The most recent row of s is of key k.
EndsWith(s, k) == Len(s) \in DOMAIN s /\ s[Len(s)].key = k

\* No row of s is of key k.
Lacks(s, k) == \A i \in DOMAIN s : s[i].key # k

\* A hit keeps the account: the rows are the same, in another order.
LEMMA MovedIsExact ==
  ASSUME NEW s \in Seq(CachedRows), NEW i \in 1..Len(s), NEW b, Exact(s, b)
  PROVE  Exact(MovedToEnd(s, i), b)
<1> DEFINE moved == MovedToEnd(s, i)
           from(j) == IF j < i THEN j ELSE IF j < Len(s) THEN j + 1 ELSE i
<1>1. /\ moved \in Seq(CachedRows) /\ Len(moved) = Len(s)
      /\ \A j \in 1..(i - 1) : moved[j] = s[j]
      /\ \A j \in i..(Len(s) - 1) : moved[j] = s[j + 1]
      /\ moved[Len(s)] = s[i]
      /\ CostOfFirst(moved)[Len(s)] = CostOfFirst(s)[Len(s)]
  BY MovedElements, MovedSums
<1> HIDE DEF moved
<1>2. Len(s) \in Nat /\ DOMAIN s = 1..Len(s) /\ DOMAIN moved = 1..Len(s)
  BY <1>1, LenProperties
<1>3. ASSUME NEW j \in 1..Len(s) PROVE from(j) \in 1..Len(s) /\ moved[j] = s[from(j)]
  <2>1. CASE j < i
    BY <1>1, <1>2, <2>1
  <2>2. CASE j >= i /\ j < Len(s)
    BY <1>1, <1>2, <2>2
  <2>3. CASE j >= i /\ j = Len(s)
    BY <1>1, <1>2, <2>3
  <2>4. j < i \/ (j >= i /\ j < Len(s)) \/ (j >= i /\ j = Len(s))
    <3>1. \A n \in Nat : \A p, q \in 1..n : p < q \/ (p >= q /\ p < n) \/ (p >= q /\ p = n)
      OBVIOUS
    <3> QED
      BY <1>2, <3>1
  <2> HIDE DEF from
  <2> QED
    BY <2>1, <2>2, <2>3, <2>4
<1>4. ASSUME NEW j \in 1..Len(s), NEW k \in 1..Len(s), from(j) = from(k) PROVE j = k
  BY <1>2, <1>4
<1>5. ASSUME NEW j \in DOMAIN moved, NEW k \in DOMAIN moved, moved[j].key = moved[k].key
      PROVE  j = k
  <2>1. j \in 1..Len(s) /\ k \in 1..Len(s)
    BY <1>2
  <2> HIDE DEF from
  <2>2. from(j) \in DOMAIN s /\ from(k) \in DOMAIN s /\ s[from(j)].key = s[from(k)].key
    BY <1>2, <1>3, <1>5, <2>1
  <2>3. from(j) = from(k)
    BY <2>2 DEF Exact
  <2> QED
    BY <1>4, <2>1, <2>3
<1> QED
  BY <1>1, <1>5 DEF Exact, moved

\* What a miss leaves: the account is exact after the eviction, and a row that fits by
\* itself is not among those it evicts.
LEMMA InsertedIsExact ==
  ASSUME NEW s \in Seq(CachedRows), NEW b, Exact(s, b), NEW row \in CachedRows,
         Lacks(s, row.key),
         MaxEntries \in Nat \ {0}, MaxBytes \in Nat, row.cost <= MaxBytes,
         NEW grown, grown = Append(s, row), NEW total, total = b + row.cost,
         NEW n \in 0..Len(grown), StopsAfter(grown, total, n),
         NEW kept, kept = Left(grown, n), NEW left, left = total - Freed(grown, n)
  PROVE  kept \in Seq(CachedRows) /\ Exact(kept, left) /\ EndsWith(kept, row.key)
<1> USE DEF Left, Freed, Lacks
<1> DEFINE f == CostOfFirst(grown)
           L == Len(s)
<1>1. /\ grown \in Seq(CachedRows) /\ Len(grown) = L + 1
      /\ \A i \in 1..L : grown[i] = s[i]
      /\ grown[L + 1] = row
  BY AppendProperties
<1>2. L \in Nat /\ DOMAIN s = 1..L /\ row.cost \in Nat \ {0}
  BY LenProperties DEF CachedRows
<1>3. /\ f[L] = b /\ f[L + 1] = b + row.cost /\ b \in Nat
  <2>1. L \in 0..L
    BY <1>2
  <2>2. CostOfFirst(s)[L] = b /\ CostOfFirst(s) \in [0..L -> Nat]
    BY CostSums DEF Exact
  <2> QED
    BY <2>1, <2>2, AppendedSums
<1> HIDE DEF L
<1>4. f \in [0..(L + 1) -> Nat]
  BY <1>1, CostSums
<1> HIDE DEF f
<1>5. /\ \/ Len(grown) - n <= MaxEntries /\ (b + row.cost) - f[n] <= MaxBytes
         \/ n = Len(grown)
      /\ \A m \in 0..(n - 1) :
           ~(Len(grown) - m <= MaxEntries /\ (b + row.cost) - f[m] <= MaxBytes)
  BY DEF StopsAfter, f
<1>6. n \in 0..L
  <2>1. n \in 0..(L + 1)
    BY <1>1
  <2> SUFFICES ASSUME n = L + 1 PROVE FALSE
    BY <1>2, <2>1
  <2>2. L \in 0..(n - 1) /\ Len(grown) - L = 1 /\ (b + row.cost) - f[L] = row.cost
    BY <1>1, <1>2, <1>3
  <2> QED
    BY <1>2, <1>5, <2>2
<1>7. n \in 0..Len(grown) /\ n # Len(grown)
  BY <1>1, <1>2, <1>6
<1>8. /\ kept \in Seq(CachedRows) /\ Len(kept) = Len(grown) - n
      /\ \A i \in 1..(Len(grown) - n) : kept[i] = grown[n + i]
      /\ CostOfFirst(kept)[Len(kept)] = f[Len(grown)] - f[n]
  BY <1>1, <1>7, KeptSums DEF f
<1>9. /\ Len(kept) = (L + 1) - n /\ Len(kept) \in Nat \ {0}
      /\ DOMAIN kept = 1..((L + 1) - n)
      /\ \A i \in 1..((L + 1) - n) : kept[i] = grown[n + i] /\ n + i \in 1..(L + 1)
  <2>1. Len(kept) = (L + 1) - n /\ Len(kept) \in Nat \ {0} /\ DOMAIN kept = 1..Len(kept)
    BY <1>1, <1>2, <1>6, <1>8, LenProperties
  <2>2. ASSUME NEW i \in 1..((L + 1) - n) PROVE kept[i] = grown[n + i] /\ n + i \in 1..(L + 1)
    <3>1. Len(grown) - n = (L + 1) - n
      BY <1>1
    <3>2. kept[i] = grown[n + i]
      BY <1>8, <3>1
    <3>3. n + i \in 1..(L + 1)
      BY <1>2, <1>6
    <3> QED
      BY <3>2, <3>3
  <2> QED
    BY <2>1, <2>2
<1>10. kept[Len(kept)] = row /\ Len(kept) \in DOMAIN kept
  <2> DEFINE m == Len(kept)
  <2>0. m = (L + 1) - n /\ m \in Nat \ {0} /\ L \in Nat /\ n \in Nat
    BY <1>2, <1>6, <1>9
  <2> HIDE DEF m
  <2>1. m \in 1..((L + 1) - n) /\ n + m = L + 1
    BY <2>0
  <2> QED
    BY <1>1, <1>9, <2>1 DEF m
<1>11. ASSUME NEW i \in 1..(L + 1), NEW j \in 1..(L + 1), grown[i].key = grown[j].key
       PROVE  i = j
  <2>1. CASE i \in 1..L /\ j \in 1..L
    BY <1>1, <1>2, <1>11, <2>1 DEF Exact
  <2>2. CASE i \in 1..L /\ j = L + 1
    BY <1>1, <1>2, <1>11, <2>2
  <2>3. CASE i = L + 1 /\ j \in 1..L
    BY <1>1, <1>2, <1>11, <2>3
  <2>4. (i \in 1..L \/ i = L + 1) /\ (j \in 1..L \/ j = L + 1)
    BY <1>2
  <2> QED
    BY <2>1, <2>2, <2>3, <2>4
<1>12. ASSUME NEW i \in DOMAIN kept, NEW j \in DOMAIN kept, kept[i].key = kept[j].key
       PROVE  i = j
  <2>1. n + i \in 1..(L + 1) /\ n + j \in 1..(L + 1) /\ grown[n + i].key = grown[n + j].key
    BY <1>9, <1>12
  <2>2. n + i = n + j
    BY <1>11, <2>1
  <2> QED
    BY <1>2, <1>6, <1>9, <2>2
<1>13. Exact(kept, left)
  <2>0. left = (b + row.cost) - f[n]
    BY DEF f
  <2>1. CostOfFirst(kept)[Len(kept)] = left
    BY <1>1, <1>3, <1>8, <2>0
  <2>2. Len(kept) <= MaxEntries /\ left <= MaxBytes
    BY <1>5, <1>7, <1>8, <2>0
  <2> QED
    BY <1>12, <2>1, <2>2 DEF Exact
<1> QED
  BY <1>8, <1>10, <1>13 DEF f, EndsWith

-----------------------------------------------------------------------------
\* A call that inserts has a row that can be kept.
FitsAlone ==
  \A t \in Threads : At(t, "inserting") =>
    MaxEntries # 0 /\ Cost[calls[t].key] <= MaxBytes

\* The invariant of the caches' accounts.
AInv == /\ IInv /\ FitsAlone
        /\ bytes \in [Caches -> Nat]
        /\ \A c \in Caches : Exact(rows[c], bytes[c])

\* The accounts hold when no cache was made yet.
LEMMA InitAInv == Init => AInv
<1> SUFFICES ASSUME Init PROVE AInv
  OBVIOUS
<1>1. <<>> \in Seq(CachedRows) /\ Len(<<>>) = 0
  OBVIOUS
<1>2. CostOfFirst(<<>>)[0] = 0
  BY <1>1, CostSums
<1>3. Exact(<<>>, 0)
  <2>1. DOMAIN <<>> = {}
    OBVIOUS
  <2>2. 0 <= MaxEntries /\ 0 <= MaxBytes
    BY TokenCacheAssumption
  <2> QED
    BY <1>1, <1>2, <2>1, <2>2 DEF Exact
<1>4. FitsAlone
  BY DEF Init, FitsAlone, At, NoCall
<1> QED
  BY <1>3, <1>4, InitIInv DEF Init, AInv

\* The account of one cache changes.
LEMMA AccountMoves ==
  ASSUME AInv, IInv', FitsAlone', NEW c \in Caches, NEW s \in Seq(CachedRows), NEW b,
         rows' = [rows EXCEPT ![c] = s], bytes' = [bytes EXCEPT ![c] = b], Exact(s, b)
  PROVE  AInv'
<1>1. b \in Nat
  <2>1. Len(s) \in 0..Len(s) /\ CostOfFirst(s) \in [0..Len(s) -> Nat]
    BY RowCosts, CostSums
  <2> QED
    BY <2>1 DEF Exact
<1>2. rows \in [Caches -> Seq(CachedRows)] /\ bytes \in [Caches -> Nat]
  BY DEF AInv, IInv, RendererTyped
<1>3. bytes' \in [Caches -> Nat]
  BY <1>1, <1>2
<1>4. ASSUME NEW d \in Caches PROVE Exact(rows'[d], bytes'[d])
  <2>1. CASE d = c
    BY <1>2, <2>1
  <2>2. CASE d # c
    BY <1>2, <2>2 DEF AInv
  <2> QED
    BY <2>1, <2>2
<1> QED
  BY <1>3, <1>4 DEF AInv, Exact

\* A call that returns is at its end.
LEMMA ReturnMoves ==
  ASSUME AInv, NEW t \in Threads, NEW ids, Return(t, ids)
  PROVE  /\ \A u \in Threads \ {t} : calls'[u] = calls[u]
         /\ At(t, "returned")' /\ calls'[t].key = calls[t].key
<1>1. calls \in [Threads -> Calls] /\ calls[t] \in Calls
  BY DEF AInv, IInv, CallsTyped
<1> DEFINE call == [calls[t] EXCEPT !.step = "returned", !.ids = ids]
<1>2. calls' = [calls EXCEPT ![t] = call]
  BY <1>1 DEF Return
<1>3. call.step = "returned" /\ call.key = calls[t].key
  BY <1>1 DEF Calls
<1> HIDE DEF call
<1> QED
  BY <1>1, <1>2, <1>3 DEF At

\* No call but t's moves, and t's has a row that can be kept if it is to insert one.
LEMMA FitsAloneMoves ==
  ASSUME AInv, NEW t \in Threads, \A u \in Threads \ {t} : calls'[u] = calls[u],
         At(t, "inserting")' => MaxEntries # 0 /\ Cost[calls'[t].key] <= MaxBytes
  PROVE  FitsAlone'
BY DEF AInv, FitsAlone, At

\* The accounts stay as they are.
LEMMA AccountsStay ==
  ASSUME AInv, IInv', FitsAlone', UNCHANGED <<rows, bytes>>
  PROVE  AInv'
BY DEF AInv, Exact

\* A hit keeps the accounts.
LEMMA HitAccounts ==
  ASSUME AInv, IInv', FitsAlone', NEW t \in Threads, ~At(t, "idle"), ~At(t, "selecting"),
         Hit(t)
  PROVE  AInv'
<1> DEFINE c == calls[t].cache
<1>1. c \in Caches
  BY CallKnows DEF AInv
<1>2. rows[c] \in Seq(CachedRows) /\ Exact(rows[c], bytes[c]) /\ bytes' = bytes
  BY <1>1 DEF AInv, IInv, RendererTyped, Hit
<1>3. PICK i \in Places(c, calls[t].key) : rows' = [rows EXCEPT ![c] = MovedToEnd(@, i)]
  BY DEF Hit
<1>4. i \in 1..Len(rows[c])
  BY <1>2, <1>3, LenProperties DEF Places
<1> DEFINE moved == MovedToEnd(rows[c], i)
<1>5. moved \in Seq(CachedRows) /\ Exact(moved, bytes[c])
  <2> HIDE DEF c
  <2> QED
    BY <1>2, <1>4, MovedRows, MovedIsExact
<1>6. rows' = [rows EXCEPT ![c] = moved] /\ bytes' = [bytes EXCEPT ![c] = bytes[c]]
  <2>1. rows \in [Caches -> Seq(CachedRows)] /\ bytes \in [Caches -> Nat]
    BY DEF AInv, IInv, RendererTyped
  <2>2. rows' = [rows EXCEPT ![c] = moved]
    BY <1>3, <2>1
  <2>3. bytes' = [bytes EXCEPT ![c] = bytes[c]]
    BY <1>1, <1>2, <2>1
  <2> QED
    BY <2>2, <2>3
<1> HIDE DEF moved, c
<1> QED
  BY <1>1, <1>5, <1>6, AccountMoves

\* A miss: what Insert leaves of the cache.
LEMMA MissAccount ==
  ASSUME AInv, NEW t \in Threads, At(t, "inserting"),
         Places(calls[t].cache, calls[t].key) = {},
         InsertAndEvict(calls[t].cache, calls[t].key,
                        Append(rows[calls[t].cache], Row(calls[t].key, calls[t].ids)))
  PROVE  LET c == calls[t].cache
         IN  \E s \in Seq(CachedRows) : \E b :
               /\ rows' = [rows EXCEPT ![c] = s] /\ bytes' = [bytes EXCEPT ![c] = b]
               /\ Exact(s, b)
               /\ EndsWith(s, calls[t].key)
<1> DEFINE c == calls[t].cache
           k == calls[t].key
           row == Row(k, calls[t].ids)
           grown == Append(rows[c], row)
<1>1. ~At(t, "idle") /\ ~At(t, "selecting")
  BY DEF At
<1>2. /\ calls[t] \in Calls /\ k \in Keys /\ calls[t].tokenizer \in Tokenizers /\ c \in Caches
      /\ calls[t].ids = Tokens(calls[t].tokenizer, k)
  BY <1>1, CallKnows DEF AInv, IInv, TokensOfCall
<1>3. row \in CachedRows /\ row.key = k /\ row.cost = Cost[k]
  BY <1>2, TokenCacheAssumption DEF Row, CachedRows, AnyTokens
<1>4. rows[c] \in Seq(CachedRows) /\ Exact(rows[c], bytes[c])
  BY <1>2 DEF AInv, IInv, RendererTyped
<1>5. MaxEntries \in Nat \ {0} /\ MaxBytes \in Nat /\ Cost[k] <= MaxBytes
  BY TokenCacheAssumption DEF AInv, FitsAlone
<1>6. PICK n \in 0..Len(grown) :
        /\ StopsAfter(grown, bytes[c] + Cost[k], n)
        /\ rows' = [rows EXCEPT ![c] = SubSeq(grown, n + 1, Len(grown))]
        /\ bytes' = [bytes EXCEPT ![c] = (bytes[c] + Cost[k]) - CostOfFirst(grown)[n]]
  BY DEF InsertAndEvict
<1>7. Lacks(rows[c], row.key)
  BY <1>3 DEF Places, Lacks
<1> DEFINE kept == Left(grown, n)
           left == (bytes[c] + Cost[k]) - Freed(grown, n)
<1>8. kept \in Seq(CachedRows) /\ Exact(kept, left) /\ EndsWith(kept, row.key)
  <2> DEFINE s == rows[c]
             b == bytes[c]
             total == b + Cost[k]
  <2>1. /\ grown = Append(s, row) /\ total = b + row.cost /\ row.cost <= MaxBytes
        /\ n \in 0..Len(grown) /\ StopsAfter(grown, total, n)
        /\ kept = Left(grown, n) /\ left = total - Freed(grown, n)
        /\ s \in Seq(CachedRows) /\ Exact(s, b) /\ Lacks(s, row.key)
    BY <1>3, <1>4, <1>5, <1>6, <1>7
  <2> HIDE DEF row, c, k, s, b, total, grown, kept, left
  <2> QED
    BY <1>3, <1>5, <2>1, InsertedIsExact
<1> HIDE DEF kept, left, row
<1> QED
  BY <1>3, <1>6, <1>8 DEF kept, left, Left, Freed

\* Each step keeps the accounts.
LEMMA NextAInv == AInv /\ [Next]_vars => AInv'
<1> SUFFICES ASSUME AInv, [Next]_vars PROVE AInv'
  OBVIOUS
<1>1. IInv' /\ calls \in [Threads -> Calls]
  BY NextIInv DEF AInv, IInv, CallsTyped
<1>2. CASE ReplaceTokenizer
  BY <1>1, <1>2, AccountsStay DEF ReplaceTokenizer, AInv, FitsAlone, At
<1>3. ASSUME NEW t \in Threads, NEW k \in Keys, Start(t, k) PROVE AInv'
  BY <1>1, <1>3, AccountsStay DEF Start, AInv, FitsAlone, At, NoCall
<1>4. ASSUME NEW t \in Threads, SelectCache(t) PROVE AInv'
  <2>1. /\ calls[t] \in Calls /\ \A u \in Threads \ {t} : calls'[u] = calls[u]
        /\ UNCHANGED <<rows, bytes>>
    BY <1>1, <1>4 DEF SelectCache
  <2>2. calls'[t].step = "looking up"
    BY <1>1, <1>4, <2>1 DEF SelectCache, Calls
  <2>3. FitsAlone'
    BY <2>1, <2>2, FitsAloneMoves DEF At
  <2> QED
    BY <1>1, <2>1, <2>3, AccountsStay
<1>5. ASSUME NEW t \in Threads, LookUp(t) PROVE AInv'
  <2>1. ~At(t, "idle") /\ ~At(t, "selecting")
    BY <1>5 DEF LookUp, At
  <2>2. FitsAlone'
    <3>1. calls[t] \in Calls /\ \A u \in Threads \ {t} : calls'[u] = calls[u]
      BY <1>1, <1>5 DEF LookUp, Hit, Return
    <3>2. calls'[t].step \in {"returned", "tokenizing"}
      <4>1. CASE Hit(t)
        BY <4>1, ReturnMoves DEF Hit, At
      <4>2. CASE calls' = [calls EXCEPT ![t].step = "tokenizing"]
        <5>1. calls'[t] = [calls[t] EXCEPT !.step = "tokenizing"]
          BY <1>1, <4>2
        <5> QED
          BY <3>1, <5>1 DEF Calls
      <4> QED
        BY <1>5, <4>1, <4>2 DEF LookUp
    <3> QED
      BY <3>1, <3>2, FitsAloneMoves DEF At
  <2>3. Hit(t) \/ UNCHANGED <<rows, bytes>>
    BY <1>5 DEF LookUp
  <2> QED
    BY <1>1, <2>1, <2>2, <2>3, HitAccounts, AccountsStay
<1>6. ASSUME NEW t \in Threads, Tokenize(t) PROVE AInv'
  <2>1. /\ calls[t].key \in Keys /\ Cost[calls[t].key] \in Nat /\ MaxBytes \in Nat
    BY <1>6, CallKnows, TokenCacheAssumption DEF Tokenize, At, AInv
  <2>2. FitsAlone'
    <3>1. calls[t] \in Calls /\ \A u \in Threads \ {t} : calls'[u] = calls[u]
      BY <1>1, <1>6 DEF Tokenize, Return
    <3>3. CASE MaxEntries = 0 \/ Cost[calls[t].key] > MaxBytes
      <4>1. At(t, "returned")'
        BY <1>6, <3>3, ReturnMoves DEF Tokenize
      <4> QED
        BY <3>1, <4>1, FitsAloneMoves DEF At
    <3>4. CASE ~(MaxEntries = 0 \/ Cost[calls[t].key] > MaxBytes)
      <4>1. MaxEntries # 0 /\ Cost[calls[t].key] <= MaxBytes
        BY <2>1, <3>4
      <4>2. PICK ids : calls' = [calls EXCEPT ![t].step = "inserting", ![t].ids = ids]
        BY <1>6, <3>4 DEF Tokenize
      <4>3. calls'[t] = [calls[t] EXCEPT !.step = "inserting", !.ids = ids]
        BY <1>1, <4>2
      <4>4. calls'[t].key = calls[t].key
        BY <3>1, <4>3 DEF Calls
      <4> QED
        BY <3>1, <4>1, <4>4, FitsAloneMoves
    <3> QED
      BY <3>3, <3>4
  <2> QED
    BY <1>1, <1>6, <2>2, AccountsStay DEF Tokenize
<1>7. ASSUME NEW t \in Threads, Insert(t) PROVE AInv'
  <2>1. At(t, "inserting") /\ ~At(t, "idle") /\ ~At(t, "selecting")
    BY <1>7 DEF Insert, At
  <2>2. FitsAlone'
    <3>1. \E ids : Return(t, ids)
      BY <1>7 DEF Insert, Hit
    <3>2. (\A u \in Threads \ {t} : calls'[u] = calls[u]) /\ At(t, "returned")'
      BY <3>1, ReturnMoves
    <3> QED
      BY <3>2, FitsAloneMoves DEF At
  <2>3. CASE Hit(t)
    BY <1>1, <2>1, <2>2, <2>3, HitAccounts
  <2>4. CASE ~Hit(t)
    <3>1. calls[t].cache \in Caches
      BY <2>1, CallKnows DEF AInv
    <3>2. \E s \in Seq(CachedRows) : \E b :
             /\ rows' = [rows EXCEPT ![calls[t].cache] = s]
             /\ bytes' = [bytes EXCEPT ![calls[t].cache] = b]
             /\ Exact(s, b)
      BY <1>7, <2>1, <2>4, MissAccount DEF Insert
    <3> QED
      BY <1>1, <2>2, <3>1, <3>2, AccountMoves
  <2> QED
    BY <2>3, <2>4
<1>8. ASSUME NEW t \in Threads, Finish(t) \/ TokenizeFails(t) PROVE AInv'
  <2>1. FitsAlone' /\ UNCHANGED <<rows, bytes>>
    BY <1>1, <1>8 DEF Finish, TokenizeFails, NoCall, AInv, FitsAlone, At
  <2> QED
    BY <1>1, <2>1, AccountsStay
<1>9. CASE UNCHANGED vars
  BY <1>1, <1>9, AccountsStay DEF vars, AInv, FitsAlone, At
<1> QED
  BY <1>2, <1>3, <1>4, <1>5, <1>6, <1>7, <1>8, <1>9 DEF Next, Step

-----------------------------------------------------------------------------
\* Whatever other threads insert or evict and however often the tokenizer is
\* replaced, a call of cached_tokenize_prompt returns the tokens of its own key
\* under the tokenizer that it read.
THEOREM OwnTokensAlways == Spec => []OwnTokens
<1>1. IInv => OwnTokens
  BY DEF IInv, TokensOfCall, OwnTokens
<1> QED
  BY <1>1, InitIInv, NextIInv, PTL DEF Spec

\* Every cache of the renderer, in use or dropped, keeps its types and its account: within
\* both bounds, each key once, the bytes of its rows and no others.
THEOREM CachesStaySound == Spec => []CachesSound
<1>1. AInv => CachesSound
  BY DEF AInv, IInv, RendererTyped, CallsTyped, RowsOfOwner, Exact, CachesSound, TypeOK,
         AccountsExact
<1> QED
  BY <1>1, InitAInv, NextAInv, PTL DEF Spec

\* A row survives its own insertion.
THEOREM InsertionsStay == Spec => InsertedRowStays
<1> DEFINE Stays ==
      \A t \in Threads : At(t, "inserting") /\ calls'[t].step = "returned" =>
         \E i \in DOMAIN rows'[calls[t].cache] :
           /\ rows'[calls[t].cache][i].key = calls[t].key
           /\ i = Len(rows'[calls[t].cache])
<1>1. AInv /\ [Next]_vars => [Stays]_vars
  <2> SUFFICES ASSUME AInv, Next, NEW t \in Threads, At(t, "inserting"),
                      calls'[t].step = "returned"
               PROVE  \E i \in DOMAIN rows'[calls[t].cache] :
                        /\ rows'[calls[t].cache][i].key = calls[t].key
                        /\ i = Len(rows'[calls[t].cache])
    OBVIOUS
  <2>1. calls \in [Threads -> Calls] /\ rows \in [Caches -> Seq(CachedRows)]
    BY DEF AInv, IInv, RendererTyped, CallsTyped
  <2>2. calls[t].cache \in Caches
    BY CallKnows DEF AInv, At
  <2>3. Insert(t)
    <3>1. calls'[t] # calls[t]
      BY DEF At
    <3>2. ~ReplaceTokenizer
      BY <3>1 DEF ReplaceTokenizer
    <3>3. ASSUME NEW u \in Threads, NEW k \in Keys, Start(u, k) PROVE FALSE
      BY <2>1, <3>1, <3>3 DEF Start, At
    <3>4. ASSUME NEW u \in Threads, SelectCache(u) PROVE FALSE
      BY <2>1, <3>1, <3>4 DEF SelectCache, At
    <3>5. ASSUME NEW u \in Threads, LookUp(u) PROVE FALSE
      BY <2>1, <3>1, <3>5 DEF LookUp, Hit, Return, At
    <3>6. ASSUME NEW u \in Threads, Tokenize(u) PROVE FALSE
      BY <2>1, <3>1, <3>6 DEF Tokenize, Return, At
    <3>7. ASSUME NEW u \in Threads, Insert(u) PROVE u = t
      BY <2>1, <3>1, <3>7 DEF Insert, Hit, Return, At
    <3>8. ASSUME NEW u \in Threads, Finish(u) \/ TokenizeFails(u) PROVE FALSE
      BY <2>1, <3>1, <3>8 DEF Finish, TokenizeFails, At
    <3> QED
      BY <3>2, <3>3, <3>4, <3>5, <3>6, <3>7, <3>8 DEF Next, Step
  <2>4. CASE Hit(t)
    <3> DEFINE c == calls[t].cache
    <3>1. PICK i \in Places(c, calls[t].key) : rows' = [rows EXCEPT ![c] = MovedToEnd(@, i)]
      BY <2>4 DEF Hit
    <3>2. rows[c] \in Seq(CachedRows) /\ i \in 1..Len(rows[c]) /\ rows[c][i].key = calls[t].key
      BY <2>1, <2>2, <3>1, LenProperties DEF Places
    <3> DEFINE moved == MovedToEnd(rows[c], i)
    <3>3. rows'[c] = moved
      BY <2>1, <2>2, <3>1
    <3> HIDE DEF c
    <3>4. /\ moved \in Seq(CachedRows) /\ Len(moved) = Len(rows[c])
          /\ moved[Len(rows[c])] = rows[c][i]
      BY <3>2, MovedElements
    <3> HIDE DEF moved
    <3>5. Len(moved) \in DOMAIN moved
      BY <3>2, <3>4, LenProperties
    <3> QED
      BY <3>2, <3>3, <3>4, <3>5 DEF c
  <2>5. CASE ~Hit(t)
    <3>1. \E s \in Seq(CachedRows) : \E b :
             /\ rows' = [rows EXCEPT ![calls[t].cache] = s]
             /\ bytes' = [bytes EXCEPT ![calls[t].cache] = b]
             /\ Exact(s, b)
             /\ EndsWith(s, calls[t].key)
      BY <2>3, <2>5, MissAccount DEF Insert
    <3> QED
      BY <2>1, <2>2, <3>1 DEF EndsWith
  <2> QED
    BY <2>4, <2>5
<1> QED
  BY <1>1, InitAInv, NextAInv, PTL DEF Spec, InsertedRowStays
=============================================================================
