------------------------- MODULE TokenCacheProperties -------------------------
(***************************************************************************)
(* Properties of the input-token cache.                                    *)
(***************************************************************************)
EXTENDS TokenCache

AnyTokens == {Tokens(tok, k) : tok \in Tokenizers, k \in Keys}
CachedRows == [key : Keys, ids : AnyTokens, cost : Nat \ {0}]
Calls == [step : {"idle", "selecting", "looking up", "tokenizing", "inserting",
                  "returned"},
          key : Keys \cup {Nothing},
          tokenizer : Tokenizers \cup {Nothing},
          cache : Caches \cup {Nothing},
          ids : AnyTokens \cup {Nothing}]

\* The variables of the renderer, its caches and its threads keep their types: a
\* call under way has a key and a tokenizer, one that looks up, tokenizes or
\* inserts a cache, and a cache that was not made yet is empty.
TypeOK ==
  /\ tokenizer \in Tokenizers
  /\ current \in [cache : Caches \cup {Nothing},
                  tokenizer : Tokenizers \cup {Nothing}]
  /\ owner \in [Caches -> Tokenizers \cup {Nothing}]
  /\ rows \in [Caches -> Seq(CachedRows)]
  /\ bytes \in [Caches -> Nat]
  /\ calls \in [Threads -> Calls]
  /\ \A t \in Threads :
       /\ ~At(t, "idle") => /\ calls[t].key \in Keys
                           /\ calls[t].tokenizer \in Tokenizers
       /\ ~At(t, "idle") /\ ~At(t, "selecting") => calls[t].cache \in Caches
  /\ \A c \in Caches : owner[c] = Nothing => rows[c] = <<>>

\* A call returns the tokens of its own key under the tokenizer it has read,
\* whatever was cached, evicted or replaced while it ran: a row written for an
\* earlier tokenizer is never served for a later one.
OwnTokens ==
  \A t \in Threads : At(t, "returned") =>
    calls[t].ids = Tokens(calls[t].tokenizer, calls[t].key)

\* Whenever its lock is free a cache is within both bounds, holds each key
\* once, and counts exactly the bytes of its rows, although misses on the same
\* key insert in any order.
AccountsExact ==
  \A c \in Caches :
    /\ Len(rows[c]) <= MaxEntries
    /\ bytes[c] <= MaxBytes
    /\ bytes[c] = CostOfFirst(rows[c])[Len(rows[c])]
    /\ \A i, j \in DOMAIN rows[c] : rows[c][i].key = rows[c][j].key => i = j

\* Together: every cache of the renderer, in use or dropped, is well-formed.
CachesSound == TypeOK /\ AccountsExact

\* A row survives its own insertion: only older rows are evicted for it, and
\* a row too large to be kept evicts none.
InsertedRowStays ==
  [][\A t \in Threads :
       At(t, "inserting") /\ calls'[t].step = "returned" =>
         \E i \in DOMAIN rows'[calls[t].cache] :
           /\ rows'[calls[t].cache][i].key = calls[t].key
           /\ i = Len(rows'[calls[t].cache])]_vars
=============================================================================
