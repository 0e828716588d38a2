----------------------------- MODULE MruHistory -----------------------------
(***************************************************************************)
(* What the macro history promises, with no version numbers, no flags and  *)
(* no SQL: for every macro a list of the contents it has had, from the     *)
(* oldest to the newest.  Indexing a content that the list already holds   *)
(* moves it to the end; indexing an unknown content appends it and forgets *)
(* old ones so that at most Capacity are left.  An indexing run works on a *)
(* draft of the whole store, published at its end or discarded.            *)
(***************************************************************************)
EXTENDS Naturals, Sequences, SequencesExt

CONSTANTS Macros,    \* the macros a history is kept for
          Contents,  \* what can be told apart about a macro's content
          Capacity,  \* contents left in a list after a new one was indexed (positive)
          Writers    \* the indexing runs

VARIABLES kept,      \* kept[m]: the contents of m, the oldest first
          draft,     \* draft[w]: the store as writer w has changed it so far
          open       \* the writers at work (the store admits one)

vars == <<kept, draft, open>>

Nothing == [m \in Macros |-> << >>]

TypeOK == /\ kept \in [Macros -> Seq(Contents)]
          /\ draft \in [Writers -> [Macros -> Seq(Contents)]]
          /\ open \subseteq Writers

Init == /\ kept = Nothing
        /\ draft = [w \in Writers |-> Nothing]
        /\ open = {}

(***************************************************************************)
(* The lists that indexing content c may leave behind a list h.            *)
(***************************************************************************)
Moved(h, c)    == {Append(RemoveAt(h, i), c) : i \in {i \in DOMAIN h : h[i] = c}}
Appended(h, c) == {Append(SubSeq(h, k, Len(h)), c) :
                     k \in {k \in 1 .. Len(h) + 1 : Len(h) - k + 2 <= Capacity}}
Touched(h, c)  == IF c \in ToSet(h) THEN Moved(h, c) ELSE Appended(h, c)

Open(w) == /\ open = {}
           /\ open' = {w}
           /\ draft' = [draft EXCEPT ![w] = kept]
           /\ UNCHANGED kept

Touch(w, m, c) == /\ w \in open
                  /\ \E h \in Touched(draft[w][m], c) : draft' = [draft EXCEPT ![w][m] = h]
                  /\ UNCHANGED <<kept, open>>

Close(w) == /\ open' = open \ {w}
            /\ draft' = [draft EXCEPT ![w] = Nothing]

Publish(w) == w \in open /\ kept' = draft[w] /\ Close(w)

Discard(w) == w \in open /\ UNCHANGED kept /\ Close(w)

(***************************************************************************)
(* The user's own changes, each a transaction by itself.                   *)
(***************************************************************************)
Import(m, c) == /\ open = {}
                /\ kept' = [kept EXCEPT ![m] = Append(@, c)]
                /\ UNCHANGED <<draft, open>>

RemoveOne(m, i) == /\ open = {}
                   /\ kept' = [kept EXCEPT ![m] = RemoveAt(@, i)]
                   /\ UNCHANGED <<draft, open>>

Forget(M) == /\ open = {}
             /\ kept' = [m \in Macros |-> IF m \in M THEN << >> ELSE kept[m]]
             /\ UNCHANGED <<draft, open>>

Next == \/ \E w \in Writers : Open(w) \/ Publish(w) \/ Discard(w)
        \/ \E w \in Writers, m \in Macros, c \in Contents : Touch(w, m, c)
        \/ \E m \in Macros, c \in Contents : Import(m, c)
        \/ \E m \in Macros : \E i \in DOMAIN kept[m] : RemoveOne(m, i)
        \/ \E M \in SUBSET Macros : Forget(M)

Spec == Init /\ [][Next]_vars
=============================================================================
