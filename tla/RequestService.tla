--------------------------- MODULE RequestService ---------------------------
(***************************************************************************)
(* What the rig task promises to the connections of the JSON listener,     *)
(* with no queue and no batch: a request is accepted or refused, an        *)
(* accepted request runs at most once, only spectrum requests share a run, *)
(* and a connection is told the result of its own request, or that it was  *)
(* refused, or that nobody waited for it any longer.                       *)
(***************************************************************************)
CONSTANTS Conns,    \* connections of the listener
          Request,  \* every request a connection may ask, a record with conn and kind
          NoRequest \* a connection that waits for nothing

VARIABLES asked,    \* the request each connection waits for, or NoRequest
          pending,  \* requests accepted and not run yet
          results,  \* <<request, result>> of every request that has run
          told      \* <<request, answer>> of every request a connection was answered

vars == <<asked, pending, results, told>>

Results == {"ok", "err"}

HasRun(r)  == \E x \in Results : <<r, x>> \in results
WasTold(r) == \E t \in told : t[1] = r

Init ==
    /\ asked = [c \in Conns |-> NoRequest]
    /\ pending = {} /\ results = {} /\ told = {}

\* A connection asks for something it never asked before.
Ask(c, r) ==
    /\ asked[c] = NoRequest
    /\ r.conn = c /\ ~WasTold(r) /\ ~HasRun(r) /\ r \notin pending
    /\ asked' = [asked EXCEPT ![c] = r]
    /\ UNCHANGED <<pending, results, told>>

Accept(c) ==
    /\ asked[c] # NoRequest
    /\ asked[c] \notin pending /\ ~HasRun(asked[c])
    /\ pending' = pending \cup {asked[c]}
    /\ UNCHANGED <<asked, results, told>>

\* One command, or any number of spectrum requests, run together.
Run(S, x) ==
    /\ S # {} /\ S \subseteq pending
    /\ \/ \E r \in S : S = {r}
       \/ \A r \in S : r.kind = "spectrum"
    /\ pending' = pending \ S
    /\ results' = results \cup (S \X {x})
    /\ UNCHANGED <<asked, told>>

Tell(c, answer) ==
    /\ asked[c] # NoRequest
    /\ asked' = [asked EXCEPT ![c] = NoRequest]
    /\ told' = told \cup {<<asked[c], answer>>}
    /\ UNCHANGED <<pending, results>>

Answer(c)  == \E x \in Results : <<asked[c], x>> \in results /\ Tell(c, x)
Refuse(c)  == asked[c] \notin pending /\ ~HasRun(asked[c]) /\ Tell(c, "refused")
GiveUp(c)  == Tell(c, "timeout")

\* The service stops for good: what is pending is lost, and whoever still
\* waits is told that its answer will never come, or loses its connection.
Stop       == pending' = {} /\ UNCHANGED <<asked, results, told>>
Drop(c)    == asked[c] \notin pending /\ ~HasRun(asked[c]) /\ Tell(c, "dropped")
Hangup(c)  == /\ asked' = [asked EXCEPT ![c] = NoRequest]
              /\ UNCHANGED <<pending, results, told>>

Next ==
    \/ \E c \in Conns : \/ \E r \in Request : Ask(c, r)
                        \/ Accept(c) \/ Answer(c) \/ Refuse(c)
                        \/ GiveUp(c) \/ Drop(c) \/ Hangup(c)
    \/ \E S \in SUBSET pending, x \in Results : Run(S, x)
    \/ Stop

Spec == Init /\ [][Next]_vars
=============================================================================
