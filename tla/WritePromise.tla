---------------------------- MODULE WritePromise ----------------------------
(***************************************************************************)
(* What a settings write promises whoever sees the device.  A call shows   *)
(* the values it asks for before the device reports them, and owes to keep *)
(* or to take back what it has shown: it keeps the promise by waiting for  *)
(* the report, or takes it back when it fails.  Nobody touches a promise   *)
(* of another's, and nobody walks away from one that stands whole, unless  *)
(* the integration is closing.  A call may succeed with its promise open;  *)
(* somebody then still owes it.                                            *)
(***************************************************************************)
CONSTANTS
    Caller,    \* service calls
    Leaf, Value, Absent

VARIABLES
    reported,  \* what the device has reported, leaf by leaf
    promised,  \* what is shown in its place
    debt,      \* of each caller: the promise it, or its successor, has to see to
    verdict,   \* of each caller: what it was told
    closing    \* the integration is shutting down

vars == <<reported, promised, debt, verdict, closing>>

Document == [Leaf -> Value \cup {Absent}]
Nothing == [l \in Leaf |-> Absent]
Failure == {"rejected", "error", "cancelled"}

Init ==
    /\ reported \in Document
    /\ promised = Nothing
    /\ debt = [w \in Caller |-> Nothing]
    /\ verdict = [w \in Caller |-> "none"]
    /\ closing = FALSE

\* A leaf stays promised, or it is kept: the device reports the promised value.
StaysOrKept(l) == \/ promised'[l] = promised[l]
                  \/ promised'[l] = Absent /\ reported'[l] = promised[l]

\* Whatever the device reports meanwhile takes promises with it.
Reports == /\ reported' \in Document /\ promised' \in Document
           /\ \A l \in Leaf : StaysOrKept(l)

\* All of the promise p is shown.
Whole(shown, p) == \A l \in Leaf : p[l] # Absent => shown[l] = p[l]
Owes(w) == debt[w] # Nothing
Told(w, results) == verdict[w] = "none" /\ \E result \in results :
                        verdict' = [verdict EXCEPT ![w] = result]
Settled(w) == debt' = [debt EXCEPT ![w] = Nothing]

\* A call shows what it asks for, in the place of older promises.
Promise(w) ==
    /\ ~Owes(w) /\ verdict[w] = "none"
    /\ \E p \in Document \ {Nothing} :
        /\ promised' = [l \in Leaf |-> IF p[l] # Absent THEN p[l] ELSE promised[l]]
        /\ debt' = [debt EXCEPT ![w] = p]
    /\ UNCHANGED <<reported, verdict, closing>>

\* A call fails before it has shown anything.
Refuse(w) ==
    /\ ~Owes(w) /\ Told(w, Failure)
    /\ UNCHANGED <<reported, promised, debt, closing>>

\* A call succeeds with its promise open.
Accept(w) ==
    /\ Owes(w) /\ Told(w, {"success"})
    /\ Reports /\ Whole(promised', debt[w])
    /\ UNCHANGED <<debt, closing>>

\* The promise is seen to: what stands of it is taken back, together with what the
\* device reports meanwhile.  So ends every call that is rejected or fails.
Redeem(w) ==
    /\ Owes(w) /\ Settled(w)
    /\ reported' \in Document /\ promised' \in Document
    /\ \A l \in Leaf : IF debt[w][l] = promised[l] THEN promised'[l] = Absent
                                                   ELSE StaysOrKept(l)
    /\ Told(w, Failure \cup {"success"}) \/ (verdict[w] = "success" /\ UNCHANGED verdict)
    /\ UNCHANGED closing

\* The promise no longer stands whole, and what is left of it is left to the device.
\* In closing, that may happen to one that does, once the call has returned.
Leave(w) ==
    /\ Owes(w) /\ Settled(w)
    /\ Reports
    /\ ~Whole(promised', debt[w]) \/ (closing /\ verdict[w] = "success")
    /\ Told(w, {"success", "cancelled"}) \/ (verdict[w] = "success" /\ UNCHANGED verdict)
    /\ UNCHANGED closing

Report == Reports /\ UNCHANGED <<debt, verdict, closing>>

\* The device is gone, or new.
Forget ==
    /\ promised' = Nothing /\ reported' \in Document
    /\ UNCHANGED <<debt, verdict, closing>>

Close ==
    /\ ~closing /\ closing' = TRUE
    /\ UNCHANGED <<reported, promised, debt, verdict>>

Next ==
    \/ \E w \in Caller : \/ Promise(w) \/ Refuse(w) \/ Accept(w)
                         \/ Redeem(w) \/ Leave(w)
    \/ Report \/ Forget \/ Close

Spec == Init /\ [][Next]_vars
=============================================================================
