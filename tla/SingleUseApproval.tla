------------------------- MODULE SingleUseApproval -------------------------
(***************************************************************************)
(* What the approval gate promises to its users, without connections,      *)
(* threads, database transactions or crashes: a request id is registered   *)
(* for one operation, may be authorised once by an approver who vouches    *)
(* for exactly that operation, and an authorised request runs at most      *)
(* once.  Nothing is promised about progress: a registered request may     *)
(* never be authorised and an authorised one may be lost.                  *)
(***************************************************************************)


CONSTANTS
    Ids,     \* request ids
    Ops,     \* root operations
    NoOp     \* the operation of an id that was never registered

VARIABLES
    status,  \* status[i] \in Statuses
    op,      \* op[i]: the operation id i was registered for
    vouched, \* <<i, o>> pairs an approver has signed
    ran      \* <<i, o>> pairs that were started as root

vars == <<status, op, vouched, ran>>

Statuses == {"absent", "pending", "consumed", "executed"}

Init ==
    /\ status = [i \in Ids |-> "absent"]
    /\ op = [i \in Ids |-> NoOp]
    /\ vouched = {}
    /\ ran = {}

\* A client asks for operation o under the unused id i.
Register(i, o) ==
    /\ status[i] = "absent"
    /\ status' = [status EXCEPT ![i] = "pending"]
    /\ op' = [op EXCEPT ![i] = o]
    /\ UNCHANGED <<vouched, ran>>

\* An approver signs the operation registered under i.
Vouch(i) ==
    /\ status[i] # "absent"
    /\ vouched' = vouched \cup {<<i, op[i]>>}
    /\ UNCHANGED <<status, op, ran>>

\* The approval of i is used up.
Authorize(i) ==
    /\ status[i] = "pending"
    /\ <<i, op[i]>> \in vouched
    /\ status' = [status EXCEPT ![i] = "consumed"]
    /\ UNCHANGED <<op, vouched, ran>>

\* The authorised operation starts, once.
Execute(i) ==
    /\ status[i] = "consumed"
    /\ status' = [status EXCEPT ![i] = "executed"]
    /\ ran' = ran \cup {<<i, op[i]>>}
    /\ UNCHANGED <<op, vouched>>

Next ==
    \E i \in Ids :
        \/ \E o \in Ops : Register(i, o)
        \/ Vouch(i)
        \/ Authorize(i)
        \/ Execute(i)

Spec == Init /\ [][Next]_vars
=============================================================================
