----------------------------- MODULE NameService -----------------------------
(***************************************************************************)
(* What the Cybertwin name resolution service promises its callers         *)
(* (InsertCybertwinInterfaceName and GetCybertwinInterfaceByName of        *)
(* src/cybertwin/model/networks/cybertwin-name-resolution-service.cc),     *)
(* with no nodes that cache, no datagrams and no query ids: a call is      *)
(* answered at most once, with an interface list that was inserted for the *)
(* very name it asked.  Only at the top of the tree is it told that a name *)
(* is unknown; anywhere else it may wait for ever.  Cnrs implements this   *)
(* module and Download is built on it.                                     *)
(***************************************************************************)
EXTENDS Sequences

CONSTANTS
    Node,      \* where calls are made
    Top,       \* the nodes without a superior
    Name,
    Ifs,       \* non-empty interface lists
    NoIfs,     \* the empty list
    Request,   \* calls, by their callbacks
    NoReq

VARIABLES
    asked,     \* [Request]: the node and name of the call, or NoReq
    answers,   \* [Request]: what the callback was called with
    inserted   \* <<name, ifs>> pairs inserted so far

vars == <<asked, answers, inserted>>

Init ==
    /\ asked = [r \in Request |-> NoReq]
    /\ answers = [r \in Request |-> <<>>]
    /\ inserted = {}

\* The callback of call r runs.
CallBack(r, id, i) ==
    answers' = [answers EXCEPT ![r] = Append(@, [name |-> id, ifs |-> i])]

InsertCybertwinInterfaceName(id, i) ==
    /\ inserted' = inserted \cup {<<id, i>>}
    /\ UNCHANGED <<asked, answers>>

\* The call finds the name at its own node and calls back before it returns;
\* at the top it calls back with an empty list; or it has to wait.
GetCybertwinInterfaceByName(r, n, id) ==
    /\ asked[r] = NoReq
    /\ asked' = [asked EXCEPT ![r] = [node |-> n, name |-> id]]
    /\ \/ \E i \in Ifs : <<id, i>> \in inserted /\ CallBack(r, id, i)
       \/ n \in Top /\ CallBack(r, id, NoIfs)
       \/ n \notin Top /\ UNCHANGED answers
    /\ UNCHANGED inserted

\* The answer to a call that waits arrives.  It is never an empty list.
QueryResponse(r) ==
    /\ asked[r] # NoReq
    /\ answers[r] = <<>>
    /\ \E i \in Ifs :
          /\ <<asked[r].name, i>> \in inserted
          /\ CallBack(r, asked[r].name, i)
    /\ UNCHANGED <<asked, inserted>>

Next ==
    \/ \E id \in Name, i \in Ifs : InsertCybertwinInterfaceName(id, i)
    \/ \E r \in Request :
          \/ \E n \in Node, id \in Name : GetCybertwinInterfaceByName(r, n, id)
          \/ QueryResponse(r)

Spec == Init /\ [][Next]_vars
=============================================================================
