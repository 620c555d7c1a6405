---------------------------- MODULE Apps_proofs ----------------------------
(***************************************************************************)
(* Proofs about what people hold in their hands: the operators' console    *)
(* with the float it approves, and the phones, for any number of agents,   *)
(* requests, pages, accounts, secrets, screens, calls in flight, codes and *)
(* deployments.                                                            *)
(*                                                                         *)
(* Agent liquidity: float moves only for what was approved, and one        *)
(* request is drawn for once unless its execution was disturbed.           *)
(*                                                                         *)
(* The console in front of it: what the backend receives goes back to a    *)
(* password through three hand-overs, with awaits in between: a login      *)
(* being signed, the cookie it became, the request the cookie came with.   *)
(* Backed says what each of them still has in common with the sign-in.     *)
(*                                                                         *)
(* The throttle of the console's login: the list of failures it holds of a *)
(* key, pruned as it looks, against the key's whole history.               *)
(*                                                                         *)
(* The phone: what every mounted screen has in common with the calls in    *)
(* flight (PhoneFine), what normalising a text makes of it, and the key on *)
(* its way to the keychain (KeyKept).                                      *)
(***************************************************************************)
EXTENDS AgentLiquidity, Console, Mobile, Sums_proofs, SequenceTheorems

-----------------------------------------------------------------------------
(* Agent liquidity. *)

DeciderPcs == {"new", "read", "write", "refused", "done"}
ExecutorPcs == {"new", "read", "send", "poll", "settle", "failed", "refused",
                "done", "error"}
RowStatuses == Statuses \union {"none", "draft"}

\* The types of what the argument is about: requests, calls, transactions.
TypesHold ==
    /\ top_up \in [TopUps -> [agent : Agents \union {None},
                              amount : Amounts \union {0},
                              status : RowStatuses]]
    /\ decider \in [Deciders -> [pc : DeciderPcs,
                                 request : TopUps \union {None},
                                 approved : BOOLEAN]]
    /\ executor \in [Executors -> [pc : ExecutorPcs,
                                   request : TopUps \union {None}]]
    /\ tx \in [Executors -> TxStates]
    /\ timeouts \in Nat

\* A call that has started has a request.
CallsHaveRequests ==
    /\ \A d \in Deciders : decider[d].pc # "new" => decider[d].request \in TopUps
    /\ \A e \in Executors :
          executor[e].pc # "new" => executor[e].request \in TopUps

\* Where an execution stands tells whether its draw was sent, and a settling
\* one was confirmed unless a poll has given up.
DrawsFollowExecution ==
    \A e \in Executors :
        /\ tx[e] # "none" =>
              executor[e].pc \in {"poll", "settle", "failed", "done", "error"}
        /\ executor[e].pc \in {"poll", "settle"} => tx[e] # "none"
        /\ executor[e].pc = "settle" /\ timeouts = 0 => tx[e] = "landed"

\* What the pages show and have out.
DesksHold ==
    desk \in [Desks -> [shown : [TopUps -> RowStatuses],
                       out : [TopUps -> Deciders \union Executors \union {None}],
                       stale : BOOLEAN]]

\* An execution that runs is waited for by some desk, unless it was abandoned.
IsRunning(e) == /\ executor[e].request \in TopUps
                /\ executor[e].pc \notin {"done", "refused", "error"}
Seen(e) == LET q == executor[e].request
           IN  q \in abandoned \/ \E p \in Desks : desk[p].out[q] = e
RunsAreSeen == \A e \in Executors : IsRunning(e) => Seen(e)

LiquidityInv ==
    TypesHold /\ CallsHaveRequests /\ DrawsFollowExecution /\ DesksHold /\ RunsAreSeen

Approved(q) == \E d \in Deciders : /\ decider[d].request = q
                                   /\ decider[d].approved
                                   /\ decider[d].pc = "done"

\* Past the status check of executeTopUp and still going.
Live == {"send", "poll", "settle", "failed"}
Over == {"done", "refused", "error"}

\* Whatever has passed the check was approved, and so was a row that says so.
ApprovalsBacked ==
    /\ \A q \in TopUps : top_up[q].status = "APPROVED" => Approved(q)
    /\ \A e \in Executors :
          executor[e].pc \in Live \/ tx[e] # "none" =>
              Approved(executor[e].request)

\* A row that says EXECUTED was settled by an execution that sent its draw.
ExecutedWasSent ==
    \A q \in TopUps :
        top_up[q].status = "EXECUTED" =>
            \E e \in Executors : /\ executor[e].request = q
                                 /\ tx[e] # "none"
                                 /\ timeouts = 0 => tx[e] = "landed"

\* An undisturbed request: its executions come one at a time; while one is past
\* the check the row says APPROVED, and once one that sent a draw is over the
\* row says it is, so that no later execution passes the check.
OneAtATime ==
    \A q \in TopUps \ disturbed :
        \A e, f \in Executors :
            executor[e].request = q /\ executor[f].request = q =>
                /\ executor[e].pc \notin Over /\ executor[f].pc \notin Over
                      => e = f
                /\ executor[e].pc \in Live => top_up[q].status = "APPROVED"
                /\ tx[e] # "none" /\ executor[e].pc \in Over
                      => top_up[q].status \in {"EXECUTED", "FAILED"}
                /\ tx[e] # "none" /\ tx[f] # "none" => e = f
----------------------------------------------------------------------------
(* What a step does to requests, calls and transactions. *)

rowsAndCalls == <<top_up, decider, executor, net>>

\* The status of one row is rewritten, and nothing else about the rows.
RowSet(q, status) ==
    /\ q \in TopUps
    /\ \A r \in TopUps :
          top_up'[r].status = IF r = q THEN status ELSE top_up[r].status

\* One execution moves on.
Moved(e, pc) ==
    /\ \A f \in Executors :
          /\ executor'[f].request = executor[f].request
          /\ executor'[f].pc = IF f = e THEN pc ELSE executor[f].pc
    /\ UNCHANGED <<decider>>

\* What becomes of one draw.
DrawSet(e, fate) ==
    \A f \in Executors : tx'[f] = IF f = e THEN fate ELSE tx[f]

Proposed(q) ==
    /\ \/ top_up[q].status = "none" /\ RowSet(q, "draft")
       \/ top_up[q].status = "draft" /\ RowSet(q, "PENDING")
    /\ UNCHANGED <<decider, executor, net, disturbed>>

Considered(d) ==
    /\ decider[d].pc = "read"
    /\ \E pc \in {"write", "refused"} :
          \A c \in Deciders :
             /\ decider'[c].request = decider[c].request
             /\ decider'[c].approved = decider[c].approved
             /\ decider'[c].pc = IF c = d THEN pc ELSE decider[c].pc
    /\ UNCHANGED <<top_up, executor, net, disturbed>>

Decided(d) ==
    /\ decider[d].pc = "write"
    /\ RowSet(decider[d].request,
              IF decider[d].approved THEN "APPROVED" ELSE "REJECTED")
    /\ \A c \in Deciders :
          /\ decider'[c].request = decider[c].request
          /\ decider'[c].approved = decider[c].approved
          /\ decider'[c].pc = IF c = d THEN "done" ELSE decider[c].pc
    /\ disturbed' = IF top_up[decider[d].request].status = "PENDING"
                    THEN disturbed ELSE disturbed \union {decider[d].request}
    /\ UNCHANGED <<executor, net>>

Checked(e) ==
    /\ executor[e].pc = "read"
    /\ Moved(e, IF top_up[executor[e].request].status = "APPROVED"
                THEN "send" ELSE "refused")
    /\ UNCHANGED <<top_up, net, disturbed>>

Sent(e) ==
    /\ executor[e].pc = "send" /\ tx[e] = "none"
    /\ Moved(e, "poll") /\ DrawSet(e, "sent")
    /\ UNCHANGED <<top_up, timeouts, disturbed>>

Polled(e) ==
    /\ executor[e].pc = "poll"
    /\ Moved(e, "settle")
    /\ \/ tx[e] = "landed" /\ timeouts' = timeouts
       \/ timeouts' = timeouts + 1
    /\ UNCHANGED <<top_up, tx, disturbed>>

GaveUp(e) ==
    /\ executor[e].pc \in {"send", "poll", "settle"}
    /\ Moved(e, "failed")
    /\ UNCHANGED <<top_up, net, disturbed>>

Closed(e) ==
    /\ \/ /\ executor[e].pc = "settle"
          /\ Moved(e, "done") /\ RowSet(executor[e].request, "EXECUTED")
       \/ /\ executor[e].pc = "failed"
          /\ Moved(e, "error") /\ RowSet(executor[e].request, "FAILED")
    /\ UNCHANGED <<net, disturbed>>

Died(e) ==
    /\ executor[e].pc \in Live
    /\ Moved(e, "error")
    /\ disturbed' = disturbed \union {executor[e].request}
    /\ UNCHANGED <<top_up, net>>

Resolved(e) ==
    /\ tx[e] = "sent"
    /\ \E fate \in {"landed", "failed", "expired"} : DrawSet(e, fate)
    /\ UNCHANGED <<top_up, decider, executor, timeouts, disturbed>>

DecisionStarted(d, q) ==
    /\ decider[d].pc = "new"
    /\ \A c \in Deciders : IF c = d THEN /\ decider'[c].pc = "read"
                                         /\ decider'[c].request = q
                           ELSE decider'[c] = decider[c]
    /\ UNCHANGED <<top_up, executor, net, disturbed>>

RunStarted(e, q) ==
    /\ executor[e].pc = "new"
    /\ \A f \in Executors : IF f = e THEN /\ executor'[f].pc = "read"
                                          /\ executor'[f].request = q
                            ELSE executor'[f] = executor[f]
    /\ \/ Running(q) = {} /\ disturbed' = disturbed
       \/ disturbed' = disturbed \union {q}
    /\ UNCHANGED <<top_up, decider, net>>

Quiet == UNCHANGED <<rowsAndCalls, disturbed>>

Shape ==
    \/ Quiet
    \/ \E q \in TopUps : Proposed(q)
    \/ \E d \in Deciders : \/ Considered(d) \/ Decided(d)
                           \/ \E q \in TopUps : DecisionStarted(d, q)
    \/ \E e \in Executors : \/ Checked(e) \/ Sent(e) \/ Polled(e)
                            \/ GaveUp(e) \/ Closed(e) \/ Died(e)
                            \/ Resolved(e)
                            \/ \E q \in TopUps : RunStarted(e, q)

Rows == [TopUps -> [agent : Agents \union {None}, amount : Amounts \union {0},
                    status : RowStatuses]]
Executions == [Executors -> [pc : ExecutorPcs, request : TopUps \union {None}]]

\* Writing one row's status.
LEMMA RowSetIs ==
    ASSUME top_up \in Rows, NEW q \in TopUps, NEW st \in RowStatuses,
           top_up' = [top_up EXCEPT ![q].status = st]
    PROVE  RowSet(q, st) /\ top_up' \in Rows
  BY DEF Rows, RowSet

\* Moving one execution on.
LEMMA MovedIs ==
    ASSUME executor \in Executions, NEW e \in Executors, NEW pc \in ExecutorPcs,
           GoTo(e, pc), UNCHANGED decider
    PROVE  Moved(e, pc) /\ executor' \in Executions
  BY DEF Executions, Moved, GoTo

\* A step that leaves the pages alone and starts no execution.
LEMMA PagesStay ==
    ASSUME DesksHold, RunsAreSeen, UNCHANGED <<desk, abandoned>>,
           \A f \in Executors :
              IsRunning(f)' => IsRunning(f) /\ executor'[f].request = executor[f].request
    PROVE  DesksHold' /\ RunsAreSeen'
  BY DEF DesksHold, RunsAreSeen, Seen

\* A page with other calls out: what it no longer waits for is abandoned or over.
LEMMA PageChanges ==
    ASSUME DesksHold, RunsAreSeen, UNCHANGED executor, NEW o \in Desks,
           abandoned \subseteq abandoned',
           \A p \in Desks \ {o} : desk'[p] = desk[p],
           \A f \in Executors :
              LET q == executor[f].request
              IN  IsRunning(f) /\ desk[o].out[q] = f =>
                      q \in abandoned' \/ desk'[o].out[q] = f
    PROVE  RunsAreSeen'
<1> SUFFICES ASSUME NEW f \in Executors, IsRunning(f)' PROVE Seen(f)'
  BY DEF RunsAreSeen
<1>1. IsRunning(f) /\ executor' = executor
  BY DEF IsRunning
<1>2. CASE executor[f].request \in abandoned
  BY <1>1, <1>2 DEF Seen
<1>3. CASE \E p \in Desks : desk[p].out[executor[f].request] = f
  <2>1. PICK p \in Desks : desk[p].out[executor[f].request] = f
    BY <1>3
  <2>2. CASE p = o
    BY <1>1, <2>1, <2>2 DEF Seen
  <2>3. CASE p # o
    BY <1>1, <2>1, <2>3 DEF Seen
  <2> QED
    BY <2>2, <2>3
<1> QED
  BY <1>1, <1>2, <1>3 DEF RunsAreSeen, Seen

LEMMA RenderedRows ==
    ASSUME TypesHold, NEW rows \in Renderings
    PROVE  rows \in [TopUps -> RowStatuses]
  BY DEF TypesHold, Renderings, NothingShown, RowStatuses

\* A running execution of q that a page lets go is one of Dropped.
LEMMA DroppedIs ==
    ASSUME NEW o, NEW out, NEW f \in Executors, IsRunning(f),
           executor[f].request \in TopUps, desk[o].out[executor[f].request] = f,
           out[executor[f].request] # f
    PROVE  executor[f].request \in Dropped(o, out)
  BY DEF IsRunning, Dropped, Running

\* Every step keeps running executions in some page's sight, or abandons them.
LEMMA SeenStep ==
    ASSUME TypesHold, CallsHaveRequests, DesksHold, RunsAreSeen, [Next]_vars
    PROVE  DesksHold' /\ RunsAreSeen'
<1> DEFINE Good == DesksHold' /\ RunsAreSeen'
<1> USE DEF pool, pages, backend
<1>1. ASSUME NEW q \in TopUps,
             propose_create(q) \/ \E a \in Agents, n \in Amounts : proposeTopUp(q, a, n)
      PROVE  Good
  BY <1>1, PagesStay DEF propose_create, proposeTopUp, IsRunning
<1>2. ASSUME NEW d \in Deciders, Decision(d) PROVE Good
  BY <1>2, PagesStay DEF Decision, decideTopUp, decide_write, IsRunning
<1>3. ASSUME NEW e \in Executors, Execution(e) PROVE Good
  <2>1. UNCHANGED <<desk, abandoned>>
    BY <1>3 DEF Execution, executeTopUp, draw_send, draw_poll, execute_settle, ExecuteError,
                execute_failed, ExecuteCrash
  <2>2. IsRunning(e) /\ \E pc \in ExecutorPcs : GoTo(e, pc)
    BY <1>3 DEF Execution, executeTopUp, draw_send, draw_poll, execute_settle, ExecuteError,
                execute_failed, ExecuteCrash, ExecutorPcs, IsRunning, CallsHaveRequests
  <2>3. \A f \in Executors : executor'[f].request = executor[f].request
                           /\ (f # e => executor'[f].pc = executor[f].pc)
    BY <2>2 DEF GoTo, TypesHold
  <2> QED
    BY <2>1, <2>2, <2>3, PagesStay DEF IsRunning
<1>4. ASSUME NEW e \in Executors, draw_liquidity(e) \/ ExpireDraw(e) PROVE Good
  BY <1>4, PagesStay DEF draw_liquidity, ExpireDraw, IsRunning
<1>5. ASSUME NEW s \in Sweeps, Sweep(s) PROVE Good
  BY <1>5, PagesStay DEF Sweep, sweepRegion, sweep_find, sweep_create, IsRunning
<1>6. ASSUME projectPoolDraw \/ UNCHANGED vars PROVE Good
  BY <1>6, PagesStay DEF projectPoolDraw, vars, IsRunning
<1>7. ASSUME NEW o \in Desks, NEW rows \in Renderings, NEW out,
             out \in [TopUps -> Deciders \union Executors \union {None}],
             desk' = [desk EXCEPT ![o] = [shown |-> rows, out |-> out, stale |-> FALSE]],
             abandoned' = abandoned \union Dropped(o, out), UNCHANGED executor
      PROVE  Good
  <2>1. DesksHold'
    BY <1>7, RenderedRows DEF DesksHold
  <2>2. desk'[o].out = out /\ \A p \in Desks \ {o} : desk'[p] = desk[p]
    BY <1>7 DEF DesksHold
  <2>3. \A f \in Executors : IsRunning(f) => executor[f].request \in TopUps
    BY DEF CallsHaveRequests, IsRunning
  <2>4. RunsAreSeen'
    BY <1>7, <2>2, <2>3, DroppedIs, PageChanges
  <2> QED
    BY <2>1, <2>4
<1>8. ASSUME NEW o \in Desks, LiquidityPage(o) PROVE Good
  <2>1. NoCallOut \in [TopUps -> Deciders \union Executors \union {None}]
    BY DEF NoCallOut
  <2> QED
    BY <1>7, <1>8, <2>1 DEF LiquidityPage
<1>9. ASSUME NEW o \in Desks, refresh(o) PROVE Good
  <2> DEFINE kept(rows) == [q \in TopUps |-> IF rows[q] = desk[o].shown[q]
                                             THEN desk[o].out[q] ELSE None]
  <2>1. \A rows : kept(rows) \in [TopUps -> Deciders \union Executors \union {None}]
    BY DEF DesksHold
  <2>2. PICK rows \in Renderings :
            /\ desk' = [desk EXCEPT ![o] = [shown |-> rows, out |-> kept(rows), stale |-> FALSE]]
            /\ abandoned' = abandoned \union Dropped(o, kept(rows))
    BY <1>9 DEF refresh
  <2>3. UNCHANGED executor
    BY <1>9 DEF refresh
  <2> HIDE DEF kept
  <2> QED
    BY <1>7, <2>1, <2>2, <2>3
<1>10. ASSUME NEW o \in Desks, NEW q \in TopUps, NEW d \in Deciders, NEW b \in BOOLEAN,
              decide(o, d, q, b)
       PROVE  Good
  <2>1. /\ desk' = [desk EXCEPT ![o].out[q] = d] /\ desk[o].out[q] = None
        /\ UNCHANGED <<executor, abandoned>>
    BY <1>10 DEF decide
  <2>2. DesksHold' /\ \A p \in Desks \ {o} : desk'[p] = desk[p]
    BY <2>1 DEF DesksHold
  <2>3. \A r \in TopUps : r # q => desk'[o].out[r] = desk[o].out[r]
    BY <2>1 DEF DesksHold
  <2>4. \A f \in Executors : IsRunning(f) => executor[f].request \in TopUps /\ f # None
    BY NoneIsNoCall DEF CallsHaveRequests, IsRunning
  <2>5. RunsAreSeen'
    BY <2>1, <2>2, <2>3, <2>4, PageChanges
  <2> QED
    BY <2>2, <2>5
<1>11. ASSUME NEW o \in Desks, NEW q \in TopUps, NEW e \in Executors, run(o, e, q)
       PROVE  Good
  <2>1. /\ desk' = [desk EXCEPT ![o].out[q] = e] /\ desk[o].out[q] = None
        /\ executor' = [executor EXCEPT ![e] = [pc |-> "read", request |-> q]]
        /\ UNCHANGED abandoned
    BY <1>11 DEF run, Press
  <2>2. DesksHold' /\ (\A p \in Desks \ {o} : desk'[p] = desk[p]) /\ desk'[o].out[q] = e
    BY <2>1 DEF DesksHold
  <2>3. \A r \in TopUps : r # q => desk'[o].out[r] = desk[o].out[r]
    BY <2>1 DEF DesksHold
  <2>4. \A f \in Executors \ {e} : executor'[f] = executor[f]
    BY <2>1 DEF TypesHold
  <2>5. executor'[e].request = q
    BY <2>1 DEF TypesHold
  <2>6. Seen(e)'
    BY <2>2, <2>5 DEF Seen
  <2>7. ASSUME NEW f \in Executors \ {e}, IsRunning(f)' PROVE Seen(f)'
    <3> DEFINE r == executor[f].request
    <3>1. IsRunning(f) /\ executor'[f].request = r /\ f # None /\ r \in TopUps
      BY <2>4, <2>7, NoneIsNoCall DEF IsRunning, CallsHaveRequests
    <3>2. r \in abandoned \/ \E p \in Desks : desk[p].out[r] = f
      BY <3>1 DEF RunsAreSeen, Seen
    <3>3. r \in abandoned' \/ \E p \in Desks : desk'[p].out[r] = f
      BY <2>1, <2>2, <2>3, <3>1, <3>2
    <3> QED
      BY <3>1, <3>3 DEF Seen
  <2>8. RunsAreSeen'
    BY <2>6, <2>7 DEF RunsAreSeen
  <2> QED
    BY <2>2, <2>8
<1>12. ASSUME NEW o \in Desks, NEW q \in TopUps, post_returns(o, q) PROVE Good
  <2>1. /\ desk' = [desk EXCEPT ![o].out[q] = None,
                                ![o].stale = @ \/ Succeeded(desk[o].out[q])]
        /\ Answered(desk[o].out[q]) /\ UNCHANGED <<executor, abandoned>>
    BY <1>12 DEF post_returns
  <2>2. (desk[o].stale \/ Succeeded(desk[o].out[q])) \in BOOLEAN
    BY DEF Succeeded
  <2>3. DesksHold' /\ \A p \in Desks \ {o} : desk'[p] = desk[p]
    BY <2>1, <2>2 DEF DesksHold
  <2>4. \A r \in TopUps : r # q => desk'[o].out[r] = desk[o].out[r]
    BY <2>1 DEF DesksHold
  <2>5. \A f \in Executors : IsRunning(f) => executor[f].request \in TopUps /\ ~Answered(f)
    BY CallsDiffer DEF CallsHaveRequests, IsRunning, Answered
  <2>6. ASSUME NEW f \in Executors, IsRunning(f), desk[o].out[executor[f].request] = f
        PROVE  desk'[o].out[executor[f].request] = f
    <3>1. executor[f].request # q
      BY <2>1, <2>5, <2>6
    <3> QED
      BY <2>4, <2>5, <2>6, <3>1
  <2>7. RunsAreSeen'
    BY <2>1, <2>3, <2>6, PageChanges
  <2> QED
    BY <2>3, <2>7
<1>13. ASSUME NEW o \in Desks, NEW q \in TopUps, forward_times_out(o, q) PROVE Good
  <2> DEFINE out == [desk[o].out EXCEPT ![q] = None]
  <2>1. /\ desk' = [desk EXCEPT ![o].out[q] = None]
        /\ abandoned' = abandoned \union Dropped(o, out) /\ UNCHANGED executor
    BY <1>13 DEF forward_times_out
  <2>2. DesksHold' /\ (\A p \in Desks \ {o} : desk'[p] = desk[p]) /\ desk'[o].out = out
    BY <2>1 DEF DesksHold
  <2>3. \A f \in Executors : IsRunning(f) => executor[f].request \in TopUps
    BY DEF CallsHaveRequests, IsRunning
  <2> HIDE DEF out
  <2>4. RunsAreSeen'
    BY <2>1, <2>2, <2>3, DroppedIs, PageChanges
  <2> QED
    BY <2>2, <2>4
<1> HIDE DEF Good
<1>14. ASSUME NEW o \in Desks, Page(o) PROVE Good
  BY <1>8, <1>9, <1>10, <1>11, <1>12, <1>13, <1>14 DEF Page
<1>15. Good
  BY <1>1, <1>2, <1>3, <1>4, <1>5, <1>6, <1>14 DEF Next
<1> QED
  BY <1>15 DEF Good

\* Every handler keeps the types, gives each call it starts a request and has
\* one of the shapes above.
LEMMA StepShape ==
    ASSUME TypesHold, CallsHaveRequests, RunsAreSeen, [Next]_vars
    PROVE  TypesHold' /\ CallsHaveRequests' /\ Shape
<1> DEFINE Good == TypesHold' /\ CallsHaveRequests'
<1> USE DEF pool, net, pages, backend, Shape, rowsAndCalls
<1>1. ASSUME NEW q \in TopUps, NEW a \in Agents, NEW n \in Amounts,
             proposeTopUp(q, a, n)
      PROVE  Good /\ Proposed(q)
  BY <1>1 DEF proposeTopUp, TypesHold, CallsHaveRequests, Proposed, RowSet,
              RowStatuses
<1>2. ASSUME NEW q \in TopUps, propose_create(q) PROVE Good /\ Proposed(q)
  <2>1. top_up \in Rows /\ "PENDING" \in RowStatuses
    BY DEF TypesHold, Rows, RowStatuses, Statuses
  <2>2. RowSet(q, "PENDING") /\ top_up' \in Rows
    BY <1>2, <2>1, RowSetIs DEF propose_create
  <2> QED
    BY <1>2, <2>2 DEF propose_create, TypesHold, CallsHaveRequests, Proposed,
                      Rows
<1>3. ASSUME NEW d \in Deciders, decideTopUp(d) PROVE Good /\ Considered(d)
  BY <1>3 DEF decideTopUp, TypesHold, CallsHaveRequests, Considered, DeciderPcs
<1>4. ASSUME NEW d \in Deciders, decide_write(d) PROVE Good /\ Decided(d)
  <2> DEFINE q == decider[d].request
             st == IF decider[d].approved THEN "APPROVED" ELSE "REJECTED"
  <2>1. q \in TopUps /\ st \in RowStatuses /\ top_up \in Rows
    BY <1>4 DEF decide_write, TypesHold, CallsHaveRequests, RowStatuses,
                Statuses, Rows
  <2>2. RowSet(q, st) /\ top_up' \in Rows
    BY <1>4, <2>1, RowSetIs DEF decide_write
  <2>3. /\ decider' \in [Deciders -> [pc : DeciderPcs,
                                      request : TopUps \union {None},
                                      approved : BOOLEAN]]
        /\ \A c \in Deciders :
              /\ decider'[c].request = decider[c].request
              /\ decider'[c].approved = decider[c].approved
              /\ decider'[c].pc = IF c = d THEN "done" ELSE decider[c].pc
    BY <1>4 DEF decide_write, TypesHold, DeciderPcs
  <2>4. UNCHANGED <<executor, net>>
    BY <1>4 DEF decide_write
  <2>5. Good
    BY <2>2, <2>3, <2>4, <1>4
       DEF TypesHold, CallsHaveRequests, Rows, decide_write
  <2> QED
    BY <1>4, <2>2, <2>3, <2>4, <2>5 DEF decide_write, Decided
<1>5. ASSUME NEW e \in Executors, executeTopUp(e) PROVE Good /\ Checked(e)
  BY <1>5 DEF executeTopUp, GoTo, Request, TypesHold, CallsHaveRequests,
              Checked, Moved, ExecutorPcs
<1>6. ASSUME NEW e \in Executors, draw_send(e)
      PROVE  Good /\ (Sent(e) \/ GaveUp(e))
  <2>1. executor \in Executions /\ executor[e].request \in TopUps
    BY <1>6 DEF TypesHold, Executions, CallsHaveRequests, draw_send
  <2>2. CASE invoke(e) /\ GoTo(e, "poll")
    <3>1. Moved(e, "poll") /\ executor' \in Executions
      BY <1>6, <2>1, <2>2, MovedIs DEF draw_send, ExecutorPcs
    <3>2. /\ DrawSet(e, "sent") /\ tx[e] = "none" /\ timeouts' = timeouts
          /\ tx' \in [Executors -> TxStates]
      BY <2>2 DEF invoke, DrawSet, TypesHold, TxStates
    <3> QED
      BY <1>6, <2>1, <3>1, <3>2
         DEF draw_send, TypesHold, CallsHaveRequests, Executions, Sent, Moved
  <2>3. CASE UNCHANGED net /\ GoTo(e, "failed")
    <3>1. Moved(e, "failed") /\ executor' \in Executions
      BY <1>6, <2>1, <2>3, MovedIs DEF draw_send, ExecutorPcs
    <3> QED
      BY <1>6, <2>1, <2>3, <3>1
         DEF draw_send, TypesHold, CallsHaveRequests, Executions, GaveUp, Moved
  <2> QED
    BY <1>6, <2>2, <2>3 DEF draw_send
<1>7. ASSUME NEW e \in Executors, draw_poll(e)
      PROVE  Good /\ (Polled(e) \/ GaveUp(e))
  <2>1. executor \in Executions /\ executor[e].request \in TopUps
    BY <1>7 DEF TypesHold, Executions, CallsHaveRequests, draw_poll
  <2>2. CASE pollForResult(e) /\ GoTo(e, "settle")
    <3>1. Moved(e, "settle") /\ executor' \in Executions
      BY <1>7, <2>1, <2>2, MovedIs DEF draw_poll, ExecutorPcs
    <3>2. tx' = tx /\ ((tx[e] = "landed" /\ timeouts' = timeouts) \/ timeouts' = timeouts + 1)
      BY <2>2 DEF pollForResult
    <3>3. executor[e].pc = "poll" /\ top_up' = top_up /\ disturbed' = disturbed
      BY <1>7 DEF draw_poll
    <3>4. Polled(e)
      BY <3>1, <3>2, <3>3 DEF Polled
    <3>5. timeouts' \in Nat
      BY <3>2 DEF TypesHold
    <3>6. decider' = decider
      BY <3>1 DEF Moved
    <3>7. TypesHold'
      BY <3>1, <3>2, <3>3, <3>5, <3>6 DEF TypesHold, Executions
    <3>8. CallsHaveRequests'
      BY <2>1, <3>1, <3>6 DEF CallsHaveRequests, Moved
    <3> QED
      BY <3>4, <3>7, <3>8
  <2>3. CASE poll_failed(e) /\ GoTo(e, "failed")
    <3>1. Moved(e, "failed") /\ executor' \in Executions
      BY <1>7, <2>1, <2>3, MovedIs DEF draw_poll, ExecutorPcs
    <3> QED
      BY <1>7, <2>1, <2>3, <3>1
         DEF draw_poll, poll_failed, TypesHold, CallsHaveRequests, Executions, GaveUp, Moved
  <2> QED
    BY <1>7, <2>2, <2>3 DEF draw_poll
<1>8. ASSUME NEW e \in Executors, execute_settle(e) PROVE Good /\ Closed(e)
  <2> DEFINE q == executor[e].request
  <2>1. /\ q \in TopUps /\ top_up \in Rows /\ executor \in Executions
        /\ "EXECUTED" \in RowStatuses /\ "done" \in ExecutorPcs
    BY <1>8 DEF execute_settle, TypesHold, CallsHaveRequests, RowStatuses,
                Statuses, Rows, Executions, ExecutorPcs
  <2>2. RowSet(q, "EXECUTED") /\ top_up' \in Rows
    BY <1>8, <2>1, RowSetIs DEF execute_settle
  <2>3. Moved(e, "done") /\ executor' \in Executions
    BY <1>8, <2>1, MovedIs DEF execute_settle
  <2> QED
    BY <1>8, <2>1, <2>2, <2>3
       DEF execute_settle, TypesHold, CallsHaveRequests, Rows, Executions, Closed, Moved
<1>9. ASSUME NEW e \in Executors, ExecuteError(e) PROVE Good /\ GaveUp(e)
  BY <1>9 DEF ExecuteError, GoTo, TypesHold, CallsHaveRequests, GaveUp,
              Moved, ExecutorPcs
<1>10. ASSUME NEW e \in Executors, execute_failed(e) PROVE Good /\ Closed(e)
  <2> DEFINE q == executor[e].request
  <2>1. /\ q \in TopUps /\ top_up \in Rows /\ executor \in Executions
        /\ "FAILED" \in RowStatuses /\ "error" \in ExecutorPcs
    BY <1>10 DEF execute_failed, TypesHold, CallsHaveRequests, RowStatuses,
                Statuses, Rows, Executions, ExecutorPcs
  <2>2. RowSet(q, "FAILED") /\ top_up' \in Rows
    BY <1>10, <2>1, RowSetIs DEF execute_failed
  <2>3. Moved(e, "error") /\ executor' \in Executions
    BY <1>10, <2>1, MovedIs DEF execute_failed
  <2> QED
    BY <1>10, <2>1, <2>2, <2>3
       DEF execute_failed, TypesHold, CallsHaveRequests, Rows, Executions, Closed, Moved
<1>11. ASSUME NEW e \in Executors, ExecuteCrash(e) PROVE Good /\ Died(e)
  BY <1>11 DEF ExecuteCrash, GoTo, TypesHold, CallsHaveRequests, Died, Moved,
               ExecutorPcs, Live
<1>12. ASSUME NEW e \in Executors, draw_liquidity(e) \/ ExpireDraw(e)
       PROVE  Good /\ Resolved(e)
  BY <1>12 DEF draw_liquidity, ExpireDraw, execute, expire, TypesHold,
               CallsHaveRequests, Resolved, DrawSet, TxStates
<1>13. ASSUME NEW o \in Desks, NEW q \in TopUps, NEW d \in Deciders,
              NEW b \in BOOLEAN, decide(o, d, q, b)
       PROVE  Good /\ DecisionStarted(d, q)
  BY <1>13 DEF decide, TypesHold, CallsHaveRequests, DecisionStarted, DeciderPcs
<1>14. ASSUME NEW o \in Desks, NEW q \in TopUps, NEW e \in Executors,
              run(o, e, q)
       PROVE  Good /\ RunStarted(e, q)
  <2>1. desk[o].out[q] = None /\ executor[e].pc = "new"
    BY <1>14 DEF run, Press
  <2>2. ASSUME Running(q) # {} PROVE Unseen(o, q)
    <3>1. PICK f \in Executors : f \in Running(q)
      BY <2>2 DEF Running
    <3>2. executor[f].request = q /\ IsRunning(f)
      BY <3>1 DEF Running, IsRunning
    <3>3. q \in abandoned \/ \E p \in Desks : desk[p].out[q] = f
      BY <3>2 DEF RunsAreSeen, Seen
    <3>4. f # None
      BY NoneIsNoCall
    <3> QED
      BY <2>1, <2>2, <3>1, <3>3, <3>4 DEF Unseen
  <2>3. \/ Running(q) = {} /\ disturbed' = disturbed
        \/ disturbed' = disturbed \union {q}
    BY <1>14, <2>2 DEF run, Press, Unseen
  <2> QED
    BY <1>14, <2>3 DEF run, Press, TypesHold, CallsHaveRequests, RunStarted,
                       ExecutorPcs
<1>15. ASSUME Quiet PROVE Good
  BY <1>15 DEF Quiet, TypesHold, CallsHaveRequests
<1>16. ASSUME NEW s \in Sweeps, Sweep(s) PROVE Quiet
  BY <1>16 DEF Sweep, sweepRegion, sweep_find, sweep_create, Quiet
<1>17. ASSUME NEW o \in Desks, LiquidityPage(o) \/ refresh(o) PROVE Quiet
  BY <1>17 DEF LiquidityPage, refresh, Quiet
<1>18. ASSUME NEW o \in Desks, NEW q \in TopUps,
              post_returns(o, q) \/ forward_times_out(o, q)
       PROVE  Quiet
  BY <1>18 DEF post_returns, forward_times_out, Quiet
<1>19. ASSUME projectPoolDraw \/ UNCHANGED vars PROVE Quiet
  BY <1>19 DEF projectPoolDraw, vars, Quiet
<1> HIDE DEF Good
<1>20. ASSUME NEW d \in Deciders, Decision(d) PROVE Good /\ Shape
  BY <1>3, <1>4, <1>20 DEF Decision
<1>21. ASSUME NEW e \in Executors,
              Execution(e) \/ draw_liquidity(e) \/ ExpireDraw(e)
       PROVE  Good /\ Shape
  BY <1>5, <1>6, <1>7, <1>8, <1>9, <1>10, <1>11, <1>12, <1>21 DEF Execution
<1>22. ASSUME NEW o \in Desks, Page(o) PROVE Good /\ Shape
  BY <1>13, <1>14, <1>15, <1>17, <1>18, <1>22 DEF Page
<1>23. Good /\ Shape
  BY <1>1, <1>2, <1>15, <1>16, <1>19, <1>20, <1>21, <1>22 DEF Next
<1> QED
  BY <1>23 DEF Good
----------------------------------------------------------------------------
(* The invariants, shape by shape. *)

\* The transaction of an execution is sent, resolved and looked at in that order.
LEMMA DrawsFollowStep ==
    ASSUME LiquidityInv, Shape PROVE DrawsFollowExecution'
<1> USE DEF LiquidityInv, TypesHold, DrawsFollowExecution, net, rowsAndCalls
<1>1. ASSUME Quiet PROVE DrawsFollowExecution'
  BY <1>1 DEF Quiet
<1>2. ASSUME NEW q \in TopUps, Proposed(q) PROVE DrawsFollowExecution'
  BY <1>2 DEF Proposed
<1>3. ASSUME NEW d \in Deciders,
             Considered(d) \/ Decided(d) \/ \E q \in TopUps : DecisionStarted(d, q)
      PROVE  DrawsFollowExecution'
  BY <1>3 DEF Considered, Decided, DecisionStarted
<1>4. ASSUME NEW e \in Executors, Checked(e) \/ Sent(e) PROVE DrawsFollowExecution'
  BY <1>4 DEF Checked, Sent, Moved, DrawSet
<1>5. ASSUME NEW e \in Executors, Polled(e) PROVE DrawsFollowExecution'
  BY <1>5 DEF Polled, Moved
<1>6. ASSUME NEW e \in Executors, GaveUp(e) \/ Closed(e) \/ Died(e)
      PROVE  DrawsFollowExecution'
  BY <1>6 DEF GaveUp, Closed, Died, Moved, Live
<1>7. ASSUME NEW e \in Executors, Resolved(e) PROVE DrawsFollowExecution'
  BY <1>7 DEF Resolved, DrawSet
<1>8. ASSUME NEW e \in Executors, NEW q \in TopUps, RunStarted(e, q)
      PROVE  DrawsFollowExecution'
  BY <1>8 DEF RunStarted
<1> QED
  BY <1>1, <1>2, <1>3, <1>4, <1>5, <1>6, <1>7, <1>8 DEF Shape

\* q is approved after the step.
Backed(q) == \E d \in Deciders : /\ decider'[d].request = q
                                 /\ decider'[d].approved
                                 /\ decider'[d].pc = "done"

\* An approval, once given, stays on record.
LEMMA ApprovalStays ==
    ASSUME TypesHold, Shape, NEW q, Approved(q) PROVE Backed(q)
<1>1. PICK d \in Deciders : /\ decider[d].request = q
                            /\ decider[d].approved
                            /\ decider[d].pc = "done"
  BY DEF Approved
<1>2. decider'[d].request = q /\ decider'[d].approved /\ decider'[d].pc = "done"
  BY <1>1 DEF Shape, Quiet, rowsAndCalls, Proposed, Considered, Decided,
              DecisionStarted, Checked, Sent, Polled, GaveUp, Closed, Died,
              Resolved, RunStarted, Moved
<1> QED
  BY <1>1, <1>2 DEF Backed

\* Rows that say APPROVED and executions that passed the check are backed by an
\* operator's decision: the check and the send see the same approval.
LEMMA ApprovalsStep ==
    ASSUME LiquidityInv, ApprovalsBacked, Shape PROVE ApprovalsBacked'
<1> USE DEF LiquidityInv, TypesHold, net, rowsAndCalls
<1> DEFINE RowsOK == \A q \in TopUps :
                        top_up'[q].status = "APPROVED" => Backed(q)
           CallsOK == \A e \in Executors :
                        executor'[e].pc \in Live \/ tx'[e] # "none"
                           => Backed(executor'[e].request)
<1>1. SUFFICES RowsOK /\ CallsOK
  BY DEF ApprovalsBacked, Approved, Backed
<1>2. /\ \A q \in TopUps : top_up[q].status = "APPROVED" => Backed(q)
      /\ \A e \in Executors : executor[e].pc \in Live \/ tx[e] # "none" =>
             Backed(executor[e].request)
  BY ApprovalStays DEF ApprovalsBacked
<1>3. ASSUME NEW d \in Deciders, Decided(d) PROVE RowsOK
  <2>1. decider[d].approved => Backed(decider[d].request)
    BY <1>3 DEF Decided, Backed
  <2> QED
    BY <1>2, <1>3, <2>1 DEF Decided, RowSet
<1>4. ASSUME NEW e \in Executors, Closed(e) PROVE RowsOK
  BY <1>2, <1>4 DEF Closed, RowSet
<1>5. ASSUME NEW q \in TopUps, Proposed(q) PROVE RowsOK
  BY <1>2, <1>5 DEF Proposed, RowSet
<1>6. RowsOK
  BY <1>2, <1>3, <1>4, <1>5
     DEF Shape, Quiet, Considered, DecisionStarted, Checked, Sent, Polled,
         GaveUp, Died, Resolved, RunStarted
<1>7. ASSUME NEW e \in Executors, Checked(e) PROVE CallsOK
  <2>1. executor[e].request \in TopUps
    BY <1>7 DEF Checked, CallsHaveRequests
  <2> QED
    BY <1>2, <1>7, <2>1 DEF Checked, Moved, Live
<1>8. ASSUME NEW e \in Executors,
             Sent(e) \/ Polled(e) \/ GaveUp(e) \/ Closed(e) \/ Died(e)
      PROVE  CallsOK
  BY <1>2, <1>8 DEF Sent, Polled, GaveUp, Closed, Died, Moved, Live, DrawSet
<1>9. ASSUME NEW e \in Executors, Resolved(e) PROVE CallsOK
  BY <1>2, <1>9 DEF Resolved, DrawSet
<1>10. ASSUME NEW e \in Executors, NEW q \in TopUps, RunStarted(e, q)
       PROVE  CallsOK
  <2>1. tx[e] = "none"
    BY <1>10 DEF RunStarted, DrawsFollowExecution
  <2> QED
    BY <1>2, <1>10, <2>1 DEF RunStarted, Live
<1>11. CallsOK
  BY <1>2, <1>7, <1>8, <1>9, <1>10
     DEF Shape, Quiet, Proposed, Considered, Decided, DecisionStarted
<1> QED
  BY <1>6, <1>11

\* A row that says EXECUTED still has behind it the draw it was settled for:
\* no step takes back a draw that was sent or one that landed.
LEMMA ExecutedStep ==
    ASSUME LiquidityInv, ExecutedWasSent, Shape PROVE ExecutedWasSent'
<1> USE DEF LiquidityInv, TypesHold, net, rowsAndCalls
<1> DEFINE Behind(q, e) == /\ executor[e].request = q
                           /\ tx[e] # "none"
                           /\ timeouts = 0 => tx[e] = "landed"
           BehindNext(q, e) == /\ executor'[e].request = q
                               /\ tx'[e] # "none"
                               /\ timeouts' = 0 => tx'[e] = "landed"
<1>1. ASSUME NEW q \in TopUps, NEW e \in Executors, Behind(q, e)
      PROVE  BehindNext(q, e)
  <2>1. executor[e].pc # "new"
    BY <1>1 DEF DrawsFollowExecution
  <2>2. executor'[e].request = q
    BY <1>1, <2>1
       DEF Shape, Quiet, Proposed, Considered, Decided, DecisionStarted,
           Checked, Sent, Polled, GaveUp, Closed, Died, Resolved, RunStarted,
           Moved
  <2>3. timeouts' = timeouts \/ timeouts' = timeouts + 1
    BY DEF Shape, Quiet, Proposed, Considered, Decided, DecisionStarted,
           Checked, Sent, Polled, GaveUp, Closed, Died, Resolved, RunStarted
  <2>4. tx'[e] # "none" /\ (tx[e] = "landed" => tx'[e] = "landed")
    BY <1>1
       DEF Shape, Quiet, Proposed, Considered, Decided, DecisionStarted,
           Checked, Sent, Polled, GaveUp, Closed, Died, Resolved, RunStarted,
           DrawSet
  <2> QED
    BY <1>1, <2>2, <2>3, <2>4
<1>2. ASSUME NEW q \in TopUps, top_up'[q].status = "EXECUTED",
             top_up[q].status # "EXECUTED"
      PROVE  \E e \in Executors : BehindNext(q, e)
  <2>1. PICK e \in Executors : /\ Closed(e) /\ executor[e].pc = "settle"
                               /\ executor[e].request = q
    BY <1>2
       DEF Shape, Quiet, Proposed, Considered, Decided, DecisionStarted,
           Checked, Sent, Polled, GaveUp, Closed, Died, Resolved, RunStarted,
           RowSet
  <2>2. Behind(q, e)
    BY <2>1 DEF DrawsFollowExecution
  <2> QED
    BY <1>1, <2>2
<1>3. ASSUME NEW q \in TopUps, top_up'[q].status = "EXECUTED"
      PROVE  \E e \in Executors : BehindNext(q, e)
  BY <1>1, <1>2, <1>3 DEF ExecutedWasSent
<1> QED
  BY <1>3 DEF ExecutedWasSent

\* OneAtATime for one request and two of its executions.
Apart(q, e, f) ==
    executor[e].request = q /\ executor[f].request = q =>
        /\ executor[e].pc \notin Over /\ executor[f].pc \notin Over => e = f
        /\ executor[e].pc \in Live => top_up[q].status = "APPROVED"
        /\ tx[e] # "none" /\ executor[e].pc \in Over
              => top_up[q].status \in {"EXECUTED", "FAILED"}
        /\ tx[e] # "none" /\ tx[f] # "none" => e = f

\* Undisturbed executions stay one at a time.  A request is disturbed by the
\* steps that could put two side by side: a press while another desk's call runs
\* or one that was abandoned, a decision about a row that is not pending, a crash.
LEMMA OneAtATimeStep ==
    ASSUME LiquidityInv, OneAtATime, Shape PROVE OneAtATime'
<1> USE DEF LiquidityInv, TypesHold, net, rowsAndCalls, Live, Over
<1> SUFFICES ASSUME NEW q \in TopUps \ disturbed',
                    NEW e \in Executors, NEW f \in Executors
             PROVE  Apart(q, e, f)'
  BY DEF OneAtATime, Apart
<1>1. \A x, y \in Executors : q \notin disturbed => Apart(q, x, y)
  BY DEF OneAtATime, Apart
<1>2. ASSUME Quiet PROVE Apart(q, e, f)'
  BY <1>1, <1>2 DEF Quiet, Apart
<1>3. ASSUME NEW r \in TopUps, Proposed(r) PROVE Apart(q, e, f)'
  BY <1>1, <1>3 DEF Proposed, RowSet, Apart
<1>4. ASSUME NEW d \in Deciders,
             Considered(d) \/ \E r \in TopUps : DecisionStarted(d, r)
      PROVE  Apart(q, e, f)'
  BY <1>1, <1>4 DEF Considered, DecisionStarted, Apart
<1>5. ASSUME NEW d \in Deciders, Decided(d) PROVE Apart(q, e, f)'
  <2>1. q \notin disturbed /\ executor' = executor /\ tx' = tx
    BY <1>5 DEF Decided
  <2>2. CASE q # decider[d].request
    BY <1>1, <1>5, <2>1, <2>2 DEF Decided, RowSet, Apart
  <2>3. CASE q = decider[d].request
    <3>1. top_up[q].status = "PENDING"
      BY <1>5, <2>3 DEF Decided
    <3> QED
      BY <1>1, <2>1, <3>1 DEF Apart
  <2> QED
    BY <2>2, <2>3
<1>6. ASSUME NEW x \in Executors, Checked(x) PROVE Apart(q, e, f)'
  BY <1>1, <1>6 DEF Checked, Moved, Apart, DrawsFollowExecution
<1>7. ASSUME NEW x \in Executors, Sent(x) PROVE Apart(q, e, f)'
  <2>1. /\ q \notin disturbed /\ executor[x].pc = "send"
        /\ top_up' = top_up /\ Moved(x, "poll") /\ DrawSet(x, "sent")
    BY <1>7 DEF Sent
  <2>2. ASSUME executor[x].request = q, NEW y \in Executors,
               executor[y].request = q, tx[y] # "none"
        PROVE  FALSE
    <3>1. executor[y].pc \in {"poll", "settle", "failed", "done", "error"}
      BY <2>2 DEF DrawsFollowExecution
    <3>2. top_up[q].status = "APPROVED"
      BY <1>1, <2>1, <2>2 DEF Apart
    <3>3. executor[y].pc \notin Over
      BY <1>1, <2>1, <2>2, <3>2 DEF Apart
    <3>4. x = y
      BY <1>1, <2>1, <2>2, <3>3 DEF Apart
    <3> QED
      BY <2>1, <3>1, <3>4
  <2>3. executor'[e].request = executor[e].request
        /\ executor'[f].request = executor[f].request
    BY <2>1 DEF Moved
  <2>4. ASSUME executor[e].request = q, executor[f].request = q
        PROVE  /\ executor'[e].pc \notin Over /\ executor'[f].pc \notin Over
                     => e = f
               /\ executor'[e].pc \in Live => top_up'[q].status = "APPROVED"
    BY <1>1, <2>1, <2>4 DEF Apart, Moved
  <2>5. ASSUME executor[e].request = q, executor[f].request = q
        PROVE  /\ tx'[e] # "none" /\ executor'[e].pc \in Over
                     => top_up'[q].status \in {"EXECUTED", "FAILED"}
               /\ tx'[e] # "none" /\ tx'[f] # "none" => e = f
    BY <1>1, <2>1, <2>2, <2>5 DEF Apart, Moved, DrawSet
  <2> QED
    BY <2>3, <2>4, <2>5 DEF Apart
<1>8. ASSUME NEW x \in Executors, Polled(x) \/ GaveUp(x)
      PROVE  Apart(q, e, f)'
  BY <1>1, <1>8 DEF Polled, GaveUp, Moved, Apart
<1>9. ASSUME NEW x \in Executors, Closed(x) PROVE Apart(q, e, f)'
  <2>1. q \notin disturbed /\ executor[x].pc \in Live /\ tx' = tx
    BY <1>9 DEF Closed
  <2>2. CASE executor[x].request # q
    BY <1>1, <1>9, <2>1, <2>2 DEF Closed, Moved, RowSet, Apart
  <2>3. CASE executor[x].request = q
    <3>1. top_up'[q].status \in {"EXECUTED", "FAILED"}
      BY <1>9, <2>3 DEF Closed, RowSet
    <3>2. \A y \in Executors : executor[y].request = q =>
             executor'[y].pc \in Over /\ executor'[y].request = q
      BY <1>1, <1>9, <2>1, <2>3 DEF Closed, Moved, Apart
    <3>3. \A y \in Executors : executor'[y].request = executor[y].request
      BY <1>9 DEF Closed, Moved
    <3> QED
      BY <1>1, <2>1, <3>1, <3>2, <3>3 DEF Apart
  <2> QED
    BY <2>2, <2>3
<1>10. ASSUME NEW x \in Executors, Died(x) PROVE Apart(q, e, f)'
  <2>1. q \notin disturbed /\ executor[x].request # q
    BY <1>10 DEF Died
  <2> QED
    BY <1>1, <1>10, <2>1 DEF Died, Moved, Apart
<1>11. ASSUME NEW x \in Executors, Resolved(x) PROVE Apart(q, e, f)'
  BY <1>1, <1>11 DEF Resolved, DrawSet, Apart
<1>12. ASSUME NEW x \in Executors, NEW r \in TopUps, RunStarted(x, r)
       PROVE  Apart(q, e, f)'
  <2>1. /\ q \notin disturbed /\ tx[x] = "none" /\ tx' = tx
        /\ top_up' = top_up /\ executor[x].pc = "new"
    BY <1>12 DEF RunStarted, DrawsFollowExecution
  <2>2. r = q => \A y \in Executors :
                    executor[y].request = q => executor[y].pc \in Over
    BY <1>12 DEF RunStarted, Running
  <2> QED
    BY <1>1, <1>12, <2>1, <2>2 DEF RunStarted, Apart
<1> QED
  BY <1>2, <1>3, <1>4, <1>5, <1>6, <1>7, <1>8, <1>9, <1>10, <1>11, <1>12
     DEF Shape
----------------------------------------------------------------------------
(* The theorems. *)

\* Types, requests and transactions are in order in every reachable state.
LEMMA LiquidityInvHolds == Spec => []LiquidityInv
<1>1. Init => LiquidityInv
  <2>1. Init => TypesHold /\ CallsHaveRequests /\ DrawsFollowExecution
    BY CallsAreDraws
       DEF Init, NoCalls, TypesHold, CallsHaveRequests,
           DrawsFollowExecution, RowStatuses, DeciderPcs, ExecutorPcs, TxStates
  <2>2. Init => DesksHold /\ RunsAreSeen
    BY NoneIsNoCall
       DEF Init, DesksHold, RunsAreSeen, IsRunning, NothingShown, NoCallOut, RowStatuses
  <2> QED
    BY <2>1, <2>2 DEF LiquidityInv
<1>2. LiquidityInv /\ [Next]_vars => LiquidityInv'
  BY StepShape, DrawsFollowStep, SeenStep DEF LiquidityInv
<1> QED
  BY <1>1, <1>2, PTL DEF Spec

\* The pool's float moves only for a request that some operator approved,
\* however decideTopUp and executeTopUp overlap, fail or die.
THEOREM OnlyApprovedMoves == Spec => []NothingMovesUnapproved
<1>1. Init => ApprovalsBacked
  BY CallsAreDraws DEF Init, NoCalls, ApprovalsBacked, Live
<1>2. LiquidityInv /\ ApprovalsBacked /\ [Next]_vars => ApprovalsBacked'
  BY StepShape, ApprovalsStep DEF LiquidityInv
<1>3. ApprovalsBacked => NothingMovesUnapproved
  BY DEF ApprovalsBacked, Approved, NothingMovesUnapproved
<1> QED
  BY <1>1, <1>2, <1>3, LiquidityInvHolds, PTL DEF Spec

\* A request that says EXECUTED was drawn for.  It was drawn for once, unless an
\* execution was started beside a running one that another desk waited for or
\* that a page had stopped waiting for (a reload, a refresh that dropped the
\* form, the proxy's timeout), an execution crashed, or a row that was not
\* pending was decided: a desk that waits for its own call starts no other.
THEOREM DrawnOnce == Spec => []OneRequestOneDraw
<1>1. Init => ExecutedWasSent /\ OneAtATime
  BY CallsAreDraws, NoneIsNoCall DEF Init, NoCalls, ExecutedWasSent, OneAtATime
<1>2. LiquidityInv /\ (ExecutedWasSent /\ OneAtATime) /\ [Next]_vars
         => (ExecutedWasSent /\ OneAtATime)'
  BY StepShape, ExecutedStep, OneAtATimeStep DEF LiquidityInv
<1>3. ExecutedWasSent /\ OneAtATime => OneRequestOneDraw
  <2> SUFFICES ASSUME ExecutedWasSent, OneAtATime, NEW q \in TopUps
               PROVE  /\ top_up[q].status = "EXECUTED" =>
                            /\ \E e \in Executors : /\ executor[e].request = q
                                                    /\ tx[e] # "none"
                            /\ timeouts = 0 => DrawsOf(q) # {}
                      /\ q \notin disturbed => Cardinality(DrawsOf(q)) <= 1
    BY DEF OneRequestOneDraw
  <2>1. ASSUME q \notin disturbed PROVE Cardinality(DrawsOf(q)) <= 1
    <3>1. \A e, f \in DrawsOf(q) : e = f
      BY <2>1 DEF OneAtATime, DrawsOf
    <3>2. CASE DrawsOf(q) = {}
      BY <3>2, FS_EmptySet
    <3>3. CASE DrawsOf(q) # {}
      <4>1. PICK e : DrawsOf(q) = {e}
        BY <3>1, <3>3
      <4>2. Cardinality({e}) = 1
        BY FS_Singleton
      <4> QED
        BY <4>1, <4>2
    <3> QED
      BY <3>2, <3>3
  <2> QED
    BY <2>1 DEF ExecutedWasSent, DrawsOf
<1> QED
  BY <1>1, <1>2, <1>3, LiquidityInvHolds, PTL DEF Spec

-----------------------------------------------------------------------------
(* The console. *)

Payload == [sub : Emails, roles : SUBSET DOMAIN ROLE_PERMISSIONS,
            iat : Nat, exp : Nat]
Keyring == Secrets \union {Absent}
Cookie == [payload : Payload, secret : Keyring]
MutationRequest == [pc : {"caller", "session", "forward"}, cookie : Cookie,
            route : Mutations, body : Bodies, arrived : Nat]
SignIn == [email : Emails, roles : SUBSET DOMAIN ROLE_PERMISSIONS, at : Nat,
           under : Keyring]

ConsoleTypes ==
    /\ now \in Nat
    /\ accounts \in AccountLists
    /\ secret \in Keyring
    /\ signing \subseteq [key : Keys, payload : Payload]
    /\ cookies \subseteq Cookie
    /\ requests \subseteq MutationRequest
    /\ verified \subseteq SignIn

\* A session that sign-in v gave, under the secret of that time.
Backs(v, payload, key) ==
    /\ v.email = payload.sub
    /\ v.roles = payload.roles
    /\ v.under = key
    /\ payload.exp = Seconds(v.at) + TTL

\* A deployment drops what is in flight, so only cookies outlive their secret.
SigningBacked ==
    \A s \in signing : \E v \in verified : Backs(v, s.payload, secret) /\ v.at <= now

CookiesBacked ==
    \A c \in cookies : \E v \in verified : Backs(v, c.payload, c.secret) /\ v.at <= now

RequestBacked(r) ==
    /\ r.cookie.secret = secret
    /\ Allowed(r.cookie, r.route)
    /\ \E v \in verified :
          /\ Backs(v, r.cookie.payload, secret)
          /\ v.at <= r.arrived /\ r.arrived < v.at + TTL * Second

ConsoleInv ==
    /\ ConsoleTypes
    /\ SigningBacked
    /\ CookiesBacked
    /\ \A r \in requests : RequestBacked(r)
    /\ ForwardedWithAuthority
----------------------------------------------------------------------------
(* Time and sessions. *)

LEMMA Settings ==
    MAX_FAILURES \in Nat \ {0} /\ WINDOW \in Nat \ {0} /\ TTL \in Nat \ {0}
    /\ Second \in Nat \ {0}
  BY SettingsArePositive

LEMMA SecondsType ==
    ASSUME NEW t \in Nat
    PROVE  /\ Seconds(t) \in Nat
           /\ Seconds(t) * Second <= t /\ t < Seconds(t) * Second + Second
  BY Settings DEF Seconds

\* What is in time by the second is in time by the millisecond.
LEMMA InTime ==
    ASSUME NEW t \in Nat, NEW at \in Nat, Seconds(at) + TTL > Seconds(t)
    PROVE  t < at + TTL * Second
<1> DEFINE a == Seconds(at)
           b == Seconds(t)
<1>1. a \in Nat /\ b \in Nat /\ a * Second <= at /\ t < b * Second + Second
  BY SecondsType
<1>2. b + 1 <= a + TTL
  BY <1>1, Settings
<1> HIDE DEF a, b
<1>3. (b + 1) * Second <= (a + TTL) * Second
  BY <1>1, <1>2, Settings
<1>4. (b + 1) * Second = b * Second + Second
      /\ (a + TTL) * Second = a * Second + TTL * Second
  BY <1>1, Settings
<1>5. b * Second \in Nat /\ a * Second \in Nat /\ TTL * Second \in Nat
  BY <1>1, Settings
<1> QED
  BY <1>1, <1>3, <1>4, <1>5, Settings
----------------------------------------------------------------------------
(* Steps that only add sign-ins, or none, and let time pass. *)

LEMMA ForwardedStays ==
    ASSUME ForwardedWithAuthority, forwarded' = forwarded, verified \subseteq verified'
    PROVE  ForwardedWithAuthority'
  BY DEF ForwardedWithAuthority

LEMMA RequestsStay ==
    ASSUME NEW r, RequestBacked(r), secret' = secret, verified \subseteq verified'
    PROVE  RequestBacked(r)'
  BY DEF RequestBacked, Backs, Allowed, Seconds

\* A cookie, old or new, stays backed while time goes on.
LEMMA BackedStays ==
    ASSUME ConsoleTypes, NEW v \in verified, NEW payload, NEW key,
           Backs(v, payload, key), v.at <= now, now' \in Nat, now <= now',
           verified \subseteq verified'
    PROVE  v \in verified' /\ Backs(v, payload, key)' /\ v.at <= now'
<1>1. v.at \in Nat /\ now \in Nat
  BY DEF ConsoleTypes, SignIn
<1> QED
  BY <1>1 DEF Backs, Seconds

LEMMA Keeps ==
    ASSUME ConsoleInv, ConsoleTypes', secret' = secret, now <= now',
           forwarded' = forwarded, verified \subseteq verified',
           \A s \in signing' : s \in signing \/ \E v \in verified' :
               Backs(v, s.payload, secret) /\ v.at <= now',
           \A c \in cookies' : c \in cookies \/ \E v \in verified' :
               Backs(v, c.payload, c.secret) /\ v.at <= now',
           \A r \in requests' : r \in requests \/ RequestBacked(r)'
    PROVE  ConsoleInv'
<1>1. ConsoleTypes /\ now' \in Nat
  BY DEF ConsoleInv, ConsoleTypes
<1>2. SigningBacked'
  <2> SUFFICES ASSUME NEW s \in signing'
               PROVE  \E v \in verified' : Backs(v, s.payload, secret) /\ v.at <= now'
    BY DEF SigningBacked, Backs
  <2> SUFFICES ASSUME s \in signing
               PROVE  \E v \in verified' : Backs(v, s.payload, secret) /\ v.at <= now'
    OBVIOUS
  <2>1. PICK v \in verified : Backs(v, s.payload, secret) /\ v.at <= now
    BY DEF ConsoleInv, SigningBacked
  <2>2. v.at \in Nat /\ now \in Nat
    BY <1>1 DEF ConsoleTypes, SignIn
  <2>3. v \in verified' /\ v.at <= now'
    BY <1>1, <2>1, <2>2
  <2> QED
    BY <2>1, <2>3
<1>3. CookiesBacked'
  <2> SUFFICES ASSUME NEW c \in cookies'
               PROVE  \E v \in verified' : Backs(v, c.payload, c.secret) /\ v.at <= now'
    BY DEF CookiesBacked, Backs
  <2> SUFFICES ASSUME c \in cookies
               PROVE  \E v \in verified' : Backs(v, c.payload, c.secret) /\ v.at <= now'
    OBVIOUS
  <2>1. PICK v \in verified : Backs(v, c.payload, c.secret) /\ v.at <= now
    BY DEF ConsoleInv, CookiesBacked
  <2>2. v.at \in Nat /\ now \in Nat
    BY <1>1 DEF ConsoleTypes, SignIn
  <2>3. v \in verified' /\ v.at <= now'
    BY <1>1, <2>1, <2>2
  <2> QED
    BY <2>1, <2>3
<1>4. \A r \in requests' : RequestBacked(r)'
  <2>1. \A r \in requests : RequestBacked(r)
    BY DEF ConsoleInv
  <2> QED
    BY <2>1, RequestsStay
<1>5. ForwardedWithAuthority'
  BY ForwardedStays DEF ConsoleInv
<1> QED
  BY <1>2, <1>3, <1>4, <1>5 DEF ConsoleInv

\* Steps that no session, request or sign-in takes part in, and signing out.
LEMMA QuietKeeps ==
    ASSUME ConsoleInv, UNCHANGED <<accounts, secret, signing, requests, forwarded, verified>>,
           cookies' \subseteq cookies, now' = now \/ now' = now + 1
    PROVE  ConsoleInv'
<1>1. ConsoleTypes
  BY DEF ConsoleInv
<1>2. ConsoleTypes' /\ now <= now'
  BY <1>1 DEF ConsoleTypes
<1> QED
  BY <1>2, Keeps
----------------------------------------------------------------------------
(* Signing in. *)

LEMMA AcceptedKeeps ==
    ASSUME ConsoleInv, NEW key \in Keys, login_accepted(key)
    PROVE  ConsoleInv'
<1> DEFINE payload == buildSessionPayload(key[1])
           s == [key |-> key, payload |-> payload]
           v == [email |-> key[1], roles |-> accounts[key[1]], at |-> now,
                 under |-> secret]
<1>1. /\ accounts[key[1]] # Absent
      /\ signing' = signing \union {s} /\ verified' = verified \union {v}
      /\ now' = now /\ accounts' = accounts /\ secret' = secret
      /\ requests' = requests /\ cookies' = cookies /\ forwarded' = forwarded
  BY DEF login_accepted
<1>2. ConsoleTypes /\ now \in Nat /\ secret \in Keyring
  BY DEF ConsoleInv, ConsoleTypes
<1>3. key[1] \in Emails /\ accounts[key[1]] \in SUBSET DOMAIN ROLE_PERMISSIONS
  <2>1. key[1] \in Emails
    BY DEF Keys
  <2>2. accounts \in [Emails -> (SUBSET DOMAIN ROLE_PERMISSIONS) \union {Absent}]
    BY <1>2, RolesAreKnown DEF ConsoleTypes
  <2> QED
    BY <1>1, <2>1, <2>2
<1>4. Seconds(now) \in Nat /\ Seconds(now) + TTL \in Nat
  BY <1>2, SecondsType, Settings
<1>5. /\ payload \in Payload /\ payload.sub = key[1]
      /\ payload.roles = accounts[key[1]] /\ payload.exp = Seconds(now) + TTL
  BY <1>3, <1>4 DEF buildSessionPayload, Payload
<1>6. v \in SignIn /\ v.email = key[1] /\ v.roles = accounts[key[1]]
      /\ v.at = now /\ v.under = secret
  BY <1>2, <1>3 DEF SignIn
<1> HIDE DEF payload, v
<1>7. s \in [key : Keys, payload : Payload] /\ s.payload = payload
  BY <1>5
<1> HIDE DEF s
<1>8. ConsoleTypes'
  BY <1>1, <1>2, <1>6, <1>7 DEF ConsoleTypes
<1>9. v \in verified' /\ Backs(v, s.payload, secret) /\ v.at <= now'
  BY <1>1, <1>2, <1>5, <1>6, <1>7 DEF Backs
<1>10. \A q \in signing' : q \in signing \/ \E w \in verified' :
           Backs(w, q.payload, secret) /\ w.at <= now'
  BY <1>1, <1>9
<1> QED
  BY <1>1, <1>2, <1>8, <1>10, Keeps

LEMMA SignedKeeps ==
    ASSUME ConsoleInv, NEW s \in signing, login_signed(s)
    PROVE  ConsoleInv'
<1> DEFINE c == [payload |-> s.payload, secret |-> secret]
<1>1. /\ signing' = signing \ {s} /\ cookies' = cookies \union {c}
      /\ now' = now /\ accounts' = accounts /\ secret' = secret
      /\ requests' = requests /\ forwarded' = forwarded /\ verified' = verified
  BY DEF login_signed
<1>2. ConsoleTypes /\ now \in Nat /\ secret \in Keyring
      /\ s \in [key : Keys, payload : Payload]
  BY DEF ConsoleInv, ConsoleTypes
<1>3. c \in Cookie /\ c.payload = s.payload /\ c.secret = secret
  BY <1>2 DEF Cookie
<1> HIDE DEF c
<1>4. ConsoleTypes'
  BY <1>1, <1>2, <1>3 DEF ConsoleTypes
<1>5. PICK v \in verified : Backs(v, s.payload, secret) /\ v.at <= now
  BY DEF ConsoleInv, SigningBacked
<1>6. \A d \in cookies' : d \in cookies \/ \E w \in verified' :
          Backs(w, d.payload, d.secret) /\ w.at <= now'
  BY <1>1, <1>3, <1>5
<1> QED
  BY <1>1, <1>2, <1>4, <1>6, Keeps
----------------------------------------------------------------------------
(* A mutation. *)

\* The gate lets in a session that is signed, live and allowed.
LEMMA GateKeeps ==
    ASSUME ConsoleInv, NEW c \in cookies, NEW route \in Mutations,
           NEW body \in Bodies, gate(c, route, body)
    PROVE  ConsoleInv'
<1> DEFINE r == [pc |-> "caller", cookie |-> c, route |-> route, body |-> body,
                 arrived |-> now]
<1>1. /\ verifySession(c) /\ Allowed(c, route)
      /\ requests' = requests \union {r}
      /\ now' = now /\ accounts' = accounts /\ secret' = secret
      /\ signing' = signing /\ cookies' = cookies
      /\ forwarded' = forwarded /\ verified' = verified
  BY DEF gate, history
<1>2. ConsoleTypes /\ now \in Nat /\ c \in Cookie
  BY DEF ConsoleInv, ConsoleTypes
<1>3. r \in MutationRequest /\ r.cookie = c /\ r.route = route /\ r.arrived = now
  BY <1>2 DEF MutationRequest
<1> HIDE DEF r
<1>4. ConsoleTypes'
  BY <1>1, <1>2, <1>3 DEF ConsoleTypes
<1>5. PICK v \in verified : Backs(v, c.payload, c.secret) /\ v.at <= now
  BY DEF ConsoleInv, CookiesBacked
<1>6. c.secret = secret /\ now < v.at + TTL * Second
  <2>1. v.at \in Nat
    BY <1>2 DEF ConsoleTypes, SignIn
  <2>2. c.secret = secret /\ Seconds(v.at) + TTL > Seconds(now)
    BY <1>1, <1>5 DEF verifySession, Backs
  <2> QED
    BY <1>2, <2>1, <2>2, InTime
<1>7. RequestBacked(r)
  BY <1>1, <1>3, <1>5, <1>6 DEF RequestBacked
<1>8. \A q \in requests' : q \in requests \/ RequestBacked(q)
  BY <1>1, <1>7
<1>9. \A q \in requests' : q \in requests \/ RequestBacked(q)'
  BY <1>1, <1>8, RequestsStay
<1> QED
  BY <1>1, <1>2, <1>4, <1>9, Keeps

\* The handler's own checks pass a request on as it is, or drop it.
LEMMA StepKeeps ==
    ASSUME ConsoleInv, NEW r \in requests, NEW ok \in BOOLEAN,
           NEW pc \in {"session", "forward"}, Step(r, ok, pc)
    PROVE  ConsoleInv'
<1> DEFINE n == [r EXCEPT !.pc = pc]
<1>1. /\ requests' \subseteq requests \union {n}
      /\ now' = now /\ accounts' = accounts /\ secret' = secret
      /\ signing' = signing /\ cookies' = cookies
      /\ forwarded' = forwarded /\ verified' = verified
  BY DEF Step, history
<1>2. ConsoleTypes /\ now \in Nat /\ r \in MutationRequest /\ RequestBacked(r)
  BY DEF ConsoleInv, ConsoleTypes
<1>3. n \in MutationRequest /\ n.cookie = r.cookie /\ n.route = r.route
      /\ n.arrived = r.arrived
  BY <1>2 DEF MutationRequest
<1> HIDE DEF n
<1>4. ConsoleTypes'
  BY <1>1, <1>2, <1>3 DEF ConsoleTypes
<1>5. RequestBacked(n)
  BY <1>2, <1>3 DEF RequestBacked
<1>6. \A q \in requests' : q \in requests \/ RequestBacked(q)
  BY <1>1, <1>5
<1>7. \A q \in requests' : q \in requests \/ RequestBacked(q)'
  BY <1>1, <1>6, RequestsStay
<1> QED
  BY <1>1, <1>2, <1>4, <1>7, Keeps

\* What leaves for the backend has the sign-in's authority and the name of the
\* operator in its audit fields.
LEMMA ForwardKeeps ==
    ASSUME ConsoleInv, NEW r \in requests, forward(r)
    PROVE  ConsoleInv'
<1> DEFINE caller == r.cookie.payload.sub
           policy == policyForMutation[r.route]
           body == withOperatorAttribution(r.body, policy, caller)
           f == [route |-> r.route, operator |-> caller, arrived |-> r.arrived,
                 under |-> secret, body |-> body]
<1>1. /\ requests' = requests \ {r}
      /\ forwarded' = forwarded \union {f}
      /\ now' = now /\ accounts' = accounts /\ secret' = secret
      /\ signing' = signing /\ cookies' = cookies /\ verified' = verified
  BY DEF forward
<1>2. ConsoleTypes /\ RequestBacked(r) /\ ForwardedWithAuthority
  BY DEF ConsoleInv
<1>3. f.route = r.route /\ f.operator = caller /\ f.arrived = r.arrived
      /\ f.under = secret /\ f.body = body
  OBVIOUS
<1>4. policy.auditFields # {} =>
          \A field \in AUDIT_FIELDS :
              body[field] = IF field \in policy.auditFields THEN caller ELSE Absent
  BY DEF withOperatorAttribution
<1>5. PICK v \in verified :
          /\ Backs(v, r.cookie.payload, secret)
          /\ v.at <= r.arrived /\ r.arrived < v.at + TTL * Second
  BY <1>2 DEF RequestBacked
<1>6. v.email = caller /\ v.under = secret /\ v.roles = r.cookie.payload.roles
  BY <1>5 DEF Backs
<1>7. \E q \in v.roles : policy.permission \in ROLE_PERMISSIONS[q]
  BY <1>2, <1>6 DEF RequestBacked, Allowed, may
<1>8. policyForMutation[f.route] = policy
  BY <1>3
<1> HIDE DEF f, body, caller, policy
<1>9. ForwardedWithAuthority'
  <2> SUFFICES ASSUME NEW g \in forwarded'
               PROVE  LET p == policyForMutation[g.route]
                      IN  \E w \in verified :
                            /\ w.email = g.operator
                            /\ w.under = g.under
                            /\ w.at <= g.arrived /\ g.arrived < w.at + TTL * Second
                            /\ \E q \in w.roles : p.permission \in ROLE_PERMISSIONS[q]
                            /\ p.auditFields # {} =>
                                  \A field \in AUDIT_FIELDS :
                                      g.body[field] = IF field \in p.auditFields
                                                      THEN g.operator ELSE Absent
    BY <1>1 DEF ForwardedWithAuthority
  <2>1. CASE g \in forwarded
    BY <1>2, <2>1 DEF ForwardedWithAuthority
  <2>2. CASE g = f
    BY <1>3, <1>4, <1>5, <1>6, <1>7, <1>8, <2>2
  <2> QED
    BY <1>1, <2>1, <2>2
<1>10. ConsoleTypes'
  BY <1>1, <1>2 DEF ConsoleTypes
<1>11. SigningBacked' /\ CookiesBacked'
  BY <1>1 DEF ConsoleInv, SigningBacked, CookiesBacked, Backs
<1>12. \A q \in requests' : RequestBacked(q)'
  <2>1. \A q \in requests' : RequestBacked(q)
    BY <1>1 DEF ConsoleInv
  <2> QED
    BY <1>1, <2>1, RequestsStay
<1> QED
  BY <1>9, <1>10, <1>11, <1>12 DEF ConsoleInv
----------------------------------------------------------------------------
(* Deployments, and the invariant. *)

\* Sessions are on their own after a deployment; nothing else in flight is left.
LEMMA DeployKeeps ==
    ASSUME ConsoleInv, NEW list \in AccountLists, NEW key \in Keyring, Deploy(list, key)
    PROVE  ConsoleInv'
<1>1. /\ accounts' = list /\ secret' = key /\ signing' = {} /\ requests' = {}
      /\ now' = now /\ cookies' = cookies /\ forwarded' = forwarded
      /\ verified' = verified
  BY DEF Deploy
<1>2. ConsoleTypes'
  BY <1>1 DEF ConsoleInv, ConsoleTypes
<1>3. SigningBacked' /\ CookiesBacked'
  BY <1>1 DEF ConsoleInv, SigningBacked, CookiesBacked, Backs
<1>4. ForwardedWithAuthority'
  BY <1>1, ForwardedStays DEF ConsoleInv
<1> QED
  BY <1>1, <1>2, <1>3, <1>4 DEF ConsoleInv

LEMMA ConsoleInvInit ==
    ASSUME ConsoleInit PROVE ConsoleInv
<1>1. ConsoleTypes
  BY DEF ConsoleInit, ConsoleTypes, Keyring
<1>2. SigningBacked /\ CookiesBacked
  BY DEF ConsoleInit, SigningBacked, CookiesBacked
<1>3. ForwardedWithAuthority
  BY DEF ConsoleInit, ForwardedWithAuthority
<1> QED
  BY <1>1, <1>2, <1>3 DEF ConsoleInit, ConsoleInv

LEMMA ConsoleInvStep ==
    ASSUME ConsoleInv, [ConsoleNext]_consoleVars PROVE ConsoleInv'
<1>1. ASSUME NEW k \in Keys, login_refused(k) \/ login_failed(k)
      PROVE  ConsoleInv'
  BY <1>1, QuietKeeps DEF login_refused, login_failed, history
<1>2. ASSUME NEW k \in Keys, login_accepted(k) PROVE ConsoleInv'
  BY <1>2, AcceptedKeeps
<1>3. ASSUME NEW s \in signing, login_signed(s) PROVE ConsoleInv'
  BY <1>3, SignedKeeps
<1>4. ASSUME NEW c \in cookies, logout(c) PROVE ConsoleInv'
  BY <1>4, QuietKeeps DEF logout, process, history
<1>5. ASSUME NEW c \in cookies, NEW route \in Mutations, NEW body \in Bodies,
             gate(c, route, body)
      PROVE  ConsoleInv'
  BY <1>5, GateKeeps
<1>6. ASSUME NEW r \in requests, authorisedCaller(r) PROVE ConsoleInv'
  <2>1. PICK ok \in BOOLEAN : Step(r, ok, "session")
    BY <1>6 DEF authorisedCaller, verifySession
  <2> QED
    BY <2>1, StepKeeps
<1>7. ASSUME NEW r \in requests, authorise(r) PROVE ConsoleInv'
  <2>1. PICK ok \in BOOLEAN : Step(r, ok, "forward")
    BY <1>7 DEF authorise, verifySession
  <2> QED
    BY <2>1, StepKeeps
<1>8. ASSUME NEW r \in requests, forward(r) PROVE ConsoleInv'
  BY <1>8, ForwardKeeps
<1>9. CASE Tick
  BY <1>9, QuietKeeps DEF Tick, process, history
<1>10. ASSUME NEW list \in AccountLists, NEW key \in Secrets \union {Absent},
              Deploy(list, key)
       PROVE  ConsoleInv'
  BY <1>10, DeployKeeps DEF Keyring
<1>11. CASE UNCHANGED consoleVars
  BY <1>11, QuietKeeps DEF consoleVars, process, history
<1> QED
  BY <1>1, <1>2, <1>3, <1>4, <1>5, <1>6, <1>7, <1>8, <1>9, <1>10, <1>11 DEF ConsoleNext

\* Nothing reaches the backend on anyone's behalf but an operator who signed in
\* with the roles it takes, under the secret in force and within a session's
\* lifetime, and the audit fields name that operator: for any accounts, requests
\* held up at every await, sessions expiring under them and secrets rotated.
THEOREM AuthorityIsTraced == ConsoleSpec => []ForwardedWithAuthority
<1>1. ConsoleInit => ConsoleInv
  BY ConsoleInvInit
<1>2. ConsoleInv /\ [ConsoleNext]_consoleVars => ConsoleInv'
  BY ConsoleInvStep
<1>3. ConsoleInv => ForwardedWithAuthority
  BY DEF ConsoleInv
<1> QED
  BY <1>1, <1>2, <1>3, PTL DEF ConsoleSpec

-----------------------------------------------------------------------------
(* The throttle of the login. *)

WindowsFine(w) ==
    \A i \in 1..Len(w) :
        Cardinality({j \in 1..i : w[j] > w[i] - WINDOW}) <= MAX_FAILURES

\* What the throttle holds of a key, f, is the end of what happened to it, w:
\* the failures before are a window old, and no window had more than it may.
KeyFine(w, f, t) ==
    /\ w \in Seq(Nat) /\ f \in Seq(Nat)
    /\ \A i \in 1..Len(w) : w[i] <= t
    /\ \A i, j \in 1..Len(w) : i <= j => w[i] <= w[j]
    /\ Len(f) <= MAX_FAILURES
    /\ \E d \in 0..Len(w) :
          /\ Len(f) = Len(w) - d
          /\ \A i \in 1..Len(f) : f[i] = w[i + d]
          /\ \A i \in 1..d : w[i] <= t - WINDOW
    /\ WindowsFine(w)

ThrottleInv ==
    /\ now \in Nat
    /\ DOMAIN wrong = Keys /\ DOMAIN failures = Keys
    /\ \A k \in Keys : KeyFine(wrong[k], failures[k], now)

LEMMA KeyForgotten ==
    ASSUME NEW t PROVE KeyFine(<< >>, << >>, t)
<1>1. MAX_FAILURES \in Nat
  BY SettingsArePositive
<1>2. << >> \in Seq(Nat) /\ Len(<< >>) = 0
  OBVIOUS
<1>3. 0 \in 0..Len(<< >>)
  BY <1>2
<1>4. WindowsFine(<< >>)
  BY <1>2 DEF WindowsFine
<1> QED
  BY <1>1, <1>2, <1>3, <1>4 DEF KeyFine

\* What is recent at an instant is the end of what the throttle holds.
LEMMA RecentIsSuffix ==
    ASSUME NEW w, NEW f, NEW t \in Nat, KeyFine(w, f, t), NEW at \in Int
    PROVE  LET g == Without(f, 0..(at - WINDOW))
           IN  /\ g \in Seq(Nat)
               /\ \E m \in 0..Len(f) :
                     /\ Len(g) = Len(f) - m
                     /\ \A i \in 1..m : f[i] <= at - WINDOW
                     /\ \A i \in (m + 1)..Len(f) : f[i] > at - WINDOW
                     /\ \A i \in 1..(Len(f) - m) : g[i] = f[i + m]
<1> DEFINE old == 0..(at - WINDOW)
<1>1. WINDOW \in Nat /\ at - WINDOW \in Int
  BY SettingsArePositive
<1>2. f \in Seq(Nat) /\ Len(f) \in Nat /\ \A i \in 1..Len(f) : f[i] \in Nat
  <2>1. f \in Seq(Nat)
    BY DEF KeyFine
  <2> QED
    BY <2>1
<1>3. \A x \in Nat : x \in old <=> x <= at - WINDOW
  BY <1>1
<1>4. PICK d \in 0..Len(w) : Len(f) = Len(w) - d /\ \A i \in 1..Len(f) : f[i] = w[i + d]
  BY DEF KeyFine
<1>5. \A i, j \in 1..Len(f) : i < j => f[i] <= f[j]
  <2> SUFFICES ASSUME NEW i \in 1..Len(f), NEW j \in 1..Len(f), i < j
               PROVE  f[i] <= f[j]
    OBVIOUS
  <2>1. Len(w) \in Nat /\ \A a, b \in 1..Len(w) : a <= b => w[a] <= w[b]
    BY DEF KeyFine
  <2>2. i + d \in 1..Len(w) /\ j + d \in 1..Len(w) /\ i + d <= j + d
    BY <1>2, <1>4, <2>1
  <2> QED
    BY <1>4, <2>1, <2>2
<1> HIDE DEF old
<1>6. \A i, j \in 1..Len(f) : i < j /\ f[j] \in old => f[i] \in old
  <2> SUFFICES ASSUME NEW i \in 1..Len(f), NEW j \in 1..Len(f), i < j, f[j] \in old
               PROVE  f[i] \in old
    OBVIOUS
  <2>1. f[i] \in Nat /\ f[j] \in Nat /\ f[i] <= f[j] /\ f[j] <= at - WINDOW
    BY <1>2, <1>3, <1>5
  <2> QED
    BY <1>1, <1>3, <2>1
<1>7. PICK m \in 0..Len(f) :
          /\ Len(Without(f, old)) = Len(f) - m
          /\ \A i \in 1..m : f[i] \in old
          /\ \A i \in (m + 1)..Len(f) : f[i] \notin old
          /\ \A i \in 1..(Len(f) - m) : Without(f, old)[i] = f[i + m]
  BY <1>2, <1>6, WithoutIsSuffix
<1>8. Without(f, old) \in Seq(Nat)
  BY <1>2, WithoutKeeps
<1>9. \A i \in 1..m : f[i] <= at - WINDOW
  BY <1>2, <1>3, <1>7
<1>10. \A i \in (m + 1)..Len(f) : f[i] > at - WINDOW
  <2> SUFFICES ASSUME NEW i \in (m + 1)..Len(f) PROVE f[i] > at - WINDOW
    OBVIOUS
  <2>1. i \in 1..Len(f)
    BY <1>2
  <2>2. f[i] \in Nat /\ f[i] \notin old
    BY <1>2, <1>7, <2>1
  <2> QED
    BY <1>1, <1>3, <2>2
<1> DEFINE g == Without(f, old)
<1>11. g = Without(f, 0..(at - WINDOW))
  BY DEF old
<1>12. /\ Len(g) = Len(f) - m
       /\ \A i \in 1..(Len(f) - m) : g[i] = f[i + m]
       /\ g \in Seq(Nat)
  BY <1>7, <1>8
<1> HIDE DEF g
<1>13. \E n \in 0..Len(f) :
          /\ Len(g) = Len(f) - n
          /\ \A i \in 1..n : f[i] <= at - WINDOW
          /\ \A i \in (n + 1)..Len(f) : f[i] > at - WINDOW
          /\ \A i \in 1..(Len(f) - n) : g[i] = f[i + n]
  BY <1>9, <1>10, <1>12
<1> QED
  BY <1>11, <1>12, <1>13

\* Looking prunes the list, and as time passes what was dropped stays old.
LEMMA KeyPruned ==
    ASSUME NEW w, NEW f, NEW t \in Nat, KeyFine(w, f, t)
    PROVE  KeyFine(w, Without(f, 0..(t - WINDOW)), t)
<1> DEFINE g == Without(f, 0..(t - WINDOW))
<1>1. t \in Int /\ WINDOW \in Nat /\ MAX_FAILURES \in Nat
  BY SettingsArePositive
<1>2. PICK m \in 0..Len(f) :
          /\ Len(g) = Len(f) - m
          /\ \A i \in 1..m : f[i] <= t - WINDOW
          /\ \A i \in 1..(Len(f) - m) : g[i] = f[i + m]
  BY <1>1, RecentIsSuffix
<1>3. g \in Seq(Nat)
  BY <1>1, RecentIsSuffix
<1>4. w \in Seq(Nat) /\ f \in Seq(Nat) /\ Len(f) <= MAX_FAILURES
  BY DEF KeyFine
<1>5. Len(w) \in Nat /\ Len(f) \in Nat
  BY <1>4
<1>6. PICK d \in 0..Len(w) :
          /\ Len(f) = Len(w) - d
          /\ \A i \in 1..Len(f) : f[i] = w[i + d]
          /\ \A i \in 1..d : w[i] <= t - WINDOW
  BY DEF KeyFine
<1> HIDE DEF g
<1> DEFINE e == d + m
<1>7. e \in 0..Len(w) /\ Len(g) = Len(w) - e /\ Len(g) <= MAX_FAILURES
  BY <1>1, <1>2, <1>4, <1>5, <1>6
<1>8. \A i \in 1..Len(g) : g[i] = w[i + e]
  <2> SUFFICES ASSUME NEW i \in 1..Len(g) PROVE g[i] = w[i + e]
    OBVIOUS
  <2>1. i \in 1..(Len(f) - m) /\ i + m \in 1..Len(f) /\ (i + m) + d = i + e
    BY <1>2, <1>5, <1>6
  <2> QED
    BY <1>2, <1>6, <2>1
<1>9. \A i \in 1..e : w[i] <= t - WINDOW
  <2> SUFFICES ASSUME NEW i \in 1..e PROVE w[i] <= t - WINDOW
    OBVIOUS
  <2>1. CASE i <= d
    BY <1>5, <1>6, <2>1
  <2>2. CASE i > d
    <3>1. i - d \in 1..m /\ i - d \in 1..Len(f) /\ (i - d) + d = i
      BY <1>2, <1>5, <1>6, <2>2
    <3> QED
      BY <1>2, <1>6, <3>1
  <2> QED
    BY <1>2, <1>5, <1>6, <2>1, <2>2
<1> HIDE DEF e
<1>10. KeyFine(w, g, t)
  BY <1>3, <1>7, <1>8, <1>9 DEF KeyFine
<1> QED
  BY <1>10 DEF g

LEMMA KeyAges ==
    ASSUME NEW w, NEW f, NEW t \in Nat, KeyFine(w, f, t), NEW u \in Nat, t <= u
    PROVE  KeyFine(w, f, u)
<1>1. WINDOW \in Nat
  BY SettingsArePositive
<1>2. w \in Seq(Nat)
  BY DEF KeyFine
<1>3. Len(w) \in Nat /\ \A i \in 1..Len(w) : w[i] \in Nat
  BY <1>2
<1>4. \A i \in 1..Len(w) : w[i] <= u
  BY <1>3 DEF KeyFine
<1>5. \A d \in 0..Len(w) : (\A i \in 1..d : w[i] <= t - WINDOW)
                               => \A i \in 1..d : w[i] <= u - WINDOW
  BY <1>1, <1>3
<1>6. /\ f \in Seq(Nat) /\ Len(f) <= MAX_FAILURES
      /\ \A i, j \in 1..Len(w) : i <= j => w[i] <= w[j]
      /\ WindowsFine(w)
  BY DEF KeyFine
<1>7. PICK d \in 0..Len(w) :
          /\ Len(f) = Len(w) - d
          /\ \A i \in 1..Len(f) : f[i] = w[i + d]
          /\ \A i \in 1..d : w[i] <= t - WINDOW
  BY DEF KeyFine
<1>8. \A i \in 1..d : w[i] <= u - WINDOW
  BY <1>5, <1>7
<1> QED
  BY <1>2, <1>4, <1>6, <1>7, <1>8 DEF KeyFine

\* One more failure while the key is open: the window that ends with it holds
\* what is recent, fewer than the limit, and itself.
LEMMA KeyFails ==
    ASSUME NEW w, NEW f, NEW t \in Nat, KeyFine(w, f, t),
           Len(Without(f, 0..(t - WINDOW))) < MAX_FAILURES
    PROVE  KeyFine(Append(w, t), Append(Without(f, 0..(t - WINDOW)), t), t)
<1> DEFINE g == Without(f, 0..(t - WINDOW))
           v == Append(w, t)
           h == Append(g, t)
           n == Len(w)
<1>1. t \in Int /\ WINDOW \in Nat \ {0} /\ MAX_FAILURES \in Nat
  BY SettingsArePositive
<1>2. KeyFine(w, g, t)
  BY KeyPruned
<1>3. PICK m \in 0..Len(f) :
          /\ Len(g) = Len(f) - m
          /\ \A i \in (m + 1)..Len(f) : f[i] > t - WINDOW
          /\ \A i \in 1..(Len(f) - m) : g[i] = f[i + m]
  BY <1>1, RecentIsSuffix
<1>4. f \in Seq(Nat)
  BY DEF KeyFine
<1>5. Len(g) < MAX_FAILURES
  OBVIOUS
<1> HIDE DEF g
<1>6. w \in Seq(Nat) /\ g \in Seq(Nat)
  BY <1>2 DEF KeyFine
<1>7. Len(w) \in Nat /\ Len(g) \in Nat /\ Len(f) \in Nat
  BY <1>4, <1>6
<1>8. \A i \in 1..Len(g) : g[i] > t - WINDOW
  <2> SUFFICES ASSUME NEW i \in 1..Len(g) PROVE g[i] > t - WINDOW
    OBVIOUS
  <2>1. i \in 1..(Len(f) - m) /\ i + m \in (m + 1)..Len(f)
    BY <1>3, <1>7
  <2> QED
    BY <1>3, <2>1
<1>9. PICK e \in 0..Len(w) :
          /\ Len(g) = Len(w) - e
          /\ \A i \in 1..Len(g) : g[i] = w[i + e]
          /\ \A i \in 1..e : w[i] <= t - WINDOW
  BY <1>2 DEF KeyFine
<1>10. /\ v \in Seq(Nat) /\ Len(v) = n + 1 /\ v[n + 1] = t
       /\ \A i \in 1..n : v[i] = w[i] /\ v[i] \in Nat
  BY <1>6
<1>11. /\ h \in Seq(Nat) /\ Len(h) = Len(g) + 1 /\ h[Len(g) + 1] = t
       /\ \A i \in 1..Len(g) : h[i] = g[i]
  BY <1>6
<1>12. /\ \A i \in 1..Len(w) : w[i] <= t
       /\ \A i, j \in 1..Len(w) : i <= j => w[i] <= w[j]
       /\ WindowsFine(w)
  BY <1>2 DEF KeyFine
<1> HIDE DEF v, h
<1>13. \A i \in 1..Len(v) : v[i] <= t
  <2>1. \A i \in 1..Len(v) : i = n + 1 \/ i \in 1..n
    BY <1>7, <1>10
  <2>2. \A i \in 1..n : v[i] <= t
    BY <1>10, <1>12
  <2> QED
    BY <1>10, <2>1, <2>2
<1>14. \A i, j \in 1..Len(v) : i <= j => v[i] <= v[j]
  <2> SUFFICES ASSUME NEW i \in 1..(n + 1), NEW j \in 1..(n + 1), i <= j
               PROVE  v[i] <= v[j]
    BY <1>10
  <2>1. CASE j = n + 1
    BY <1>10, <1>13, <2>1
  <2>2. CASE j # n + 1
    <3>1. i \in 1..n /\ j \in 1..n
      BY <1>7, <2>2
    <3> QED
      BY <1>10, <1>12, <3>1
  <2> QED
    BY <2>1, <2>2
<1>15. Len(h) <= MAX_FAILURES
  BY <1>1, <1>5, <1>7, <1>11
<1>16. e \in 0..Len(v) /\ Len(h) = Len(v) - e
  BY <1>7, <1>9, <1>10, <1>11
<1>17. \A i \in 1..Len(h) : h[i] = v[i + e]
  <2> SUFFICES ASSUME NEW i \in 1..(Len(g) + 1) PROVE h[i] = v[i + e]
    BY <1>11
  <2>1. CASE i = Len(g) + 1
    <3>1. i + e = n + 1
      BY <1>7, <1>9, <2>1
    <3> QED
      BY <1>10, <1>11, <2>1, <3>1
  <2>2. CASE i # Len(g) + 1
    <3>1. i \in 1..Len(g) /\ i + e \in 1..n
      BY <1>7, <1>9, <2>2
    <3> QED
      BY <1>9, <1>10, <1>11, <3>1
  <2> QED
    BY <2>1, <2>2
<1>18. \A i \in 1..e : v[i] <= t - WINDOW
  <2> SUFFICES ASSUME NEW i \in 1..e PROVE v[i] <= t - WINDOW
    OBVIOUS
  <2>1. i \in 1..n
    BY <1>7, <1>9
  <2> QED
    BY <1>9, <1>10, <2>1
<1>19. WindowsFine(v)
  <2> SUFFICES ASSUME NEW i \in 1..(n + 1)
               PROVE  Cardinality({j \in 1..i : v[j] > v[i] - WINDOW}) <= MAX_FAILURES
    BY <1>10 DEF WindowsFine
  <2>1. CASE i = n + 1
    <3>1. \A k \in (e + 1)..(n + 1) : v[k] > t - WINDOW
      <4> SUFFICES ASSUME NEW k \in (e + 1)..(n + 1) PROVE v[k] > t - WINDOW
        OBVIOUS
      <4>1. CASE k = n + 1
        BY <1>1, <1>10, <4>1
      <4>2. CASE k # n + 1
        <5>1. n \in Nat /\ e \in Nat /\ Len(g) = n - e
          BY <1>7, <1>9
        <5>2. k \in Int /\ e + 1 <= k /\ k <= n + 1 /\ k # n + 1
          BY <4>2, <5>1
        <5>3. k - e \in 1..Len(g) /\ (k - e) + e = k /\ k \in 1..n
          BY <5>1, <5>2
        <5> QED
          BY <1>8, <1>9, <1>10, <5>3
      <4> QED
        BY <4>1, <4>2
    <3>2. \A k \in 1..(n + 1) : v[k] \in Nat
      BY <1>7, <1>10
    <3>3. n + 1 \in Nat /\ e \in 0..(n + 1) /\ t - WINDOW \in Int
      BY <1>1, <1>7
    <3> DEFINE J == {j \in 1..(n + 1) : v[j] > t - WINDOW}
               N == n + 1
               lo == t - WINDOW
    <3>4. \A j : j \in J <=> j \in 1..N /\ v[j] > lo
      OBVIOUS
    <3>5. {j \in 1..i : v[j] > v[i] - WINDOW} = J
      BY <1>10, <2>1
    <3> HIDE DEF J
    <3>6. J = (e + 1)..N
      <4>1. \A j \in J : j \in (e + 1)..N
        <5> SUFFICES ASSUME NEW j \in J PROVE j \in (e + 1)..N
          OBVIOUS
        <5>1. j \in 1..N /\ v[j] > lo /\ v[j] \in Nat
          BY <3>2, <3>4
        <5>2. ~(j <= e)
          <6>1. j <= e => j \in 1..e /\ v[j] <= lo
            BY <1>18, <3>3, <5>1
          <6> QED
            BY <3>3, <5>1, <6>1
        <5> QED
          BY <3>3, <5>1, <5>2
      <4>2. \A j \in (e + 1)..N : j \in J
        BY <3>1, <3>3, <3>4
      <4> QED
        BY <4>1, <4>2
    <3>7. N - e = Len(h)
      BY <1>10, <1>16
    <3>9. N \in Nat /\ e \in 0..N
      BY <3>3
    <3> HIDE DEF N, lo
    <3>8. Cardinality((e + 1)..N) = IF e + 1 > N THEN 0 ELSE N - (e + 1) + 1
      BY <3>9, FS_Interval
    <3>10. Cardinality(J) = N - e
      BY <3>6, <3>8, <3>9
    <3> QED
      BY <1>15, <3>5, <3>7, <3>10
  <2>2. CASE i # n + 1
    <3>1. i \in 1..n
      BY <1>7, <2>2
    <3>2. \A j \in 1..i : v[j] = w[j]
      BY <1>7, <1>10, <3>1
    <3>3. {j \in 1..i : v[j] > v[i] - WINDOW} = {j \in 1..i : w[j] > w[i] - WINDOW}
      BY <1>10, <3>1, <3>2
    <3> QED
      BY <1>12, <3>1, <3>3 DEF WindowsFine
  <2> QED
    BY <2>1, <2>2
<1>20. KeyFine(v, h, t)
  BY <1>10, <1>11, <1>13, <1>14, <1>15, <1>16, <1>17, <1>18, <1>19 DEF KeyFine
<1> QED
  BY <1>20 DEF v, h, g

LEMMA ThrottleInvInit == ConsoleInit => ThrottleInv
  BY KeyForgotten DEF ConsoleInit, ThrottleInv

LEMMA ThrottleInvStep ==
    ASSUME ThrottleInv, [ConsoleNext]_consoleVars PROVE ThrottleInv'
<1> DEFINE Same == wrong' = wrong /\ failures' = failures
<1>1. now \in Nat /\ DOMAIN wrong = Keys /\ DOMAIN failures = Keys
  BY DEF ThrottleInv
<1>2. \A k \in Keys : KeyFine(wrong[k], failures[k], now)
  BY DEF ThrottleInv
<1>3. CASE now' = now /\ Same
  BY <1>1, <1>2, <1>3 DEF ThrottleInv
<1>4. CASE Tick
  <2>1. now' = now + 1 /\ Same /\ now' \in Nat
    BY <1>1, <1>4 DEF Tick, process, history
  <2>2. now + 1 \in Nat /\ now <= now + 1
    BY <1>1
  <2>3. \A k \in Keys : KeyFine(wrong[k], failures[k], now + 1)
    BY <1>1, <1>2, <2>2, KeyAges
  <2> QED
    BY <1>1, <2>1, <2>3 DEF ThrottleInv
\* A step that gives one key a new history and a new list, or more of them.
<1>5. ASSUME now' = now, DOMAIN wrong' = Keys, DOMAIN failures' = Keys,
             \A k \in Keys : \/ wrong'[k] = wrong[k] /\ failures'[k] = failures[k]
                             \/ KeyFine(wrong'[k], failures'[k], now)
      PROVE  ThrottleInv'
  BY <1>1, <1>2, <1>5 DEF ThrottleInv
<1>6. ASSUME NEW key \in Keys, login_refused(key) PROVE ThrottleInv'
  <2>1. /\ now' = now /\ wrong' = wrong
        /\ failures' = [failures EXCEPT ![key] = Without(failures[key], 0..(now - WINDOW))]
    BY <1>6 DEF login_refused, recent, history
  <2>2. KeyFine(wrong[key], Without(failures[key], 0..(now - WINDOW)), now)
    BY <1>1, <1>2, KeyPruned
  <2> QED
    BY <1>1, <1>5, <2>1, <2>2
<1>7. ASSUME NEW key \in Keys, login_failed(key) PROVE ThrottleInv'
  <2> DEFINE g == Without(failures[key], 0..(now - WINDOW))
  <2>1. /\ now' = now /\ wrong' = [wrong EXCEPT ![key] = Append(wrong[key], now)]
        /\ failures' = [failures EXCEPT ![key] = Append(g, now)]
    BY <1>7 DEF login_failed, recordFailure, recent
  <2>2. ~(Len(g) >= MAX_FAILURES)
    BY <1>7 DEF login_failed, isLockedOut, recent
  <2>3. Len(g) < MAX_FAILURES
    <3>1. g \in Seq(Nat)
      <4>1. failures[key] \in Seq(Nat)
        BY <1>2 DEF KeyFine
      <4> QED
        BY <4>1, WithoutKeeps
    <3> HIDE DEF g
    <3>2. Len(g) \in Nat /\ MAX_FAILURES \in Nat
      BY <3>1, SettingsArePositive
    <3> QED
      BY <2>2, <3>2
  <2>4. KeyFine(Append(wrong[key], now), Append(g, now), now)
    BY <1>1, <1>2, <2>3, KeyFails
  <2> HIDE DEF g
  <2> QED
    BY <1>1, <1>5, <2>1, <2>4
<1>8. ASSUME NEW s \in signing, login_signed(s) PROVE ThrottleInv'
  <2>1. /\ now' = now /\ wrong' = [wrong EXCEPT ![s.key] = << >>]
        /\ failures' = [failures EXCEPT ![s.key] = << >>]
    BY <1>8 DEF login_signed, recordSuccess
  <2>2. KeyFine(<< >>, << >>, now)
    BY KeyForgotten
  <2> QED
    BY <1>1, <1>5, <2>1, <2>2
<1>9. ASSUME NEW list, NEW key, Deploy(list, key) PROVE ThrottleInv'
  <2>1. /\ now' = now /\ wrong' = [k \in Keys |-> << >>]
        /\ failures' = [k \in Keys |-> << >>]
    BY <1>9 DEF Deploy
  <2>2. KeyFine(<< >>, << >>, now)
    BY KeyForgotten
  <2> QED
    BY <1>1, <1>5, <2>1, <2>2
<1>10. CASE UNCHANGED consoleVars
  BY <1>3, <1>10 DEF consoleVars, process, history
<1>11. ASSUME NEW key \in Keys, login_accepted(key) PROVE ThrottleInv'
  BY <1>3, <1>11 DEF login_accepted
<1>12. ASSUME NEW c, logout(c) PROVE ThrottleInv'
  BY <1>3, <1>12 DEF logout, process, history
<1>13. ASSUME NEW c, NEW route, NEW body, gate(c, route, body) PROVE ThrottleInv'
  BY <1>3, <1>13 DEF gate, history
<1>14. ASSUME NEW r, authorisedCaller(r) PROVE ThrottleInv'
  BY <1>3, <1>14 DEF authorisedCaller, Step, history
<1>15. ASSUME NEW r, authorise(r) PROVE ThrottleInv'
  BY <1>3, <1>15 DEF authorise, Step, history
<1>16. ASSUME NEW r, forward(r) PROVE ThrottleInv'
  <2>1. UNCHANGED <<now, failures, wrong>>
    BY <1>16 DEF forward
  <2> QED
    BY <1>3, <2>1
<1> QED
  BY <1>4, <1>6, <1>7, <1>8, <1>9, <1>10, <1>11, <1>12, <1>13, <1>14, <1>15, <1>16
     DEF ConsoleNext

\* What is left of a window, in whole seconds, is no less than what is left.
LEMMA RoundedUp ==
    ASSUME NEW a \in Nat \ {0}, NEW b \in Nat \ {0}
    PROVE  CeilDiv(a, b) \in Nat /\ CeilDiv(a, b) * b >= a
<1> DEFINE n == a + b - 1
<1>1. n \in Nat
  OBVIOUS
<1> HIDE DEF n
<1>2. n \div b \in Int
  BY <1>1
<1>3. n < b * (n \div b + 1)
  BY <1>1
<1>4. n \div b >= 0
  BY <1>1
<1>5. b * (n \div b + 1) = (n \div b) * b + b
  BY <1>2
<1>6. (n \div b) * b \in Int
  BY <1>2
<1>7. (n \div b) * b >= a
  BY <1>3, <1>5, <1>6 DEF n
<1> QED
  BY <1>2, <1>4, <1>7 DEF CeilDiv, n

\* A list that is full has passed the limit no more once its first failure is old.
LEMMA ListEmpties ==
    ASSUME NEW w, NEW f, NEW t \in Nat, KeyFine(w, f, t), NEW later \in Int,
           Len(Without(f, 0..(t - WINDOW))) >= MAX_FAILURES,
           Without(f, 0..(t - WINDOW))[1] <= later - WINDOW
    PROVE  Len(Without(f, 0..(later - WINDOW))) < MAX_FAILURES
<1> DEFINE g == Without(f, 0..(t - WINDOW))
           h == Without(f, 0..(later - WINDOW))
<1>1. f \in Seq(Nat) /\ Len(f) <= MAX_FAILURES
  BY DEF KeyFine
<1>2. MAX_FAILURES \in Nat \ {0} /\ WINDOW \in Nat /\ t \in Int
  BY SettingsArePositive
<1>3. Len(f) \in Nat /\ \A i \in 1..Len(f) : f[i] \in Nat
  BY <1>1
<1>4. PICK m \in 0..Len(f) :
          /\ Len(g) = Len(f) - m
          /\ \A i \in 1..(Len(f) - m) : g[i] = f[i + m]
  BY <1>2, RecentIsSuffix
<1>5. PICK n \in 0..Len(f) :
          /\ Len(h) = Len(f) - n
          /\ \A i \in (n + 1)..Len(f) : f[i] > later - WINDOW
  BY RecentIsSuffix
<1>6. Len(g) >= MAX_FAILURES /\ g[1] <= later - WINDOW
  OBVIOUS
<1> HIDE DEF g, h
<1>7. m = 0 /\ Len(f) = MAX_FAILURES
  BY <1>1, <1>2, <1>3, <1>4, <1>6
<1>8. f[1] = g[1] /\ 1 \in 1..Len(f)
  BY <1>2, <1>3, <1>4, <1>7
<1>9. ~(f[1] > later - WINDOW)
  BY <1>2, <1>3, <1>6, <1>8
<1>10. n # 0
  <2>1. n = 0 => 1 \in (n + 1)..Len(f)
    BY <1>8
  <2> QED
    BY <1>5, <1>9, <2>1
<1>11. Len(h) < MAX_FAILURES
  BY <1>2, <1>3, <1>5, <1>7, <1>10
<1> QED
  BY <1>11 DEF h

\* A key that is locked out is open again after the wait it was told.
LEMMA LockOpens ==
    ASSUME ThrottleInv, NEW k \in Keys, isLockedOut(k, now)
    PROVE  ~isLockedOut(k, now + retryAfterSeconds(k, now) * Second)
<1> DEFINE f == failures[k]
           g == Without(f, 0..(now - WINDOW))
           left == CeilDiv(g[1] + WINDOW - now, Second)
           wait == IF left < 1 THEN 1 ELSE left
           later == now + wait * Second
<1>1. now \in Nat /\ KeyFine(wrong[k], f, now)
  BY DEF ThrottleInv
<1>2. f \in Seq(Nat) /\ Len(f) <= MAX_FAILURES
  BY <1>1 DEF KeyFine
<1>3. MAX_FAILURES \in Nat \ {0} /\ WINDOW \in Nat \ {0} /\ Second \in Nat \ {0}
  BY SettingsArePositive
<1>4. Len(g) >= MAX_FAILURES
  BY DEF isLockedOut, recent
<1>5. retryAfterSeconds(k, now) = wait
  BY DEF retryAfterSeconds, recent
<1>6. g \in Seq(Nat)
  BY <1>2, WithoutKeeps
<1>7. \A i \in 1..Len(g) : g[i] \notin 0..(now - WINDOW)
  BY <1>2, WithoutKeeps
<1> DEFINE first == g[1]
<1>8. first \in Nat /\ first > now - WINDOW
  <2> HIDE DEF g
  <2>1. 1 \in 1..Len(g)
    BY <1>3, <1>4, <1>6
  <2>2. g[1] \in Nat /\ g[1] \notin 0..(now - WINDOW)
    BY <1>6, <1>7, <2>1
  <2> QED
    BY <1>1, <1>3, <2>2
<1> HIDE DEF first
<1>9. left \in Nat /\ left * Second >= first + WINDOW - now
  <2> DEFINE a == first + WINDOW - now
  <2>1. a \in Nat \ {0}
    BY <1>1, <1>3, <1>8
  <2>2. left = CeilDiv(a, Second)
    BY DEF first
  <2> HIDE DEF a, left
  <2>3. CeilDiv(a, Second) \in Nat /\ CeilDiv(a, Second) * Second >= a
    BY <1>3, <2>1, RoundedUp
  <2> QED
    BY <2>2, <2>3 DEF a
<1> HIDE DEF left
<1>10. wait \in Nat /\ wait * Second >= first + WINDOW - now
  <2>1. CASE left < 1
    <3>1. left = 0 /\ wait = 1
      BY <1>9, <2>1
    <3>2. wait * Second = Second /\ left * Second = 0
      BY <1>3, <3>1
    <3> QED
      BY <1>1, <1>3, <1>8, <1>9, <3>1, <3>2
  <2>2. CASE ~(left < 1)
    BY <1>9, <2>2
  <2> QED
    BY <2>1, <2>2
<1> HIDE DEF wait
<1>11. later \in Int /\ first <= later - WINDOW
  <2>1. wait * Second \in Int
    BY <1>3, <1>10
  <2> QED
    BY <1>1, <1>3, <1>8, <1>10, <2>1
<1> HIDE DEF later
<1>12. Len(Without(f, 0..(later - WINDOW))) < MAX_FAILURES
  BY <1>1, <1>4, <1>11, ListEmpties DEF first
<1>13. Without(f, 0..(later - WINDOW)) \in Seq(Nat)
  BY <1>2, WithoutKeeps
<1>14. ~(Len(Without(f, 0..(later - WINDOW))) >= MAX_FAILURES)
  <2> DEFINE h == Without(f, 0..(later - WINDOW))
  <2>1. h \in Seq(Nat) /\ Len(h) < MAX_FAILURES
    BY <1>12, <1>13
  <2> HIDE DEF h
  <2>2. Len(h) \in Nat
    BY <2>1
  <2>3. ~(Len(h) >= MAX_FAILURES)
    BY <1>3, <2>1, <2>2
  <2> QED
    BY <2>3 DEF h
<1>15. ~isLockedOut(k, later)
  BY <1>14 DEF isLockedOut, recent
<1> QED
  BY <1>5, <1>15 DEF later

LEMMA ThrottleInvAlways == ConsoleSpec => []ThrottleInv
<1>1. ThrottleInv /\ [ConsoleNext]_consoleVars => ThrottleInv'
  BY ThrottleInvStep
<1> QED
  BY <1>1, ThrottleInvInit, PTL DEF ConsoleSpec

\* The throttle of the console's login (throttle.ts): no window sees more wrong
\* passwords of a key than allowed, and the wait that a Retry-After names is
\* enough, for any limit, window, clock and sequence of attempts.
THEOREM ThrottleIsTrue == ConsoleSpec => []ThrottleKeepsItsWord
<1>1. ThrottleInv => ThrottleKeepsItsWord
  <2> SUFFICES ASSUME ThrottleInv, NEW k \in Keys
               PROVE  /\ \A i \in DOMAIN wrong[k] :
                             Cardinality({j \in 1..i : wrong[k][j] > wrong[k][i] - WINDOW})
                                 <= MAX_FAILURES
                      /\ isLockedOut(k, now) =>
                             ~isLockedOut(k, now + retryAfterSeconds(k, now) * Second)
    BY DEF ThrottleKeepsItsWord
  <2>1. wrong[k] \in Seq(Nat) /\ WindowsFine(wrong[k])
    BY DEF ThrottleInv, KeyFine
  <2>2. DOMAIN wrong[k] = 1..Len(wrong[k])
    BY <2>1
  <2>3. \A i \in DOMAIN wrong[k] :
            Cardinality({j \in 1..i : wrong[k][j] > wrong[k][i] - WINDOW}) <= MAX_FAILURES
    BY <2>1, <2>2 DEF WindowsFine
  <2> QED
    BY <2>3, LockOpens
<1> QED
  BY <1>1, ThrottleInvAlways, PTL

-----------------------------------------------------------------------------
(* The screens of the phone. *)

\* What a screen of each kind may await.
OpsOf == [home |-> {}, claim |-> {}, sender |-> {"corridors", "quote", "start"},
          recipient |-> {"status"}, agent |-> {"status", "check"},
          float |-> {"agent", "topup"}]

\* Calls that go on without their screen.
Outliving == {"start", "topup"}

FieldsOf == [home |-> {"kind", "key"}, claim |-> {"kind", "key", "params"},
             sender |-> {"kind", "key", "corridors", "corridorId", "amount", "quote",
                         "preflight", "busy"},
             recipient |-> {"kind", "key", "transferId", "transfer", "busy"},
             agent |-> {"kind", "key", "transferId", "code", "transfer", "verification",
                        "busy", "handled", "checked", "threw"},
             float |-> {"kind", "key", "agentId", "agent", "amount", "reasonGiven",
                        "busy", "submitted"}]

CallFieldsOf == [corridors |-> {"op", "key", "answer"},
                 quote |-> {"op", "key", "corridor", "amount", "quote", "preflight"},
                 start |-> {"op", "key", "step", "address", "quote", "preflight", "dest"},
                 status |-> {"op", "key", "answer"},
                 check |-> {"op", "key", "code", "claimHash"},
                 agent |-> {"op", "key", "answer"},
                 topup |-> {"op", "key", "agent", "amount", "answer"}]

\* A quote and what compliance requires are about the same corridor and amount.
SameTerms(quote, preflight) ==
    quote.corridor = preflight.corridor /\ quote.amount = preflight.amount

OnLedger(t) ==
    t.id \in TransferIds /\ t.claimHash = hashClaimCode(LedgerCodes[t.id])

\* What a text is made of. The literals are strings like any other, which the
\* provers do not know of a literal.
Characters ==
    STRING \cup DOMAIN lower \cup Separators \cup {"A", "B", "I", "L", "O", "U", "0", "1"}

\* A text was compared with a hash as the agent's screen does it, and matched.
Verified(text, claimHash) ==
    /\ text \in Seq(Characters)
    /\ verifyClaimCode(normaliseClaimCode(text), claimHash) = "matches"

\* The claim screen was given a code and its hash.
MintedCode(p) == p.claimCode \in ClaimCodes /\ p.claimHash = hashClaimCode(p.claimCode)

\* A screen by itself.
ScreenFine(s) ==
    /\ s.kind \in DOMAIN OpsOf
    /\ FieldsOf[s.kind] \subseteq DOMAIN s
    /\ s.kind = "sender" =>
          s.quote = Null \/ s.preflight = Null \/ SameTerms(s.quote, s.preflight)
    /\ s.kind = "claim" => MintedCode(s.params)
    /\ s.kind = "agent" => s.code \in Seq(Characters)
    /\ s.kind = "agent" /\ s.transfer # Null =>
          /\ OnLedger(s.transfer)
          /\ s.verification = "matches" => Verified(s.checked, s.transfer.claimHash)

\* A call by itself.
CallFine(c) ==
    /\ c.op \in DOMAIN CallFieldsOf
    /\ CallFieldsOf[c.op] \subseteq DOMAIN c
    /\ c.op = "quote" =>
          \A a \in {c.quote, c.preflight} :
              a \in {Null, Failed} \/ (a.corridor = c.corridor /\ a.amount = c.amount)
    /\ c.op = "start" =>
          /\ SameTerms(c.quote, c.preflight)
          /\ c.preflight.requiredTier = "NONE" /\ c.preflight.withinDailyLimit
    /\ c.op = "status" => c.answer \in {Null, Failed} \/ OnLedger(c.answer)
    /\ c.op = "check" => c.code \in Seq(Characters)

\* What a screen and the calls in flight, cs, have in common: its spinner is for
\* one of them, or for a comparison of codes that threw, and an agent's screen has
\* one at a time.
Awaits(s, cs) ==
    /\ \A c \in cs : c.key = s.key => c.op \in OpsOf[s.kind]
    /\ s.kind \notin {"home", "claim"} /\ s.busy =>
          \/ \E c \in cs : c.key = s.key /\ c.op # "corridors"
          \/ s.kind = "agent" /\ s.threw
    /\ s.kind = "agent" =>
          \A c \in cs : c.key = s.key =>
              /\ s.busy
              /\ \A d \in cs : d.key = s.key => d = c
              /\ c.op = "status" => s.verification # "matches"
              /\ c.op = "check" => s.transfer = Null \/ s.transfer.claimHash = c.claimHash

IsStack(st) == \E S : st \in Seq(S)

\* The stack st with n screens opened so far and the calls cs in flight.
PhoneFine(st, n, cs) ==
    /\ n \in Nat
    /\ IsStack(st)
    /\ \A i \in DOMAIN st : /\ st[i].key \in Nat /\ st[i].key < n
                            /\ ScreenFine(st[i]) /\ Awaits(st[i], cs)
    /\ \A i, j \in DOMAIN st : st[i].key = st[j].key => i = j
    /\ \A c \in cs : /\ CallFine(c) /\ c.key \in Nat /\ c.key < n
                     /\ c.op \notin Outliving => \E i \in DOMAIN st : st[i].key = c.key

MintedFine ==
    \A m \in minted : /\ MintedCode(m.params) /\ SameTerms(m.params, m.preflight)
                      /\ m.preflight.requiredTier = "NONE" /\ m.preflight.withinDailyLimit

ScreensInv == PhoneFine(stack, opened, calls) /\ Len(stack) > 0 /\ MintedFine

-----------------------------------------------------------------------------
(* The key in the keychain. *)

\* Where no two provisionings overlapped, a key on its way to the keychain is
\* the only one, and every other that is in use is the one it holds.
KeyKept ==
    /\ store # Null \/ minted = {}
    /\ \A m \in minted : m.params.address = store
    /\ \A c \in calls : c.op = "start" /\ c.step = "code" =>
          store # Null /\ c.address = store
    /\ \A c \in calls : c.op = "start" /\ c.step = "set" =>
          /\ store = Null /\ c.address # Null
          /\ \A d \in calls : d.op = "start" /\ d.step = "set" => d = c

Counted ==
    /\ opened \in Nat /\ opened <= MaxScreens
    /\ IsFiniteSet(calls) /\ Cardinality(calls) <= MaxCalls
    /\ IsFiniteSet(minted) /\ Cardinality(minted) < opened

WalletInv == Counted /\ (raced \/ KeyKept)

-----------------------------------------------------------------------------
(* Sequences of screens. *)

LEMMA StackEntries ==
    ASSUME NEW st, IsStack(st)
    PROVE  /\ Len(st) \in Nat /\ DOMAIN st = 1..Len(st)
           /\ st \in Seq({st[i] : i \in DOMAIN st})
           /\ st = [i \in DOMAIN st |-> st[i]]
<1>1. PICK S : st \in Seq(S)
  BY DEF IsStack
<1>2. Len(st) \in Nat /\ DOMAIN st = 1..Len(st) /\ st = [i \in 1..Len(st) |-> st[i]]
  BY <1>1
<1> QED
  BY <1>2

LEMMA AppendIs ==
    ASSUME NEW st, IsStack(st), NEW x
    PROVE  /\ IsStack(Append(st, x))
           /\ Len(Append(st, x)) = Len(st) + 1
           /\ DOMAIN Append(st, x) = 1..(Len(st) + 1)
           /\ \A i \in DOMAIN st : Append(st, x)[i] = st[i]
           /\ Append(st, x)[Len(st) + 1] = x
<1> DEFINE S == {st[i] : i \in DOMAIN st}
           U == S \cup {x}
<1>1. Len(st) \in Nat /\ DOMAIN st = 1..Len(st) /\ st \in Seq(S)
  BY StackEntries
<1>2. S \subseteq U /\ x \in U
  OBVIOUS
<1> HIDE DEF S, U
<1>3. st \in Seq(U)
  BY <1>1, <1>2
<1>4. /\ Append(st, x) \in Seq(U)
      /\ Len(Append(st, x)) = Len(st) + 1
      /\ \A i \in 1..Len(st) : Append(st, x)[i] = st[i]
      /\ Append(st, x)[Len(st) + 1] = x
  BY <1>1, <1>2, <1>3
<1>5. DOMAIN Append(st, x) = 1..(Len(st) + 1)
  BY <1>4
<1> QED
  BY <1>1, <1>4, <1>5 DEF IsStack

LEMMA FrontIs ==
    ASSUME NEW st, IsStack(st), Len(st) > 0
    PROVE  /\ IsStack(Front(st))
           /\ Len(Front(st)) = Len(st) - 1
           /\ DOMAIN Front(st) = 1..(Len(st) - 1)
           /\ \A i \in 1..(Len(st) - 1) : Front(st)[i] = st[i]
<1> DEFINE S == {st[i] : i \in DOMAIN st}
           n == Len(st)
<1>1. n \in Nat /\ st \in Seq(S)
  BY StackEntries
<1> HIDE DEF S
<1>2. \A i \in 1..(n - 1) : st[i] \in S
  BY <1>1
<1>3. /\ SubSeq(st, 1, n - 1) \in Seq(S)
      /\ Len(SubSeq(st, 1, n - 1)) = n - 1
      /\ \A i \in 1..(n - 1) : SubSeq(st, 1, n - 1)[i] = st[i]
  <2> DEFINE m == n - 1
             t == SubSeq(st, 1, m)
  <2>1. m \in Int /\ 1 \in Int /\ m >= 0 /\ (m - 1) + 1 = m
    BY <1>1
  <2>2. /\ t \in Seq(S)
        /\ Len(t) = IF 1 <= m THEN m - 1 + 1 ELSE 0
        /\ \A i \in 1..(m - 1 + 1) : t[i] = st[1 + i - 1]
    BY <1>2, <2>1, SubSeqProperties
  <2> HIDE DEF t, m
  <2>3. t \in Seq(S) /\ Len(t) = m /\ \A i \in 1..m : t[i] = st[i]
    <3>1. \A i \in Int : 1 + i - 1 = i
      OBVIOUS
    <3> QED
      BY <2>1, <2>2, <3>1
  <2> QED
    BY <2>3 DEF t, m
<1>4. Front(st) = SubSeq(st, 1, n - 1)
  BY DEF Front
<1>5. DOMAIN SubSeq(st, 1, n - 1) = 1..(n - 1)
  BY <1>3
<1> HIDE DEF n
<1> QED
  BY <1>3, <1>4, <1>5 DEF IsStack, n

\* A function on the positions of a stack is a stack.
LEMMA MappedIsStack ==
    ASSUME NEW st, IsStack(st), NEW g, g = [i \in DOMAIN st |-> g[i]]
    PROVE  IsStack(g) /\ DOMAIN g = DOMAIN st /\ Len(g) = Len(st)
<1>1. Len(st) \in Nat /\ DOMAIN st = 1..Len(st)
  BY StackEntries
<1>2. g = [i \in 1..Len(st) |-> g[i]]
  BY <1>1
<1> DEFINE S == {g[i] : i \in 1..Len(st)}
<1>3. \A i \in 1..Len(st) : g[i] \in S
  OBVIOUS
<1> HIDE DEF S
<1>4. g \in Seq(S) /\ Len(g) = Len(st) /\ DOMAIN g = 1..Len(st)
  BY <1>1, <1>2, <1>3
<1> QED
  BY <1>1, <1>4 DEF IsStack

-----------------------------------------------------------------------------
(* What a step does to the screens and the calls, whatever the action. *)

\* A step for one key: its screen, if there is one, and its calls change.
LEMMA Touched ==
    ASSUME NEW st, NEW n, NEW cs, PhoneFine(st, n, cs), NEW st2, NEW cs2,
           NEW k \in Nat, k < n,
           IsStack(st2), DOMAIN st2 = DOMAIN st,
           \A i \in DOMAIN st : st2[i].key = st[i].key,
           \A i \in DOMAIN st : st[i].key # k => st2[i] = st[i],
           \A i \in DOMAIN st : st[i].key = k => ScreenFine(st2[i]) /\ Awaits(st2[i], cs2),
           \A c : c.key # k => (c \in cs <=> c \in cs2),
           \A c \in cs2 : c.key = k =>
               /\ CallFine(c)
               /\ c.op \notin Outliving => \E i \in DOMAIN st : st[i].key = k
    PROVE  PhoneFine(st2, n, cs2)
<1>1. n \in Nat /\ \A i, j \in DOMAIN st : st[i].key = st[j].key => i = j
  BY DEF PhoneFine
<1>2. \A i \in DOMAIN st : /\ st[i].key \in Nat /\ st[i].key < n
                           /\ ScreenFine(st[i]) /\ Awaits(st[i], cs)
  BY DEF PhoneFine
<1>3. \A c \in cs : /\ CallFine(c) /\ c.key \in Nat /\ c.key < n
                    /\ c.op \notin Outliving => \E i \in DOMAIN st : st[i].key = c.key
  BY DEF PhoneFine
<1>4. ASSUME NEW s, s.key # k, Awaits(s, cs) PROVE Awaits(s, cs2)
  <2>1. \A c : c.key = s.key => (c \in cs <=> c \in cs2)
    BY <1>4
  <2> QED
    BY <1>4, <2>1 DEF Awaits
<1>5. \A i \in DOMAIN st : ScreenFine(st2[i]) /\ Awaits(st2[i], cs2)
  <2> SUFFICES ASSUME NEW i \in DOMAIN st PROVE ScreenFine(st2[i]) /\ Awaits(st2[i], cs2)
    OBVIOUS
  <2>1. CASE st[i].key = k
    BY <2>1
  <2>2. CASE st[i].key # k
    <3>1. st2[i] = st[i]
      BY <2>2
    <3>2. Awaits(st[i], cs2)
      BY <1>2, <1>4, <2>2
    <3> QED
      BY <1>2, <3>1, <3>2
  <2> QED
    BY <2>1, <2>2
<1>6. \A c \in cs2 : /\ CallFine(c) /\ c.key \in Nat /\ c.key < n
                     /\ c.op \notin Outliving => \E i \in DOMAIN st : st[i].key = c.key
  <2> SUFFICES ASSUME NEW c \in cs2
               PROVE  /\ CallFine(c) /\ c.key \in Nat /\ c.key < n
                      /\ c.op \notin Outliving => \E i \in DOMAIN st : st[i].key = c.key
    OBVIOUS
  <2>1. CASE c.key = k
    BY <2>1
  <2>2. CASE c.key # k
    <3>1. c \in cs
      BY <2>2
    <3> QED
      BY <1>3, <3>1
  <2> QED
    BY <2>1, <2>2
<1> QED
  BY <1>1, <1>2, <1>5, <1>6 DEF PhoneFine

\* A screen is opened, with the key that is next, and may make a call.
LEMMA Opened ==
    ASSUME NEW st, NEW n, NEW cs, PhoneFine(st, n, cs), NEW s, NEW cs2,
           s.key = n, ScreenFine(s), s.kind \notin {"home", "claim"} => ~s.busy,
           \/ cs2 = cs
           \/ \E c : /\ cs2 = cs \cup {c} /\ CallFine(c)
                     /\ c.key = n /\ c.op = "corridors" /\ s.kind = "sender"
    PROVE  PhoneFine(Append(st, s), n + 1, cs2)
<1> DEFINE st2 == Append(st, s)
<1>1. n \in Nat /\ \A i, j \in DOMAIN st : st[i].key = st[j].key => i = j
  BY DEF PhoneFine
<1>2. \A i \in DOMAIN st : /\ st[i].key \in Nat /\ st[i].key < n
                           /\ ScreenFine(st[i]) /\ Awaits(st[i], cs)
  BY DEF PhoneFine
<1>3. \A c \in cs : /\ CallFine(c) /\ c.key \in Nat /\ c.key < n
                    /\ c.op \notin Outliving => \E i \in DOMAIN st : st[i].key = c.key
  BY DEF PhoneFine
<1>4. IsStack(st)
  BY DEF PhoneFine
<1> DEFINE l == Len(st)
<1>5. /\ IsStack(st2) /\ DOMAIN st2 = 1..(l + 1) /\ DOMAIN st = 1..l /\ l \in Nat
      /\ \A i \in DOMAIN st : st2[i] = st[i]
      /\ st2[l + 1] = s
  BY <1>4, AppendIs, StackEntries
<1> HIDE DEF st2, l
<1>6. \A i \in DOMAIN st2 : i \in DOMAIN st \/ i = l + 1
  BY <1>5
<1>7. \A c \in cs2 : c \in cs \/ (CallFine(c) /\ c.key = n /\ c.op = "corridors"
                                    /\ s.kind = "sender")
  OBVIOUS
<1>8. cs \subseteq cs2
  OBVIOUS
<1>9. \A i \in DOMAIN st : Awaits(st[i], cs2)
  <2> SUFFICES ASSUME NEW i \in DOMAIN st PROVE Awaits(st[i], cs2)
    OBVIOUS
  <2>1. st[i].key # n
    BY <1>1, <1>2
  <2>2. \A c \in cs2 : c.key = st[i].key => c \in cs
    BY <1>7, <2>1
  <2>3. Awaits(st[i], cs)
    BY <1>2
  <2> QED
    BY <1>8, <2>2, <2>3 DEF Awaits
<1>10. Awaits(s, cs2)
  <2>1. \A c \in cs2 : c.key = s.key => c.op = "corridors" /\ s.kind = "sender"
    <3>1. \A c \in cs : c.key # s.key
      BY <1>1, <1>3
    <3> QED
      BY <1>7, <3>1
  <2>2. "corridors" \in OpsOf["sender"]
    BY DEF OpsOf
  <2> QED
    BY <2>1, <2>2 DEF Awaits
<1>11. \A i \in DOMAIN st2 : /\ st2[i].key \in Nat /\ st2[i].key < n + 1
                             /\ ScreenFine(st2[i]) /\ Awaits(st2[i], cs2)
  <2>1. \A i \in DOMAIN st : st[i].key < n + 1
    BY <1>1, <1>2
  <2> QED
    BY <1>1, <1>2, <1>5, <1>6, <1>9, <1>10, <2>1
<1>12. \A i, j \in DOMAIN st2 : st2[i].key = st2[j].key => i = j
  <2>1. \A i \in DOMAIN st : st2[i].key # n /\ st2[l + 1].key = n
    BY <1>1, <1>2, <1>5
  <2> QED
    BY <1>1, <1>5, <1>6, <2>1
<1>13. \A c \in cs2 : /\ CallFine(c) /\ c.key \in Nat /\ c.key < n + 1
                      /\ c.op \notin Outliving => \E i \in DOMAIN st2 : st2[i].key = c.key
  <2> SUFFICES ASSUME NEW c \in cs2
               PROVE  /\ CallFine(c) /\ c.key \in Nat /\ c.key < n + 1
                      /\ c.op \notin Outliving => \E i \in DOMAIN st2 : st2[i].key = c.key
    OBVIOUS
  <2>1. CASE c \in cs
    <3>1. c.key < n + 1
      BY <1>1, <1>3, <2>1
    <3>2. \A i \in DOMAIN st : i \in DOMAIN st2 /\ st2[i].key = st[i].key
      BY <1>5
    <3> QED
      BY <1>3, <2>1, <3>1, <3>2
  <2>2. CASE c \notin cs
    <3>1. CallFine(c) /\ c.key = n
      BY <1>7, <2>2
    <3>2. l + 1 \in DOMAIN st2 /\ st2[l + 1].key = n
      BY <1>5
    <3> QED
      BY <1>1, <3>1, <3>2
  <2> QED
    BY <2>1, <2>2
<1>14. n + 1 \in Nat
  BY <1>1
<1>15. PhoneFine(st2, n + 1, cs2)
  BY <1>5, <1>11, <1>12, <1>13, <1>14 DEF PhoneFine
<1> QED
  BY <1>15 DEF st2

\* The top screen is left, and with it the calls that do no more than set its state.
LEMMA Left ==
    ASSUME NEW st, NEW n, NEW cs, PhoneFine(st, n, cs), Len(st) > 0,
           NEW cs2, cs2 = {c \in cs : c.key # st[Len(st)].key \/ c.op \in Outliving}
    PROVE  PhoneFine(Front(st), n, cs2)
<1> DEFINE st2 == Front(st)
<1>1. n \in Nat /\ \A i, j \in DOMAIN st : st[i].key = st[j].key => i = j
  BY DEF PhoneFine
<1>2. \A i \in DOMAIN st : /\ st[i].key \in Nat /\ st[i].key < n
                           /\ ScreenFine(st[i]) /\ Awaits(st[i], cs)
  BY DEF PhoneFine
<1>3. \A c \in cs : /\ CallFine(c) /\ c.key \in Nat /\ c.key < n
                    /\ c.op \notin Outliving => \E i \in DOMAIN st : st[i].key = c.key
  BY DEF PhoneFine
<1>4. IsStack(st)
  BY DEF PhoneFine
<1> DEFINE l == Len(st)
<1>5. /\ IsStack(st2) /\ DOMAIN st2 = 1..(l - 1) /\ DOMAIN st = 1..l /\ l \in Nat /\ l > 0
      /\ \A i \in 1..(l - 1) : st2[i] = st[i]
  BY <1>4, FrontIs, StackEntries
<1>6. cs2 = {c \in cs : c.key # st[l].key \/ c.op \in Outliving}
  OBVIOUS
<1> HIDE DEF st2, l
<1>7. \A i \in DOMAIN st2 : i \in DOMAIN st /\ st2[i] = st[i] /\ st[i].key # st[l].key
  BY <1>1, <1>5
<1>8. \A i \in DOMAIN st2 : Awaits(st[i], cs2)
  <2> SUFFICES ASSUME NEW i \in DOMAIN st2 PROVE Awaits(st[i], cs2)
    OBVIOUS
  <2>1. \A c : c.key = st[i].key => (c \in cs <=> c \in cs2)
    BY <1>6, <1>7
  <2>2. Awaits(st[i], cs)
    BY <1>2, <1>7
  <2> QED
    BY <2>1, <2>2 DEF Awaits
<1>9. \A i, j \in DOMAIN st2 : st2[i].key = st2[j].key => i = j
  BY <1>1, <1>7
<1>10. \A c \in cs2 : c.op \notin Outliving => \E i \in DOMAIN st2 : st2[i].key = c.key
  <2> SUFFICES ASSUME NEW c \in cs2, c.op \notin Outliving
               PROVE  \E i \in DOMAIN st2 : st2[i].key = c.key
    OBVIOUS
  <2>1. PICK i \in DOMAIN st : st[i].key = c.key
    BY <1>3, <1>6
  <2>2. i # l
    BY <1>6, <2>1
  <2>3. i \in DOMAIN st2 /\ st2[i] = st[i]
    BY <1>5, <2>2
  <2> QED
    BY <2>1, <2>3
<1>11. \A c \in cs2 : CallFine(c) /\ c.key \in Nat /\ c.key < n
  BY <1>3, <1>6
<1>12. PhoneFine(st2, n, cs2)
  BY <1>1, <1>2, <1>5, <1>7, <1>8, <1>9, <1>10, <1>11 DEF PhoneFine
<1> QED
  BY <1>12 DEF st2

\* The screen of a key, where it is mounted.
LEMMA ScreenIs ==
    ASSUME PhoneFine(stack, opened, calls), NEW i \in DOMAIN stack, NEW k, stack[i].key = k
    PROVE  mounted(k) /\ screen(k) = stack[i]
<1>1. \A j \in DOMAIN stack : stack[j].key = k <=> j = i
  BY DEF PhoneFine
<1>2. (CHOOSE j \in DOMAIN stack : stack[j].key = k) = i
  BY <1>1
<1> QED
  BY <1>2 DEF mounted, screen

\* Putting a screen back changes it and no other, and a step that does so is a
\* step for its key.
LEMMA Shown ==
    ASSUME PhoneFine(stack, opened, calls), NEW s, NEW cs2,
           NEW i \in DOMAIN stack, s.key = stack[i].key,
           ScreenFine(s), Awaits(s, cs2),
           \A c : c.key # s.key => (c \in calls <=> c \in cs2),
           \A c \in cs2 : c.key = s.key => CallFine(c)
    PROVE  PhoneFine(put(s), opened, cs2) /\ Len(put(s)) = Len(stack)
<1> DEFINE st2 == put(s)
           k == s.key
<1>1. IsStack(stack) /\ opened \in Nat /\ k \in Nat /\ k < opened
  BY DEF PhoneFine
<1>2. st2 = [j \in DOMAIN stack |-> IF stack[j].key = s.key THEN s ELSE stack[j]]
  BY DEF put
<1> HIDE DEF st2
<1>3. IsStack(st2) /\ DOMAIN st2 = DOMAIN stack /\ Len(st2) = Len(stack)
  <2>1. st2 = [j \in DOMAIN stack |-> st2[j]]
    BY <1>2
  <2> QED
    BY <1>1, <2>1, MappedIsStack
<1>4. \A j \in DOMAIN stack : st2[j] = IF stack[j].key = s.key THEN s ELSE stack[j]
  BY <1>2
<1>5. \A j \in DOMAIN stack : st2[j].key = stack[j].key
  BY <1>4
<1>6. \A j \in DOMAIN stack : stack[j].key # k => st2[j] = stack[j]
  BY <1>4
<1>7. \A j \in DOMAIN stack : stack[j].key = k => ScreenFine(st2[j]) /\ Awaits(st2[j], cs2)
  BY <1>4
<1>8. \E j \in DOMAIN stack : stack[j].key = k
  OBVIOUS
<1> HIDE DEF k
<1>9. \A c : c.key # k => (c \in calls <=> c \in cs2)
  BY DEF k
<1>10. \A c \in cs2 : c.key = k => CallFine(c)
  BY DEF k
<1>11. PhoneFine(st2, opened, cs2)
  BY <1>1, <1>3, <1>5, <1>6, <1>7, <1>8, <1>9, <1>10, Touched
<1> QED
  BY <1>3, <1>11 DEF st2

\* A step that leaves the screens alone, and goes on with one call.
LEMMA Replied ==
    ASSUME PhoneFine(stack, opened, calls), NEW c \in calls, NEW d,
           d.key = c.key, d.op = c.op, CallFine(d),
           d.op = "check" => d.claimHash = c.claimHash
    PROVE  PhoneFine(stack, opened, (calls \ {c}) \cup {d})
<1> DEFINE cs2 == (calls \ {c}) \cup {d}
           k == c.key
<1>1. IsStack(stack) /\ opened \in Nat /\ k \in Nat /\ k < opened
  BY DEF PhoneFine
<1>2. \A e : e \in cs2 <=> (e \in calls /\ e # c) \/ e = d
  OBVIOUS
<1> HIDE DEF cs2
<1>3. \A e : e.key # k => (e \in calls <=> e \in cs2)
  BY <1>2
<1>4. \A e \in cs2 : CallFine(e)
  <2>1. \A e \in calls : CallFine(e)
    BY DEF PhoneFine
  <2> QED
    BY <1>2, <2>1
<1>5. \A e \in cs2 : e.key = k /\ e.op \notin Outliving =>
          \E i \in DOMAIN stack : stack[i].key = k
  <2>1. \A e \in calls : e.op \notin Outliving => \E i \in DOMAIN stack : stack[i].key = e.key
    BY DEF PhoneFine
  <2> QED
    BY <1>2, <2>1
<1>6. \A i \in DOMAIN stack : ScreenFine(stack[i]) /\ Awaits(stack[i], calls)
  BY DEF PhoneFine
<1>7. \A i \in DOMAIN stack : Awaits(stack[i], cs2)
  <2> SUFFICES ASSUME NEW i \in DOMAIN stack PROVE Awaits(stack[i], cs2)
    OBVIOUS
  <2> DEFINE s == stack[i]
  <2>1. Awaits(s, calls)
    BY <1>6
  <2> HIDE DEF s
  <2>2. \A e \in cs2 : e.key = s.key => e.op \in OpsOf[s.kind]
    BY <1>2, <2>1 DEF Awaits
  <2>3. (\E e \in calls : e.key = s.key /\ e.op # "corridors") =>
            \E e \in cs2 : e.key = s.key /\ e.op # "corridors"
    BY <1>2
  <2>4. s.kind = "agent" =>
            \A e \in cs2 : e.key = s.key =>
              /\ s.busy
              /\ \A f \in cs2 : f.key = s.key => f = e
              /\ e.op = "status" => s.verification # "matches"
              /\ e.op = "check" => s.transfer = Null \/ s.transfer.claimHash = e.claimHash
    <3> SUFFICES ASSUME s.kind = "agent", NEW e \in cs2, e.key = s.key
                 PROVE  /\ s.busy
                        /\ \A f \in cs2 : f.key = s.key => f = e
                        /\ e.op = "status" => s.verification # "matches"
                        /\ e.op = "check" => s.transfer = Null \/ s.transfer.claimHash = e.claimHash
      OBVIOUS
    <3>1. CASE c.key = s.key
      <4>1. \A f \in calls : f.key = s.key => f = c
        BY <2>1, <3>1 DEF Awaits
      <4>2. \A f \in cs2 : f.key = s.key => f = d
        BY <1>2, <4>1
      <4>3. e = d
        BY <4>2
      <4>4. /\ s.busy
            /\ c.op = "status" => s.verification # "matches"
            /\ c.op = "check" => s.transfer = Null \/ s.transfer.claimHash = c.claimHash
        BY <2>1, <3>1 DEF Awaits
      <4> QED
        BY <4>2, <4>3, <4>4
    <3>2. CASE c.key # s.key
      <4>1. \A f \in cs2 : f.key = s.key => f \in calls
        BY <1>2, <3>2
      <4> QED
        BY <2>1, <4>1 DEF Awaits
    <3> QED
      BY <3>1, <3>2
  <2>5. Awaits(s, cs2)
    BY <2>1, <2>2, <2>3, <2>4 DEF Awaits
  <2> QED
    BY <2>5 DEF s
<1> HIDE DEF k
<1>8. PhoneFine(stack, opened, cs2)
  BY <1>1, <1>3, <1>4, <1>5, <1>6, <1>7, Touched
<1> QED
  BY <1>8 DEF cs2

-----------------------------------------------------------------------------
(* What a screen awaits, when it is edited, asks, and is answered. *)

LEMMA EditedAwaits ==
    ASSUME NEW t, NEW s, NEW cs, Awaits(t, cs), s.key = t.key, s.kind = t.kind,
           s.kind \notin {"home", "claim"} => s.busy = t.busy,
           s.kind = "agent" => /\ s.verification \in {t.verification, Null}
                               /\ s.transfer \in {t.transfer, Null}
                               /\ s.threw = t.threw
    PROVE  Awaits(s, cs)
  BY NullIsNoAnswer DEF Awaits

LEMMA AskedAwaits ==
    ASSUME NEW t, NEW s, NEW cs, NEW c, Awaits(t, cs), s.key = t.key, s.kind = t.kind,
           s.busy, c.key = s.key, c.op \in OpsOf[s.kind], c.op # "corridors",
           s.kind = "agent" =>
              /\ ~t.busy
              /\ c.op = "status" => s.verification # "matches"
              /\ c.op = "check" => s.transfer.claimHash = c.claimHash
    PROVE  Awaits(s, cs \cup {c})
<1>1. \A e : e \in cs \cup {c} <=> e \in cs \/ e = c
  OBVIOUS
<1>2. \A e \in cs \cup {c} : e.key = s.key => e.op \in OpsOf[s.kind]
  BY <1>1 DEF Awaits
<1>3. s.kind = "agent" => \A e \in cs \cup {c} : e.key = s.key => e = c
  BY <1>1 DEF Awaits
<1>4. \E e \in cs \cup {c} : e.key = s.key /\ e.op # "corridors"
  BY <1>1
<1> QED
  BY <1>2, <1>3, <1>4 DEF Awaits

LEMMA DoneAwaits ==
    ASSUME NEW t, NEW s, NEW cs, NEW c \in cs, Awaits(t, cs), s.key = t.key, s.kind = t.kind,
           c.key = t.key, s.busy => s.kind = "agent" /\ s.threw
    PROVE  Awaits(s, cs \ {c})
<1>1. \A e \in cs \ {c} : e \in cs /\ e # c
  OBVIOUS
<1>2. s.kind = "agent" => \A e \in cs \ {c} : e.key # s.key
  BY <1>1 DEF Awaits
<1> QED
  BY <1>1, <1>2 DEF Awaits

LEMMA ListedAwaits ==
    ASSUME NEW t, NEW s, NEW cs, NEW c \in cs, Awaits(t, cs), s.key = t.key, s.kind = t.kind,
           c.key = t.key, c.op = "corridors", s.kind = "sender", s.busy = t.busy
    PROVE  Awaits(s, cs \ {c})
<1>1. \A e : e \in cs \ {c} <=> e \in cs /\ e # c
  OBVIOUS
<1> QED
  BY <1>1 DEF Awaits

\* A call that is over, where no screen waits for it.
LEMMA Forgotten ==
    ASSUME PhoneFine(stack, opened, calls), NEW c \in calls, ~mounted(c.key)
    PROVE  PhoneFine(stack, opened, calls \ {c})
<1> DEFINE k == c.key
           cs2 == calls \ {c}
<1>1. IsStack(stack) /\ opened \in Nat /\ k \in Nat /\ k < opened
  BY DEF PhoneFine
<1>2. \A i \in DOMAIN stack : stack[i].key # k
  BY DEF mounted
<1>3. \A e : e \in cs2 => e \in calls
  OBVIOUS
<1>4. \A e : e.key # k => (e \in calls <=> e \in cs2)
  OBVIOUS
<1>5. \A e \in calls : CallFine(e) /\ (e.op \notin Outliving =>
                           \E i \in DOMAIN stack : stack[i].key = e.key)
  BY DEF PhoneFine
<1> HIDE DEF k, cs2
<1>6. \A e \in cs2 : e.key = k => CallFine(e) /\ (e.op \notin Outliving =>
                           \E i \in DOMAIN stack : stack[i].key = k)
  BY <1>3, <1>5
<1>7. PhoneFine(stack, opened, cs2)
  BY <1>1, <1>2, <1>4, <1>6, Touched
<1> QED
  BY <1>7 DEF cs2

LEMMA TopIs ==
    ASSUME ScreensInv
    PROVE  /\ Len(stack) \in DOMAIN stack /\ top = stack[Len(stack)]
           /\ ScreenFine(top) /\ Awaits(top, calls)
           /\ top.key \in Nat /\ top.key < opened
<1>1. IsStack(stack) /\ Len(stack) > 0
  BY DEF ScreensInv, PhoneFine
<1>2. Len(stack) \in DOMAIN stack
  BY <1>1, StackEntries
<1>3. top = stack[Len(stack)]
  BY DEF top, Last
<1> QED
  BY <1>2, <1>3 DEF ScreensInv, PhoneFine

\* The top screen is edited, and its calls go on.
LEMMA Edited ==
    ASSUME ScreensInv, NEW s, ScreenFine(s), s.key = top.key, s.kind = top.kind,
           s.kind \notin {"home", "claim"} => s.busy = top.busy,
           s.kind = "agent" => /\ s.verification \in {top.verification, Null}
                               /\ s.transfer \in {top.transfer, Null}
                               /\ s.threw = top.threw
    PROVE  PhoneFine(put(s), opened, calls) /\ Len(put(s)) > 0
<1>1. /\ Len(stack) \in DOMAIN stack /\ top = stack[Len(stack)] /\ Awaits(top, calls)
      /\ PhoneFine(stack, opened, calls) /\ Len(stack) > 0
  BY TopIs DEF ScreensInv
<1>2. Awaits(s, calls)
  BY <1>1, EditedAwaits
<1>3. \A c \in calls : CallFine(c)
  BY <1>1 DEF PhoneFine
<1> QED
  BY <1>1, <1>2, <1>3, Shown

\* The top screen asks, and waits for the answer.
LEMMA Asked ==
    ASSUME ScreensInv, NEW s, ScreenFine(s), s.key = top.key, s.kind = top.kind, s.busy,
           NEW c, CallFine(c), c.key = s.key, c.op \in OpsOf[s.kind], c.op # "corridors",
           s.kind = "agent" =>
              /\ ~top.busy
              /\ c.op = "status" => s.verification # "matches"
              /\ c.op = "check" => s.transfer.claimHash = c.claimHash
    PROVE  PhoneFine(put(s), opened, calls \cup {c}) /\ Len(put(s)) > 0
<1>1. /\ Len(stack) \in DOMAIN stack /\ top = stack[Len(stack)] /\ Awaits(top, calls)
      /\ PhoneFine(stack, opened, calls) /\ Len(stack) > 0
  BY TopIs DEF ScreensInv
<1>2. Awaits(s, calls \cup {c})
  BY <1>1, AskedAwaits
<1> DEFINE cs2 == calls \cup {c}
<1>3. \A e \in cs2 : CallFine(e)
  BY <1>1 DEF PhoneFine
<1>4. \A e : e.key # s.key => (e \in calls <=> e \in cs2)
  OBVIOUS
<1>5. Awaits(s, cs2)
  BY <1>2
<1> HIDE DEF cs2
<1>6. PhoneFine(put(s), opened, cs2) /\ Len(put(s)) = Len(stack)
  BY <1>1, <1>3, <1>4, <1>5, Shown
<1> QED
  BY <1>1, <1>6 DEF cs2

\* The screen of a call.
LEMMA Caller ==
    ASSUME ScreensInv, NEW c \in calls, mounted(c.key) \/ c.op \notin Outliving
    PROVE  \E i \in DOMAIN stack : /\ screen(c.key) = stack[i] /\ stack[i].key = c.key
                                   /\ ScreenFine(stack[i]) /\ Awaits(stack[i], calls)
                                   /\ c.op \in OpsOf[stack[i].kind]
<1>1. PhoneFine(stack, opened, calls)
  BY DEF ScreensInv
<1>2. PICK i \in DOMAIN stack : stack[i].key = c.key
  BY <1>1 DEF PhoneFine, mounted
<1>3. screen(c.key) = stack[i]
  BY <1>1, <1>2, ScreenIs
<1>4. ScreenFine(stack[i]) /\ Awaits(stack[i], calls)
  BY <1>1 DEF PhoneFine
<1>5. c.op \in OpsOf[stack[i].kind]
  BY <1>2, <1>4 DEF Awaits
<1> QED
  BY <1>2, <1>3, <1>4, <1>5

\* A call's screen takes the answer, and its spinner is gone, or never will be.
LEMMA AnswerShown ==
    ASSUME ScreensInv, NEW c \in calls, NEW i \in DOMAIN stack, stack[i].key = c.key,
           NEW s, ScreenFine(s), s.key = c.key, s.kind = stack[i].kind,
           s.busy => s.kind = "agent" /\ s.threw
    PROVE  PhoneFine(put(s), opened, calls \ {c}) /\ Len(put(s)) = Len(stack)
<1>1. PhoneFine(stack, opened, calls)
  BY DEF ScreensInv
<1>2. Awaits(stack[i], calls)
  BY <1>1 DEF PhoneFine
<1>3. Awaits(s, calls \ {c})
  BY <1>2, DoneAwaits
<1> DEFINE cs2 == calls \ {c}
<1>4. \A e \in cs2 : CallFine(e)
  BY <1>1 DEF PhoneFine
<1>5. \A e : e.key # s.key => (e \in calls <=> e \in cs2)
  OBVIOUS
<1>6. Awaits(s, cs2)
  BY <1>3
<1> HIDE DEF cs2
<1>7. PhoneFine(put(s), opened, cs2) /\ Len(put(s)) = Len(stack)
  BY <1>1, <1>4, <1>5, <1>6, Shown
<1> QED
  BY <1>7 DEF cs2

-----------------------------------------------------------------------------
(* Texts and codes. *)

LEMMA InputsAreInCharacters == Inputs \subseteq Seq(Characters)
<1> SUFFICES ASSUME NEW text \in Inputs PROVE text \in Seq(Characters)
  OBVIOUS
<1>1. text \in Seq(STRING)
  BY InputsAreTexts
<1>2. \A i \in 1..Len(text) : text[i] \in Characters
  BY <1>1 DEF Characters
<1> QED
  BY <1>1, <1>2

\* A character as normaliseClaimCode leaves it.
Canonical(ch) == /\ ch \in Characters /\ ch \notin Separators
                 /\ repair(toUpperCase(ch)) = ch

\* A character that no rule touches.
LEMMA Untouched ==
    ASSUME NEW x \in Characters, x \notin Separators, x \notin DOMAIN lower,
           x \notin {"I", "L", "O"}
    PROVE  Canonical(x)
<1>1. toUpperCase(x) = x
  BY DEF toUpperCase
<1>2. repair(x) = x
  BY DEF repair
<1> QED
  BY <1>1, <1>2 DEF Canonical

LEMMA PlainOnes == \A x \in {"A", "B", "U", "0", "1"} : Canonical(x)
<1>1. DOMAIN lower = {"a", "b", "i", "l", "o", "u"}
  BY DEF lower
<1>2. \A x \in {"A", "B", "U", "0", "1"} : x \in Characters
  BY DEF Characters
<1>3. \A x \in {"A", "B", "U", "0", "1"} : x \notin {"a", "b", "i", "l", "o", "u"}
  OBVIOUS
<1>4. \A x \in {"A", "B", "U", "0", "1"} : x \notin {"-", " "}
  OBVIOUS
<1>5. \A x \in {"A", "B", "U", "0", "1"} : x \notin {"I", "L", "O"}
  OBVIOUS
<1> QED
  BY <1>1, <1>2, <1>3, <1>4, <1>5, Untouched DEF Separators

LEMMA CharacterIs ==
    ASSUME NEW ch \in Characters, ch \notin Separators
    PROVE  Canonical(repair(toUpperCase(ch)))
<1>1. CASE ch \in DOMAIN lower
  <2>1. ch \in {"a", "b", "i", "l", "o", "u"}
    BY <1>1 DEF lower
  <2>2. toUpperCase(ch) = lower[ch]
    BY <1>1 DEF toUpperCase
  <2>3. toUpperCase(ch) \in {"A", "B", "I", "L", "O", "U"}
    BY <2>1, <2>2 DEF lower
  <2>4. repair(toUpperCase(ch)) \in {"A", "B", "1", "0", "U"}
    BY <2>3 DEF repair
  <2> QED
    BY <2>4, PlainOnes
<1>2. CASE ch \notin DOMAIN lower
  <2>1. toUpperCase(ch) = ch
    BY <1>2 DEF toUpperCase
  <2>2. CASE ch \in {"I", "L", "O"}
    <3>1. repair(ch) \in {"1", "0"}
      BY <2>2 DEF repair
    <3> QED
      BY <2>1, <3>1, PlainOnes
  <2>3. CASE ch \notin {"I", "L", "O"}
    <3>1. repair(ch) = ch
      BY <2>3 DEF repair
    <3> QED
      BY <2>1, <3>1 DEF Canonical
  <2> QED
    BY <2>2, <2>3
<1> QED
  BY <1>1, <1>2

LEMMA NormalisedIs ==
    ASSUME NEW text \in Seq(Characters)
    PROVE  /\ normaliseClaimCode(text) \in Seq(Characters)
           /\ \A i \in 1..Len(normaliseClaimCode(text)) :
                 Canonical(normaliseClaimCode(text)[i])
<1> DEFINE kept == Without(text, Separators)
           n == [i \in DOMAIN kept |-> repair(toUpperCase(kept[i]))]
<1>1. kept \in Seq(Characters) /\ \A i \in 1..Len(kept) : kept[i] \notin Separators
  BY WithoutKeeps
<1>2. normaliseClaimCode(text) = n
  BY DEF normaliseClaimCode
<1> HIDE DEF kept
<1>3. /\ Len(kept) \in Nat /\ DOMAIN kept = 1..Len(kept)
      /\ \A i \in 1..Len(kept) : kept[i] \in Characters
  BY <1>1
<1>4. \A i \in 1..Len(kept) : Canonical(n[i]) /\ n[i] \in Characters
  BY <1>1, <1>3, CharacterIs DEF Canonical
<1>5. n = [i \in 1..Len(kept) |-> n[i]]
  BY <1>3
<1> HIDE DEF n
<1>6. n \in Seq(Characters) /\ Len(n) = Len(kept)
  BY <1>3, <1>4, <1>5
<1> QED
  BY <1>2, <1>4, <1>6

\* However a symbol of a code is written down, it is read as that symbol.
LEMMA WrittenIs ==
    ASSUME NEW x \in ALPHABET, NEW y \in Written(x)
    PROVE  y \in Characters /\ y \notin Separators /\ repair(toUpperCase(y)) = x
<1>1. x \in STRING /\ x \notin Separators /\ x \notin DOMAIN lower
      /\ x \notin {"I", "L", "O"}
  BY CodeAssumption
<1>2. DOMAIN lower = {"a", "b", "i", "l", "o", "u"}
  BY DEF lower
<1>3. /\ lower["a"] = "A" /\ lower["b"] = "B" /\ lower["i"] = "I" /\ lower["l"] = "L"
      /\ lower["o"] = "O" /\ lower["u"] = "U"
  BY DEF lower
<1>4. CASE x = "0"
  <2>1. y \in {"0", "O", "o"}
    <3>1. x # "1" /\ x \notin Separators
      BY <1>1, <1>4
    <3> QED
      BY <1>4, <3>1 DEF Written
  <2>2. toUpperCase(y) \in {"0", "O"}
    BY <1>2, <1>3, <2>1 DEF toUpperCase
  <2>3. repair(toUpperCase(y)) = "0"
    BY <2>2 DEF repair
  <2>4. y \in Characters /\ y \notin Separators
    BY <1>2, <2>1 DEF Characters, Separators
  <2> QED
    BY <1>4, <2>3, <2>4
<1>5. CASE x = "1"
  <2>1. y \in {"1", "I", "i", "L", "l"}
    <3>1. x # "0" /\ x \notin Separators
      BY <1>1, <1>5
    <3> QED
      BY <1>5, <3>1 DEF Written
  <2>2. toUpperCase(y) \in {"1", "I", "L"}
    BY <1>2, <1>3, <2>1 DEF toUpperCase
  <2>3. repair(toUpperCase(y)) = "1"
    BY <2>2 DEF repair
  <2>4. y \in Characters /\ y \notin Separators
    BY <1>2, <2>1 DEF Characters, Separators
  <2> QED
    BY <1>5, <2>3, <2>4
<1>6. CASE x # "0" /\ x # "1"
  <2>1. y = x \/ (y \in DOMAIN lower /\ lower[y] = x)
    BY <1>1, <1>6 DEF Written
  <2>2. toUpperCase(y) = x
    BY <1>1, <2>1 DEF toUpperCase
  <2>3. repair(x) = x
    BY <1>1 DEF repair
  <2>4. y \in Characters
    BY <1>1, <2>1 DEF Characters
  <2>5. y \notin Separators
    <3>1. y \in DOMAIN lower => y \notin {"-", " "}
      BY <1>2
    <3> QED
      BY <1>1, <2>1, <3>1 DEF Separators
  <2> QED
    BY <2>2, <2>3, <2>4, <2>5
<1> QED
  BY <1>4, <1>5, <1>6

\* A text of such characters is left as it is.
LEMMA CanonicalStays ==
    ASSUME NEW text \in Seq(Characters), \A i \in 1..Len(text) : Canonical(text[i])
    PROVE  normaliseClaimCode(text) = text
<1>1. Without(text, Separators) = text
  BY WithoutNothing DEF Canonical
<1>2. normaliseClaimCode(text) = [i \in DOMAIN text |-> repair(toUpperCase(text[i]))]
  BY <1>1 DEF normaliseClaimCode
<1>3. DOMAIN text = 1..Len(text) /\ text = [i \in 1..Len(text) |-> text[i]]
  OBVIOUS
<1>4. \A i \in 1..Len(text) : repair(toUpperCase(text[i])) = text[i]
  BY DEF Canonical
<1> QED
  BY <1>2, <1>3, <1>4

LEMMA CodeIsWellFormed ==
    ASSUME NEW code \in ClaimCodes
    PROVE  Len(code) = CLAIM_CODE_LENGTH /\ isCanonical(code)
<1>1. PICK n : n = CLAIM_CODE_LENGTH
  OBVIOUS
<1>2. n \in Nat /\ code \in [1..n -> ALPHABET]
  BY <1>1, CodeAssumption DEF ClaimCodes
<1>3. code = [i \in 1..n |-> code[i]] /\ \A i \in 1..n : code[i] \in ALPHABET
  BY <1>2
<1>4. Len([i \in 1..n |-> code[i]]) = n
  BY <1>2, <1>3
<1> QED
  BY <1>1, <1>2, <1>3, <1>4 DEF isCanonical

LEMMA CodeStays ==
    ASSUME NEW code \in ClaimCodes PROVE normaliseClaimCode(code) = code
<1>1. /\ CLAIM_CODE_LENGTH \in Nat /\ ALPHABET \subseteq STRING
      /\ ALPHABET \cap ({"I", "L", "O", "U"} \cup DOMAIN lower \cup Separators) = {}
  BY CodeAssumption
<1>2. code \in [1..CLAIM_CODE_LENGTH -> ALPHABET]
  BY DEF ClaimCodes
<1> DEFINE n == CLAIM_CODE_LENGTH
<1>3. n \in Nat /\ code \in [1..n -> ALPHABET]
  BY <1>1, <1>2
<1> HIDE DEF n
<1>4. code = [i \in 1..n |-> code[i]] /\ \A i \in 1..n : code[i] \in ALPHABET
  BY <1>3
<1>5. \A i \in 1..n : code[i] \in Characters
  BY <1>1, <1>4 DEF Characters
<1>6. [i \in 1..n |-> code[i]] \in Seq(Characters) /\ Len([i \in 1..n |-> code[i]]) = n
  BY <1>3, <1>5
<1>7. code \in Seq(Characters) /\ Len(code) = CLAIM_CODE_LENGTH
  BY <1>4, <1>6 DEF n
<1>8. \A x \in ALPHABET : Canonical(x)
  <2> SUFFICES ASSUME NEW x \in ALPHABET PROVE Canonical(x)
    OBVIOUS
  <2>1. x \in Characters /\ x \notin Separators /\ x \notin DOMAIN lower
        /\ x \notin {"I", "L", "O"}
    BY <1>1 DEF Characters
  <2>2. toUpperCase(x) = x
    BY <2>1 DEF toUpperCase
  <2>3. repair(x) = x
    BY <2>1 DEF repair
  <2> QED
    BY <2>1, <2>2, <2>3 DEF Canonical
<1>9. \A i \in 1..Len(code) : Canonical(code[i])
  BY <1>2, <1>7, <1>8
<1> QED
  BY <1>7, <1>9, CanonicalStays

LEMMA TableIsSeq ==
    ASSUME NEW S, NEW n \in Nat, NEW f, \A i \in 1..n : f[i] \in S
    PROVE  f = [i \in 1..n |-> f[i]] => f \in Seq(S) /\ Len(f) = n
<1> DEFINE t == [i \in 1..n |-> f[i]]
<1>1. t \in Seq(S) /\ Len(t) = n
  OBVIOUS
<1> HIDE DEF t
<1> QED
  BY <1>1 DEF t

\* Of the first i places of a display, with a separator at every d-th place,
\* i - i \div d hold symbols: one more than before, but at a separator.
LEMMA PlaceCounted ==
    ASSUME NEW d \in Nat, d > 1, NEW i \in Nat
    PROVE  /\ i - i \div d \in Nat
           /\ i > 0 /\ i % d = 0 => i - i \div d = (i - 1) - (i - 1) \div d
           /\ i > 0 /\ i % d # 0 => i - i \div d = (i - 1) - (i - 1) \div d + 1
<1>1. PICK a \in Nat : a = i \div d
  OBVIOUS
<1>2. PICK b \in Nat : b = i % d
  OBVIOUS
<1>3. i = d * a + b /\ b < d
  BY <1>1, <1>2
<1>4. i - a \in Nat
  <2>1. PICK g \in Nat : g = d - 1
    OBVIOUS
  <2>2. d * a = g * a + a /\ g * a \in Nat
    BY <1>1, <2>1
  <2> QED
    BY <1>1, <1>2, <1>3, <2>2
<1>5. i > 0 /\ b = 0 => i - a = (i - 1) - (i - 1) \div d
  <2> SUFFICES ASSUME i > 0, b = 0 PROVE i - a = (i - 1) - (i - 1) \div d
    OBVIOUS
  <2>1. a > 0
    BY <1>1, <1>3
  <2>2. PICK h \in Nat : h = a - 1
    BY <1>1, <2>1
  <2>3. i - 1 = d * h + (d - 1) /\ d - 1 \in Nat /\ d - 1 < d /\ i - 1 \in Nat
    BY <1>1, <1>3, <2>2
  <2>4. (i - 1) \div d = h
    BY <2>2, <2>3, QuotientIs
  <2>5. i - a = (i - 1) - h
    BY <1>1, <2>2
  <2> QED
    BY <2>4, <2>5
<1>6. i > 0 /\ b # 0 => i - a = (i - 1) - (i - 1) \div d + 1
  <2> SUFFICES ASSUME i > 0, b # 0 PROVE i - a = (i - 1) - (i - 1) \div d + 1
    OBVIOUS
  <2>1. i - 1 = d * a + (b - 1) /\ b - 1 \in Nat /\ b - 1 < d /\ i - 1 \in Nat
    BY <1>1, <1>2, <1>3
  <2>2. (i - 1) \div d = a
    BY <1>1, <2>1, QuotientIs
  <2>3. i - a = (i - 1) - a + 1
    BY <1>1, <2>1
  <2> QED
    BY <2>2, <2>3
<1>7. i > 0 /\ i % d = 0 => i - i \div d = (i - 1) - (i - 1) \div d
  BY <1>1, <1>2, <1>5, Zenon
<1>8. i > 0 /\ i % d # 0 => i - i \div d = (i - 1) - (i - 1) \div d + 1
  BY <1>1, <1>2, <1>6, Zenon
<1>9. i - i \div d \in Nat
  BY <1>1, <1>4, Zenon
<1> QED
  BY <1>7, <1>8, <1>9, Zenon

\* The display of n symbols ends with the n-th.
LEMMA LastPlaceCounted ==
    ASSUME NEW g \in Nat, NEW n \in Nat, NEW q \in Nat, NEW r \in Nat, r < g,
           n = g * q + r + 1, NEW d \in Nat, d = g + 1, NEW l \in Nat, l = n + q
    PROVE  /\ l - l \div d = n
           /\ \A i \in 0..l : i - i \div d <= n
<1>1. d \in Nat /\ d > 0
  OBVIOUS
<1>2. r \in Nat
  OBVIOUS
<1>3. n - 1 = g * q + r /\ r < g /\ q \in Nat
  OBVIOUS
<1>4. d * q = g * q + q /\ g * q \in Nat
  BY <1>3
<1>5. l \in Nat /\ l = d * q + (r + 1) /\ r + 1 \in Nat /\ r + 1 < d
  BY <1>2, <1>3, <1>4
<1>6. l \div d = q
  BY <1>1, <1>3, <1>5, QuotientIs
<1>7. l - q = n
  BY <1>2, <1>3, <1>4, <1>5
<1>8. ASSUME NEW i \in 0..l PROVE i - i \div d <= n
  <2>1. PICK a \in Nat : a = i \div d
    BY <1>1, <1>5
  <2>2. PICK b \in Nat : b = i % d
    BY <1>1, <1>5
  <2>3. i \in Nat /\ i = d * a + b /\ b < d /\ i <= l
    BY <1>1, <1>5, <2>1, <2>2
  <2>4. d * a = g * a + a /\ g * a \in Nat
    BY <2>1
  <2>5. CASE a = q
    <3>1. i - a <= n
      BY <1>3, <1>7, <1>5, <2>3, <2>5
    <3> QED
      BY <2>1, <3>1
  <2>6. CASE a < q
    <3>1. q \in Nat /\ q - (a + 1) \in Nat
      BY <1>3, <2>1, <2>6
    <3>2. PICK e \in Nat : e = q - (a + 1)
      BY <3>1
    <3>3. g * q = g * a + g + g * e /\ g * e \in Nat
      BY <1>3, <2>1, <3>1, <3>2
    <3>4. i - a <= n
      BY <1>2, <1>3, <2>1, <2>2, <2>3, <2>4, <3>3
    <3> QED
      BY <2>1, <3>4
  <2>7. CASE a > q
    <3>1. PICK e \in Nat : e = a - (q + 1)
      BY <1>3, <2>1, <2>7
    <3>2. d * a = d * q + d + d * e /\ d * e \in Nat /\ d * q \in Nat
      BY <1>1, <1>3, <2>1, <3>1
    <3> QED
      BY <1>1, <1>2, <1>5, <2>2, <2>3, <3>2
  <2> QED
    BY <1>3, <2>1, <2>5, <2>6, <2>7
<1>9. l - l \div d = n
  BY <1>6, <1>7, Zenon
<1> QED
  BY <1>5, <1>8, <1>9

\* The display of a code: at place i a separator, or the symbol with i's number.
LEMMA DisplayIs ==
    ASSUME NEW code \in ClaimCodes
    PROVE  \E c, l, n :
              /\ n \in Nat /\ l \in Nat /\ c \in [0..l -> Nat] /\ c[0] = 0 /\ c[l] = n
              /\ code = [i \in 1..n |-> code[i]]
              /\ \A i \in 1..n : code[i] \in ALPHABET
              /\ DOMAIN formatClaimCode(code) = 1..l
              /\ \A i \in 1..l :
                    \/ /\ c[i] = c[i - 1] /\ formatClaimCode(code)[i] = "-"
                    \/ /\ c[i] = c[i - 1] + 1 /\ c[i] \in 1..n
                       /\ formatClaimCode(code)[i] = code[c[i]]
<1>1. PICK n, g, d : n = CLAIM_CODE_LENGTH /\ g = GROUP_SIZE /\ d = g + 1
  OBVIOUS
<1>2. n \in Nat /\ n > 0 /\ g \in Nat /\ g > 0 /\ d \in Nat /\ d > 1
  BY <1>1, CodeAssumption
<1>3. code = [i \in 1..n |-> code[i]] /\ \A i \in 1..n : code[i] \in ALPHABET
  BY <1>1 DEF ClaimCodes
<1>4. normaliseClaimCode(code) = code /\ Len(code) = n
  BY <1>1, CodeStays, CodeIsWellFormed
<1>5. PICK q \in Int : q = (n - 1) \div g
  BY <1>2
<1>6. PICK r \in Int : r = (n - 1) % g
  BY <1>2
<1>7. n - 1 = g * q + r /\ q \in Nat /\ r \in Nat /\ r < g
  BY <1>2, <1>5, <1>6
<1>8. PICK l \in Nat : l = n + q
  BY <1>2, <1>7
<1>9. l \in Nat /\ l - l \div d = n /\ \A i \in 0..l : i - i \div d <= n
  <2>1. q \in Nat /\ r \in Nat /\ r < g /\ d = g + 1 /\ l = n + q
    BY <1>1, <1>8, <1>7
  <2>2. n = g * q + r + 1
    <3>1. g * q \in Nat
      BY <1>2, <1>7
    <3> QED
      BY <1>2, <1>7, <3>1
  <2>3. g \in Nat /\ n \in Nat /\ d \in Nat /\ l \in Nat
    BY <1>2, <1>8
  <2> QED
    BY <2>1, <2>2, <2>3, LastPlaceCounted
<1>10. \A i \in Nat :
         /\ i - i \div d \in Nat
         /\ i > 0 /\ i % d = 0 => i - i \div d = (i - 1) - (i - 1) \div d
         /\ i > 0 /\ i % d # 0 => i - i \div d = (i - 1) - (i - 1) \div d + 1
  BY <1>2, PlaceCounted
<1> DEFINE c == [i \in 0..l |-> i - i \div d]
           t == [i \in 1..l |-> IF i % d = 0 THEN "-" ELSE code[i - i \div d]]
<1>11. formatClaimCode(code) = t
  BY <1>1, <1>4, <1>8, <1>5 DEF formatClaimCode
<1>12. c \in [0..l -> Nat] /\ c[l] = n
  BY <1>9, <1>10
<1>13. c[0] = 0
  <2>1. 0 \div d = 0
    BY <1>2, QuotientIs
  <2> QED
    BY <1>9, <1>10, <2>1
<1>14. ASSUME NEW i \in 1..l
       PROVE  \/ /\ c[i] = c[i - 1] /\ t[i] = "-"
              \/ /\ c[i] = c[i - 1] + 1 /\ c[i] \in 1..n
                 /\ t[i] = code[c[i]]
  <2>1. i \in Nat /\ i > 0 /\ i \in 0..l /\ i - 1 \in 0..l
    BY <1>9, <1>10
  <2>2. c[i] = i - i \div d /\ c[i - 1] = (i - 1) - (i - 1) \div d
    BY <2>1
  <2>3. t[i] = IF i % d = 0 THEN "-" ELSE code[i - i \div d]
    OBVIOUS
  <2>4. c[i] \in Nat /\ c[i - 1] \in Nat /\ c[i] <= n
    BY <1>9, <1>10, <2>1, <2>2
  <2> HIDE DEF c, t
  <2>5. CASE i % d = 0
    BY <1>9, <1>10, <2>1, <2>2, <2>3, <2>5
  <2>6. CASE i % d # 0
    <3>1. c[i] = c[i - 1] + 1 /\ t[i] = code[c[i]]
      BY <1>9, <1>10, <2>1, <2>2, <2>3, <2>6
    <3> QED
      BY <1>2, <2>4, <3>1
  <2> QED
    BY <2>5, <2>6
<1>15. DOMAIN t = 1..l
  OBVIOUS
<1>16. \A i \in 1..l :
          \/ /\ c[i] = c[i - 1] /\ t[i] = "-"
          \/ /\ c[i] = c[i - 1] + 1 /\ c[i] \in 1..n
             /\ t[i] = code[c[i]]
  BY <1>14
<1> HIDE DEF c, t
<1> WITNESS c, l, n
<1> QED
  BY <1>2, <1>3, <1>9, <1>11, <1>12, <1>13, <1>15, <1>16

\* A code that is displayed, and written down, is read as the code.
LEMMA ReadBack ==
    ASSUME NEW code \in ClaimCodes, NEW w, NEW display, display = formatClaimCode(code),
           \A i \in DOMAIN display : w[i] \in Written(display[i])
    PROVE  w = [i \in DOMAIN display |-> w[i]] => normaliseClaimCode(w) = code
<1>1. PICK c, l, n :
         /\ n \in Nat /\ l \in Nat /\ c \in [0..l -> Nat] /\ c[0] = 0 /\ c[l] = n
         /\ code = [i \in 1..n |-> code[i]]
         /\ \A i \in 1..n : code[i] \in ALPHABET
         /\ DOMAIN display = 1..l
         /\ \A i \in 1..l :
               \/ /\ c[i] = c[i - 1] /\ display[i] = "-"
               \/ /\ c[i] = c[i - 1] + 1 /\ c[i] \in 1..n
                  /\ display[i] = code[c[i]]
  BY DisplayIs
<1> SUFFICES ASSUME w = [i \in DOMAIN display |-> w[i]] PROVE normaliseClaimCode(w) = code
  OBVIOUS
<1>2. \A i \in 1..l :
         \/ /\ c[i] = c[i - 1] /\ w[i] \in Separators
         \/ /\ c[i] = c[i - 1] + 1 /\ w[i] \notin Separators
            /\ w[i] \in Characters /\ repair(toUpperCase(w[i])) = code[c[i]]
  <2> SUFFICES ASSUME NEW i \in 1..l
               PROVE  \/ /\ c[i] = c[i - 1] /\ w[i] \in Separators
                      \/ /\ c[i] = c[i - 1] + 1 /\ w[i] \notin Separators
                         /\ w[i] \in Characters /\ repair(toUpperCase(w[i])) = code[c[i]]
    OBVIOUS
  <2>1. w[i] \in Written(display[i])
    BY <1>1
  <2>2. CASE c[i] = c[i - 1] /\ display[i] = "-"
    <3>1. Written("-") = Separators
      BY DEF Written, Separators
    <3> QED
      BY <2>1, <2>2, <3>1
  <2>3. CASE c[i] = c[i - 1] + 1 /\ c[i] \in 1..n /\ display[i] = code[c[i]]
    <3>1. code[c[i]] \in ALPHABET
      BY <1>1, <2>3
    <3> QED
      BY <2>1, <2>3, <3>1, WrittenIs
  <2> QED
    BY <1>1, <2>2, <2>3
<1>3. w \in Seq(Characters) /\ Len(w) = l
  <2>1. \A i \in 1..l : w[i] \in Characters
    BY <1>2 DEF Characters
  <2>2. w = [i \in 1..l |-> w[i]] /\ l \in Nat
    BY <1>1
  <2>3. w = [i \in 1..l |-> w[i]] => w \in Seq(Characters) /\ Len(w) = l
    BY <2>1, <2>2, TableIsSeq
  <2> QED
    BY <2>2, <2>3
<1> DEFINE kept == Without(w, Separators)
           read == [i \in DOMAIN kept |-> repair(toUpperCase(kept[i]))]
<1>4. Len(kept) = n /\ \A k \in 1..n : repair(toUpperCase(kept[k])) = code[k]
  <2>1. /\ c \in [0..Len(w) -> Nat] /\ c[0] = 0
        /\ \A i \in 1..Len(w) : c[i] = IF w[i] \in Separators THEN c[i - 1] ELSE c[i - 1] + 1
    BY <1>1, <1>2, <1>3
  <2> HIDE DEF kept
  <2>2. /\ Len(Without(w, Separators)) = c[Len(w)]
        /\ \A k \in 1..c[Len(w)] :
              \E i \in 1..Len(w) : /\ w[i] \notin Separators /\ c[i] = k
                                   /\ Without(w, Separators)[k] = w[i]
        /\ \A i \in 1..Len(w) : w[i] \notin Separators => c[i] \in 1..c[Len(w)]
    BY <1>3, <2>1, WithoutCounted
  <2>3. /\ Len(kept) = c[Len(w)]
        /\ \A k \in 1..c[Len(w)] :
              \E i \in 1..Len(w) : w[i] \notin Separators /\ c[i] = k /\ kept[k] = w[i]
    BY <2>2 DEF kept
  <2> SUFFICES ASSUME NEW k \in 1..n PROVE repair(toUpperCase(kept[k])) = code[k]
    BY <1>1, <1>3, <2>3
  <2>4. PICK i \in 1..l : w[i] \notin Separators /\ c[i] = k /\ kept[k] = w[i]
    BY <1>1, <1>3, <2>3
  <2>5. repair(toUpperCase(w[i])) = code[c[i]]
    BY <1>2, <2>4
  <2> QED
    BY <2>4, <2>5
<1>5. kept \in Seq(Characters)
  BY <1>3, WithoutKeeps
<1>6. normaliseClaimCode(w) = read
  BY DEF normaliseClaimCode
<1> HIDE DEF kept
<1>7. DOMAIN kept = 1..n
  BY <1>4, <1>5
<1>8. read = [k \in 1..n |-> read[k]] /\ \A k \in 1..n : read[k] = code[k]
  BY <1>4, <1>7
<1> HIDE DEF read
<1>9. read = code
  BY <1>1, <1>8
<1> QED
  BY <1>6, <1>9

\* A match is for a well-formed text that normalises to the code of the hash,
\* although it is normalised twice on its way.
LEMMA MatchIsTheCode ==
    ASSUME NEW text, NEW code \in ClaimCodes, Verified(text, hashClaimCode(code))
    PROVE  isWellFormedClaimCode(text) /\ normaliseClaimCode(text) = code
<1> DEFINE n == normaliseClaimCode(text)
<1>1. text \in Seq(Characters) /\ verifyClaimCode(n, hashClaimCode(code)) = "matches"
  BY DEF Verified
<1>2. n \in Seq(Characters) /\ \A i \in 1..Len(n) : Canonical(n[i])
  BY <1>1, NormalisedIs
<1>3. normaliseClaimCode(n) = n
  BY <1>2, CanonicalStays
<1>4. normaliseClaimCode(code) = code
  BY CodeStays
<1>5. isWellFormedClaimCode(n) /\ hashClaimCode(n) = hashClaimCode(code)
  BY <1>1 DEF verifyClaimCode
<1>6. hashClaimCode(n) = [sha256 |-> n] /\ hashClaimCode(code) = [sha256 |-> code]
  BY <1>3, <1>4 DEF hashClaimCode
<1>7. n = code
  <2>1. [sha256 |-> n].sha256 = [sha256 |-> code].sha256
    BY <1>5, <1>6
  <2> QED
    BY <2>1
<1>8. Len(n) = CLAIM_CODE_LENGTH /\ isCanonical(n)
  BY <1>3, <1>5 DEF isWellFormedClaimCode
<1>9. isWellFormedClaimCode(text)
  BY <1>8 DEF isWellFormedClaimCode
<1> QED
  BY <1>7, <1>9

-----------------------------------------------------------------------------
(* Action by action. *)

ScreensKept == PhoneFine(stack', opened', calls') /\ Len(stack') > 0

\* The fields of the top screen.
LEMMA TopFields ==
    ASSUME ScreensInv, NEW kind \in {"sender", "recipient", "agent", "float"}, on(kind)
    PROVE  top.kind = kind /\ FieldsOf[kind] \subseteq DOMAIN top
  BY TopIs DEF on, ScreenFine

LEMMA PushKeeps ==
    ASSUME NEW st, PhoneFine(st, opened, calls), NEW s,
           \/ s = SenderScreen(opened) \/ s = RecipientScreen(opened)
           \/ s = AgentScreen(opened) \/ s = AgentFloatScreen(opened)
           \/ s = HomeScreen(opened),
           onMount(s), stack' = Append(st, s), opened' = opened + 1
    PROVE  ScreensKept
<1>1. s.key = opened /\ (s.kind \notin {"home", "claim"} => ~s.busy)
  BY DEF SenderScreen, RecipientScreen, AgentScreen, AgentFloatScreen, HomeScreen
<1>2. ScreenFine(s)
  <2>1. CASE s = SenderScreen(opened)
    BY <2>1 DEF SenderScreen, ScreenFine, OpsOf, FieldsOf
  <2>2. CASE s = RecipientScreen(opened)
    BY <2>2 DEF RecipientScreen, ScreenFine, OpsOf, FieldsOf
  <2>3. CASE s = AgentScreen(opened)
    <3>1. <<>> \in Seq(Characters)
      OBVIOUS
    <3> QED
      BY <2>3, <3>1 DEF AgentScreen, ScreenFine, OpsOf, FieldsOf
  <2>4. CASE s = AgentFloatScreen(opened)
    BY <2>4 DEF AgentFloatScreen, ScreenFine, OpsOf, FieldsOf
  <2>5. CASE s = HomeScreen(opened)
    BY <2>5 DEF HomeScreen, ScreenFine, OpsOf, FieldsOf
  <2> QED
    BY <2>1, <2>2, <2>3, <2>4, <2>5
<1>3. \/ calls' = calls
      \/ \E c : /\ calls' = calls \cup {c} /\ CallFine(c)
                /\ c.key = opened /\ c.op = "corridors" /\ s.kind = "sender"
  <2>1. CASE s.kind = "sender"
    <3> DEFINE c == [no |-> free, op |-> "corridors", key |-> s.key, answer |-> Null]
    <3>1. calls' = calls \cup {c}
      BY <2>1 DEF onMount, call
    <3>2. CallFine(c)
      BY DEF CallFine, CallFieldsOf
    <3> QED
      BY <1>1, <2>1, <3>1, <3>2
  <2>2. CASE s.kind # "sender"
    BY <2>2 DEF onMount
  <2> QED
    BY <2>1, <2>2
<1>4. PhoneFine(Append(st, s), opened + 1, calls')
  BY <1>1, <1>2, <1>3, Opened
<1>5. Len(Append(st, s)) > 0
  <2>1. IsStack(st)
    BY DEF PhoneFine
  <2> QED
    BY <2>1, AppendIs, StackEntries
<1> QED
  BY <1>4, <1>5 DEF ScreensKept

LEMMA OpeningKeeps ==
    ASSUME ScreensInv, OpenSender \/ OpenRecipient \/ OpenAgent \/ OpenFloat
    PROVE  ScreensKept
<1>1. PICK s : /\ \/ s = SenderScreen(opened) \/ s = RecipientScreen(opened)
                  \/ s = AgentScreen(opened) \/ s = AgentFloatScreen(opened)
               /\ Push(s)
  BY DEF OpenSender, OpenRecipient, OpenAgent, OpenFloat
<1>2. stack' = Append(stack, s) /\ opened' = opened + 1 /\ onMount(s)
  BY <1>1 DEF Push
<1>3. PhoneFine(stack, opened, calls)
  BY DEF ScreensInv
<1> QED
  BY <1>1, <1>2, <1>3, PushKeeps

LEMMA BackKeeps ==
    ASSUME ScreensInv, Back PROVE ScreensKept
<1>1. /\ Len(stack) > 1 /\ stack' = Front(stack) /\ opened' = opened
      /\ calls' = {c \in calls : c.key # top.key \/ c.op \in Outliving}
  BY DEF Back, Outliving
<1>2. PhoneFine(stack, opened, calls) /\ Len(stack) > 0 /\ top = stack[Len(stack)]
  BY TopIs DEF ScreensInv
<1>3. PhoneFine(Front(stack), opened, calls')
  BY <1>1, <1>2, Left
<1>4. Len(Front(stack)) > 0
  <2>1. Len(Front(stack)) = Len(stack) - 1 /\ Len(stack) \in Nat
    BY <1>2, FrontIs, StackEntries DEF PhoneFine
  <2> QED
    BY <1>1, <2>1
<1> QED
  BY <1>1, <1>3, <1>4 DEF ScreensKept

LEMMA LeaveClaimKeeps ==
    ASSUME ScreensInv, LeaveClaim PROVE ScreensKept
<1>1. PICK s : s \in {SenderScreen(opened), HomeScreen(opened)} /\ Replace(s)
  BY DEF LeaveClaim
<1>2. stack' = Append(Front(stack), s) /\ opened' = opened + 1 /\ onMount(s)
  BY <1>1 DEF Replace
<1>3. PhoneFine(stack, opened, calls) /\ Len(stack) > 0 /\ top = stack[Len(stack)]
  BY TopIs DEF ScreensInv
<1>4. \A c \in calls : c.key # top.key
  <2>1. top.kind = "claim" /\ Awaits(top, calls)
    BY TopIs DEF LeaveClaim, on
  <2>2. OpsOf["claim"] = {}
    BY DEF OpsOf
  <2> QED
    BY <2>1, <2>2 DEF Awaits
<1>5. calls = {c \in calls : c.key # top.key \/ c.op \in Outliving}
  BY <1>4
<1>6. PhoneFine(Front(stack), opened, calls)
  BY <1>3, <1>5, Left
<1> QED
  BY <1>1, <1>2, <1>6, PushKeeps

LEMMA KilledKeeps ==
    ASSUME ScreensInv, Killed PROVE ScreensKept
<1> DEFINE s == HomeScreen(opened)
           st == <<s>>
<1>1. stack' = st /\ opened' = opened + 1 /\ calls' = {}
  BY DEF Killed
<1>2. opened \in Nat
  BY DEF ScreensInv, PhoneFine
<1>3. s.key = opened /\ s.kind = "home" /\ ScreenFine(s)
  BY DEF HomeScreen, ScreenFine, OpsOf, FieldsOf
<1>4. Awaits(s, {})
  BY <1>3 DEF Awaits
<1> HIDE DEF s
<1>5. st \in Seq({s}) /\ DOMAIN st = 1..1 /\ Len(st) = 1
  OBVIOUS
<1>6. IsStack(st)
  BY <1>5 DEF IsStack
<1>7. \A i \in DOMAIN st : i = 1 /\ st[i] = s
  BY <1>5
<1> HIDE DEF st
<1>8. PhoneFine(st, opened + 1, {})
  BY <1>2, <1>3, <1>4, <1>6, <1>7 DEF PhoneFine
<1> QED
  BY <1>1, <1>5, <1>8 DEF ScreensKept

LEMMA ChooseCorridorKeeps ==
    ASSUME ScreensInv, NEW r, ChooseCorridor(r) PROVE ScreensKept
<1> DEFINE s == [top EXCEPT !.corridorId = r, !.quote = Null, !.preflight = Null]
<1>1. top.kind = "sender" /\ FieldsOf["sender"] \subseteq DOMAIN top
  BY TopFields DEF ChooseCorridor
<1>2. /\ s.kind = "sender" /\ s.key = top.key /\ s.busy = top.busy /\ s.quote = Null
      /\ DOMAIN s = DOMAIN top
  BY <1>1 DEF FieldsOf
<1>3. ScreenFine(s)
  BY <1>1, <1>2, TopIs DEF ScreenFine
<1>4. stack' = put(s) /\ opened' = opened /\ calls' = calls
  BY DEF ChooseCorridor, shown
<1> HIDE DEF s
<1> QED
  BY <1>1, <1>2, <1>3, <1>4, Edited DEF ScreensKept

LEMMA TypeAmountKeeps ==
    ASSUME ScreensInv, NEW a, TypeAmount(a) PROVE ScreensKept
<1> DEFINE s == [top EXCEPT !.amount = a]
<1>1. top.kind = "sender" /\ FieldsOf["sender"] \subseteq DOMAIN top
  BY TopFields DEF TypeAmount
<1>2. /\ s.kind = "sender" /\ s.key = top.key /\ s.busy = top.busy /\ DOMAIN s = DOMAIN top
      /\ s.quote = top.quote /\ s.preflight = top.preflight
  BY <1>1 DEF FieldsOf
<1>3. ScreenFine(s)
  BY <1>1, <1>2, TopIs DEF ScreenFine
<1>4. stack' = put(s) /\ opened' = opened /\ calls' = calls
  BY DEF TypeAmount, shown
<1> HIDE DEF s
<1> QED
  BY <1>1, <1>2, <1>3, <1>4, Edited DEF ScreensKept

LEMMA LoadQuoteKeeps ==
    ASSUME ScreensInv, loadQuote PROVE ScreensKept
<1> DEFINE s == [top EXCEPT !.busy = TRUE, !.quote = Null, !.preflight = Null]
           c == [no |-> free, op |-> "quote", key |-> top.key, corridor |-> top.corridorId,
                 amount |-> top.amount, quote |-> Null, preflight |-> Null]
<1>1. top.kind = "sender" /\ FieldsOf["sender"] \subseteq DOMAIN top
  BY TopFields DEF loadQuote
<1>2. /\ s.kind = "sender" /\ s.key = top.key /\ s.busy /\ s.quote = Null
      /\ DOMAIN s = DOMAIN top
  BY <1>1 DEF FieldsOf
<1>3. ScreenFine(s)
  BY <1>1, <1>2, TopIs DEF ScreenFine
<1>4. CallFine(c) /\ c.key = top.key /\ c.op = "quote" /\ c.op \in OpsOf["sender"]
  BY DEF CallFine, CallFieldsOf, OpsOf
<1>5. stack' = put(s) /\ opened' = opened /\ calls' = calls \cup {c}
  BY DEF loadQuote, shown, call
<1> HIDE DEF s, c
<1> QED
  BY <1>1, <1>2, <1>3, <1>4, <1>5, Asked DEF ScreensKept

LEMMA StartTransferKeeps ==
    ASSUME ScreensInv, startTransfer PROVE ScreensKept
<1> DEFINE s == [top EXCEPT !.busy = TRUE]
           c == [no |-> free, op |-> "start", key |-> top.key, step |-> "get",
                 address |-> Null, quote |-> top.quote, preflight |-> top.preflight,
                 dest |-> IF top.corridorId \in top.corridors THEN top.corridorId ELSE Null]
<1>1. top.kind = "sender" /\ FieldsOf["sender"] \subseteq DOMAIN top /\ cleared(top)
  BY TopFields DEF startTransfer
<1>2. /\ s.kind = "sender" /\ s.key = top.key /\ s.busy /\ DOMAIN s = DOMAIN top
      /\ s.quote = top.quote /\ s.preflight = top.preflight
  BY <1>1 DEF FieldsOf
<1>3. ScreenFine(s)
  BY <1>1, <1>2, TopIs DEF ScreenFine
<1>4. c.key = top.key /\ c.op = "start" /\ c.op \in OpsOf["sender"]
  BY DEF OpsOf
<1>5. CallFine(c)
  <2>1. SameTerms(top.quote, top.preflight)
    BY <1>1, TopIs DEF ScreenFine, cleared
  <2>2. top.preflight.requiredTier = "NONE" /\ top.preflight.withinDailyLimit
    BY <1>1 DEF cleared
  <2> QED
    BY <2>1, <2>2 DEF CallFine, CallFieldsOf
<1>6. stack' = put(s) /\ opened' = opened /\ calls' = calls \cup {c}
  BY DEF startTransfer, shown, call
<1> HIDE DEF s, c
<1> QED
  BY <1>1, <1>2, <1>3, <1>4, <1>5, <1>6, Asked DEF ScreensKept

\* A call and its fields.
LEMMA CallIs ==
    ASSUME ScreensInv, NEW c \in calls
    PROVE  CallFine(c) /\ c.op \in DOMAIN CallFieldsOf /\ CallFieldsOf[c.op] \subseteq DOMAIN c
  BY DEF ScreensInv, PhoneFine, CallFine

LEMMA ListCorridorsKeeps ==
    ASSUME ScreensInv, NEW c \in calls, ListCorridors(c) PROVE ScreensKept
<1>1. PICK a : calls' = (calls \ {c}) \cup {[c EXCEPT !.answer = a]}
  BY DEF ListCorridors, answered
<1> DEFINE d == [c EXCEPT !.answer = a]
<1>2. CallFieldsOf["corridors"] \subseteq DOMAIN c /\ c.op = "corridors"
  BY CallIs DEF ListCorridors
<1>3. d.key = c.key /\ d.op = "corridors" /\ DOMAIN d = DOMAIN c
  BY <1>2 DEF CallFieldsOf
<1>4. CallFine(d)
  BY <1>2, <1>3 DEF CallFine, CallFieldsOf
<1>5. stack' = stack /\ opened' = opened
  BY DEF ListCorridors
<1> HIDE DEF d
<1>6. PhoneFine(stack, opened, (calls \ {c}) \cup {d})
  BY <1>2, <1>3, <1>4, Replied DEF ScreensInv
<1> QED
  BY <1>1, <1>5, <1>6 DEF ScreensKept, ScreensInv, d

LEMMA CorridorsLoadedKeeps ==
    ASSUME ScreensInv, NEW c \in calls, CorridorsLoaded(c) PROVE ScreensKept
<1>1. PhoneFine(stack, opened, calls) /\ Len(stack) > 0
  BY DEF ScreensInv
<1>2. c.op = "corridors" /\ calls' = calls \ {c} /\ opened' = opened
  BY DEF CorridorsLoaded, done
<1>3. PICK i \in DOMAIN stack : /\ screen(c.key) = stack[i] /\ stack[i].key = c.key
                                /\ ScreenFine(stack[i]) /\ Awaits(stack[i], calls)
                                /\ c.op \in OpsOf[stack[i].kind]
  BY <1>2, Caller DEF Outliving
<1> DEFINE t == stack[i]
<1>4. t.kind = "sender" /\ FieldsOf["sender"] \subseteq DOMAIN t
  BY <1>2, <1>3 DEF OpsOf, ScreenFine
<1>5. ASSUME NEW s, ScreenFine(s), s.key = t.key, s.kind = "sender", s.busy = t.busy
      PROVE  PhoneFine(put(s), opened, calls \ {c}) /\ Len(put(s)) > 0
  <2> DEFINE cs2 == calls \ {c}
  <2>1. Awaits(s, cs2)
    BY <1>2, <1>3, <1>4, <1>5, ListedAwaits
  <2>2. \A e \in cs2 : CallFine(e)
    BY <1>1 DEF PhoneFine
  <2>3. \A e : e.key # s.key => (e \in calls <=> e \in cs2)
    BY <1>3, <1>5
  <2> HIDE DEF cs2
  <2>4. PhoneFine(put(s), opened, cs2) /\ Len(put(s)) = Len(stack)
    BY <1>1, <1>5, <2>1, <2>2, <2>3, Shown
  <2> QED
    BY <1>1, <2>4 DEF cs2
<1>6. CASE c.answer = Failed
  <2>1. stack' = stack
    BY <1>6 DEF CorridorsLoaded
  <2>2. PhoneFine(put(t), opened, calls \ {c}) /\ Len(put(t)) > 0
    BY <1>3, <1>4, <1>5
  <2>3. put(t) = stack
    <3>1. \A j \in DOMAIN stack : stack[j].key = t.key => stack[j] = t
      BY <1>1 DEF PhoneFine
    <3>2. put(t) = [j \in DOMAIN stack |-> stack[j]]
      BY <3>1 DEF put
    <3>3. stack = [j \in DOMAIN stack |-> stack[j]]
      <4> IsStack(stack)
        BY <1>1 DEF PhoneFine
      <4> QED
        BY StackEntries
    <3> QED
      BY <3>2, <3>3
  <2> QED
    BY <1>2, <2>1, <2>2, <2>3 DEF ScreensKept
<1>7. CASE c.answer # Failed
  <2> DEFINE s == [t EXCEPT !.corridors = c.answer,
                            !.corridorId = IF @ = Null THEN Head(CorridorList) ELSE @]
  <2>1. stack' = put(s)
    BY <1>3, <1>7 DEF CorridorsLoaded, shown
  <2>2. /\ s.kind = "sender" /\ s.key = t.key /\ s.busy = t.busy /\ DOMAIN s = DOMAIN t
        /\ s.quote = t.quote /\ s.preflight = t.preflight
    BY <1>4 DEF FieldsOf
  <2>3. ScreenFine(s)
    BY <1>3, <1>4, <2>2 DEF ScreenFine
  <2> HIDE DEF s
  <2> QED
    BY <1>2, <1>5, <2>1, <2>2, <2>3 DEF ScreensKept
<1> QED
  BY <1>6, <1>7

LEMMA QuoteKeeps ==
    ASSUME ScreensInv, NEW c \in calls, Quote(c) PROVE ScreensKept
<1>1. PICK q \in {[corridor |-> c.corridor, amount |-> c.amount], Failed} :
          calls' = (calls \ {c}) \cup {[c EXCEPT !.quote = q]}
  BY DEF Quote
<1> DEFINE d == [c EXCEPT !.quote = q]
<1>2. CallFieldsOf["quote"] \subseteq DOMAIN c /\ c.op = "quote" /\ CallFine(c)
  BY CallIs DEF Quote
<1>3. /\ d.key = c.key /\ d.op = "quote" /\ DOMAIN d = DOMAIN c /\ d.quote = q
      /\ d.preflight = c.preflight /\ d.corridor = c.corridor /\ d.amount = c.amount
  BY <1>2 DEF CallFieldsOf
<1>4. q = Failed \/ (q.corridor = c.corridor /\ q.amount = c.amount)
  OBVIOUS
<1>5. stack' = stack /\ opened' = opened
  BY DEF Quote
<1> HIDE DEF d
<1>6. CallFine(d)
  BY <1>2, <1>3, <1>4 DEF CallFine
<1>7. PhoneFine(stack, opened, (calls \ {c}) \cup {d})
  BY <1>2, <1>3, <1>6, Replied DEF ScreensInv
<1> QED
  BY <1>1, <1>5, <1>7 DEF ScreensKept, ScreensInv, d

LEMMA PreflightKeeps ==
    ASSUME ScreensInv, NEW c \in calls, Preflight(c) PROVE ScreensKept
<1>1. PICK p : /\ p = Failed \/ (p.corridor = c.corridor /\ p.amount = c.amount)
               /\ calls' = (calls \ {c}) \cup {[c EXCEPT !.preflight = p]}
  BY DEF Preflight
<1> DEFINE d == [c EXCEPT !.preflight = p]
<1>2. CallFieldsOf["quote"] \subseteq DOMAIN c /\ c.op = "quote" /\ CallFine(c)
  BY CallIs DEF Preflight
<1>3. /\ d.key = c.key /\ d.op = "quote" /\ DOMAIN d = DOMAIN c /\ d.preflight = p
      /\ d.quote = c.quote /\ d.corridor = c.corridor /\ d.amount = c.amount
  BY <1>2 DEF CallFieldsOf
<1>5. stack' = stack /\ opened' = opened
  BY DEF Preflight
<1> HIDE DEF d
<1>6. CallFine(d)
  BY <1>1, <1>2, <1>3 DEF CallFine
<1>7. PhoneFine(stack, opened, (calls \ {c}) \cup {d})
  BY <1>2, <1>3, <1>6, Replied DEF ScreensInv
<1> QED
  BY <1>1, <1>5, <1>7 DEF ScreensKept, ScreensInv, d

LEMMA QuoteLoadedKeeps ==
    ASSUME ScreensInv, NEW c \in calls, QuoteLoaded(c) PROVE ScreensKept
<1>1. /\ c.op = "quote" /\ calls' = calls \ {c} /\ opened' = opened
      /\ c.quote # Null /\ c.preflight # Null
  BY DEF QuoteLoaded, done
<1>2. PICK i \in DOMAIN stack : /\ screen(c.key) = stack[i] /\ stack[i].key = c.key
                                /\ ScreenFine(stack[i]) /\ Awaits(stack[i], calls)
                                /\ c.op \in OpsOf[stack[i].kind]
  BY <1>1, Caller DEF Outliving
<1> DEFINE t == stack[i]
           s == [t EXCEPT !.busy = FALSE]
           u == [s EXCEPT !.quote = c.quote, !.preflight = c.preflight]
<1>3. t.kind = "sender" /\ FieldsOf["sender"] \subseteq DOMAIN t
  BY <1>1, <1>2 DEF OpsOf, ScreenFine
<1>4. /\ s.kind = "sender" /\ s.key = t.key /\ ~s.busy /\ DOMAIN s = DOMAIN t
      /\ s.quote = t.quote /\ s.preflight = t.preflight
  BY <1>3 DEF FieldsOf
<1>5. /\ u.kind = "sender" /\ u.key = t.key /\ ~u.busy /\ DOMAIN u = DOMAIN t
      /\ u.quote = c.quote /\ u.preflight = c.preflight
  BY <1>3 DEF FieldsOf
<1>6. ScreenFine(s)
  BY <1>2, <1>3, <1>4 DEF ScreenFine
<1>7. CASE Failed \in {c.quote, c.preflight}
  <2>1. stack' = put(s)
    BY <1>2, <1>7 DEF QuoteLoaded, shown
  <2> HIDE DEF s
  <2>2. PhoneFine(put(s), opened, calls \ {c}) /\ Len(put(s)) = Len(stack)
    BY <1>2, <1>3, <1>4, <1>6, AnswerShown
  <2> QED
    BY <1>1, <2>1, <2>2 DEF ScreensKept, ScreensInv
<1>8. CASE Failed \notin {c.quote, c.preflight}
  <2>1. stack' = put(u)
    BY <1>2, <1>8 DEF QuoteLoaded, shown
  <2>2. SameTerms(c.quote, c.preflight)
    <3>1. CallFine(c)
      BY CallIs
    <3> QED
      BY <1>1, <1>8, <3>1 DEF CallFine, SameTerms
  <2> HIDE DEF s, u
  <2>3. ScreenFine(u)
    BY <1>2, <1>3, <1>5, <2>2 DEF ScreenFine
  <2>4. PhoneFine(put(u), opened, calls \ {c}) /\ Len(put(u)) = Len(stack)
    BY <1>2, <1>3, <1>5, <2>3, AnswerShown
  <2> QED
    BY <1>1, <2>1, <2>4 DEF ScreensKept, ScreensInv
<1> QED
  BY <1>7, <1>8

\* A start goes on: where it stands and its key are no business of a screen.
LEMMA StartGoesOn ==
    ASSUME ScreensInv, NEW c \in calls, c.op = "start", NEW step, NEW address,
           \/ calls' = (calls \ {c}) \cup {[c EXCEPT !.step = step, !.address = address]}
           \/ calls' = (calls \ {c}) \cup {[c EXCEPT !.step = step]},
           stack' = stack, opened' = opened
    PROVE  ScreensKept
<1>1. PICK d : /\ calls' = (calls \ {c}) \cup {d}
               /\ \/ d = [c EXCEPT !.step = step, !.address = address]
                  \/ d = [c EXCEPT !.step = step]
  OBVIOUS
<1>2. CallFieldsOf["start"] \subseteq DOMAIN c /\ CallFine(c)
  BY CallIs
<1>3. /\ d.key = c.key /\ d.op = "start" /\ DOMAIN d = DOMAIN c
      /\ d.quote = c.quote /\ d.preflight = c.preflight
  BY <1>1, <1>2 DEF CallFieldsOf
<1>4. CallFine(d)
  BY <1>2, <1>3 DEF CallFine, SameTerms
<1>5. PhoneFine(stack, opened, (calls \ {c}) \cup {d})
  BY <1>3, <1>4, Replied DEF ScreensInv
<1> QED
  BY <1>1, <1>5 DEF ScreensKept, ScreensInv

\* A start that is over leaves its screen, if it is mounted, without a spinner.
LEMMA StartOver ==
    ASSUME ScreensInv, NEW c \in calls, c.op = "start", NEW st,
           st = IF mounted(c.key) THEN put([screen(c.key) EXCEPT !.busy = FALSE]) ELSE stack
    PROVE  PhoneFine(st, opened, calls \ {c}) /\ Len(st) = Len(stack)
<1>1. CASE mounted(c.key)
  <2>1. PICK i \in DOMAIN stack : /\ screen(c.key) = stack[i] /\ stack[i].key = c.key
                                  /\ ScreenFine(stack[i]) /\ Awaits(stack[i], calls)
                                  /\ c.op \in OpsOf[stack[i].kind]
    BY <1>1, Caller
  <2> DEFINE t == stack[i]
             s == [t EXCEPT !.busy = FALSE]
  <2>2. t.kind = "sender" /\ FieldsOf["sender"] \subseteq DOMAIN t
    BY <2>1 DEF OpsOf, ScreenFine
  <2>3. /\ s.kind = "sender" /\ s.key = t.key /\ ~s.busy /\ DOMAIN s = DOMAIN t
        /\ s.quote = t.quote /\ s.preflight = t.preflight
    BY <2>2 DEF FieldsOf
  <2>4. ScreenFine(s)
    BY <2>1, <2>2, <2>3 DEF ScreenFine
  <2>5. st = put(s)
    BY <1>1, <2>1
  <2> HIDE DEF s
  <2>6. s.kind = stack[i].kind /\ s.key = c.key
    BY <2>1, <2>2, <2>3
  <2>7. PhoneFine(put(s), opened, calls \ {c}) /\ Len(put(s)) = Len(stack)
    BY <2>1, <2>3, <2>4, <2>6, AnswerShown
  <2> QED
    BY <2>5, <2>7
<1>2. CASE ~mounted(c.key)
  BY <1>2, Forgotten DEF ScreensInv
<1> QED
  BY <1>1, <1>2

LEMMA MintCodeKeeps ==
    ASSUME ScreensInv, NEW c \in calls, MintCode(c) PROVE ScreensKept /\ MintedFine'
<1> DEFINE idle == IF mounted(c.key) THEN put([screen(c.key) EXCEPT !.busy = FALSE])
                   ELSE stack
<1>1. PICK code \in Drawn :
          LET params == [claimCode |-> code, claimHash |-> hashClaimCode(code),
                         corridor |-> c.quote.corridor, amount |-> c.quote.amount,
                         dest |-> c.dest, address |-> c.address]
          IN  /\ minted' = minted \cup {[params |-> params, preflight |-> c.preflight]}
              /\ stack' = Append(idle, SenderClaimScreen(opened, params))
  BY DEF MintCode
<1> DEFINE params == [claimCode |-> code, claimHash |-> hashClaimCode(code),
                      corridor |-> c.quote.corridor, amount |-> c.quote.amount,
                      dest |-> c.dest, address |-> c.address]
           m == [params |-> params, preflight |-> c.preflight]
           s == SenderClaimScreen(opened, params)
<1>2. minted' = minted \cup {m} /\ stack' = Append(idle, s)
  BY <1>1
<1>3. c.op = "start" /\ opened' = opened + 1 /\ calls' = calls \ {c}
  BY DEF MintCode, done
<1>4. /\ SameTerms(m.params, m.preflight)
      /\ m.preflight.requiredTier = "NONE" /\ m.preflight.withinDailyLimit
  BY <1>3, CallIs DEF CallFine, SameTerms
<1>c. MintedCode(params) /\ m.params = params
  <2>1. code \in ClaimCodes
    BY CodesAreCodes
  <2>2. params.claimCode = code /\ params.claimHash = hashClaimCode(code)
    OBVIOUS
  <2> HIDE DEF params
  <2> QED
    BY <2>1, <2>2 DEF MintedCode
<1> HIDE DEF params
<1>5. s.key = opened /\ s.kind = "claim" /\ ScreenFine(s)
  <2>1. s.key = opened /\ s.kind = "claim" /\ s.params = params
        /\ DOMAIN s = {"kind", "key", "params"}
    BY DEF SenderClaimScreen
  <2> HIDE DEF s
  <2> QED
    BY <1>c, <2>1 DEF ScreenFine, OpsOf, FieldsOf
<1> HIDE DEF m, s
<1>6. PhoneFine(idle, opened, calls \ {c}) /\ Len(idle) = Len(stack)
  BY <1>3, StartOver
<1> HIDE DEF idle
<1>7. PhoneFine(Append(idle, s), opened + 1, calls \ {c})
  BY <1>5, <1>6, Opened
<1>8. Len(Append(idle, s)) > 0
  BY <1>6, AppendIs, StackEntries DEF PhoneFine
<1>9. MintedFine'
  <2>1. \A e \in minted' : e \in minted \/ e = m
    BY <1>2
  <2> QED
    BY <1>4, <1>c, <2>1 DEF MintedFine, ScreensInv
<1> QED
  BY <1>2, <1>3, <1>7, <1>8, <1>9 DEF ScreensKept

LEMMA StartFailsKeeps ==
    ASSUME ScreensInv, NEW c \in calls, StartFails(c) PROVE ScreensKept
<1>1. /\ c.op = "start" /\ calls' = calls \ {c} /\ opened' = opened
      /\ stack' = IF mounted(c.key) THEN put([screen(c.key) EXCEPT !.busy = FALSE]) ELSE stack
  BY DEF StartFails, done
<1> QED
  BY <1>1, StartOver DEF ScreensKept, ScreensInv

(* The status of a transfer. *)

LEMMA TransferStatusKeeps ==
    ASSUME ScreensInv, NEW c \in calls, TransferStatus(c) PROVE ScreensKept
<1>1. PICK a : /\ a = Failed \/ OnLedger(a)
               /\ calls' = (calls \ {c}) \cup {[c EXCEPT !.answer = a]}
  <2>1. CASE c.id \in TransferIds /\ \E t \in serialiseTransfer(c.id) : answered(c, t)
    <3>1. PICK t \in serialiseTransfer(c.id) : answered(c, t)
      BY <2>1
    <3>2. OnLedger(t)
      BY <2>1 DEF serialiseTransfer, OnLedger
    <3> QED
      BY <3>1, <3>2 DEF answered
  <2>2. CASE answered(c, Failed)
    BY <2>2 DEF answered
  <2> QED
    BY <2>1, <2>2 DEF TransferStatus
<1> DEFINE d == [c EXCEPT !.answer = a]
<1>2. CallFieldsOf["status"] \subseteq DOMAIN c /\ c.op = "status" /\ CallFine(c)
  BY CallIs DEF TransferStatus
<1>3. d.key = c.key /\ d.op = "status" /\ DOMAIN d = DOMAIN c /\ d.answer = a
  BY <1>2 DEF CallFieldsOf
<1>4. stack' = stack /\ opened' = opened
  BY DEF TransferStatus
<1> HIDE DEF d
<1>5. CallFine(d)
  BY <1>1, <1>2, <1>3 DEF CallFine
<1>6. PhoneFine(stack, opened, (calls \ {c}) \cup {d})
  BY <1>2, <1>3, <1>5, Replied DEF ScreensInv
<1> QED
  BY <1>1, <1>4, <1>6 DEF ScreensKept, ScreensInv, d

\* Re-arming the scanner's latch changes nothing else.
LEMMA RearmedIs ==
    ASSUME NEW old, NEW new, FieldsOf["agent"] \subseteq DOMAIN new
    PROVE  LET r == rearmed(old, new)
           IN  /\ DOMAIN r = DOMAIN new /\ r.kind = new.kind /\ r.key = new.key
               /\ r.busy = new.busy /\ r.transfer = new.transfer
               /\ r.verification = new.verification /\ r.checked = new.checked
               /\ r.code = new.code
  BY DEF rearmed, FieldsOf

LEMMA TypeTransferIdKeeps ==
    ASSUME ScreensInv, NEW id, TypeTransferId(id) PROVE ScreensKept
<1> DEFINE s == [top EXCEPT !.transferId = id]
<1>1. top.kind = "agent" /\ FieldsOf["agent"] \subseteq DOMAIN top
  BY TopFields DEF TypeTransferId
<1>2. /\ s.kind = "agent" /\ s.key = top.key /\ s.busy = top.busy /\ DOMAIN s = DOMAIN top
      /\ s.threw = top.threw
      /\ s.transfer = top.transfer /\ s.verification = top.verification
      /\ s.checked = top.checked /\ s.code = top.code
  BY <1>1 DEF FieldsOf
<1>3. ScreenFine(s)
  BY <1>1, <1>2, TopIs DEF ScreenFine
<1>4. stack' = put(s) /\ opened' = opened /\ calls' = calls
  BY DEF TypeTransferId, shown
<1> HIDE DEF s
<1> QED
  BY <1>1, <1>2, <1>3, <1>4, Edited DEF ScreensKept

LEMMA TypeCodeKeeps ==
    ASSUME ScreensInv, NEW raw \in Inputs, TypeCode(raw) PROVE ScreensKept
<1> DEFINE s == [top EXCEPT !.code = raw]
<1>1. top.kind = "agent" /\ FieldsOf["agent"] \subseteq DOMAIN top
  BY TopFields DEF TypeCode
<1>2. /\ s.kind = "agent" /\ s.key = top.key /\ s.busy = top.busy /\ DOMAIN s = DOMAIN top
      /\ s.threw = top.threw
      /\ s.transfer = top.transfer /\ s.verification = top.verification
      /\ s.checked = top.checked /\ s.code = raw
  BY <1>1 DEF FieldsOf
<1>3. ScreenFine(s)
  BY <1>1, <1>2, TopIs, InputsAreInCharacters DEF ScreenFine
<1>4. stack' = put(s) /\ opened' = opened /\ calls' = calls
  BY DEF TypeCode, shown
<1> HIDE DEF s
<1> QED
  BY <1>1, <1>2, <1>3, <1>4, Edited DEF ScreensKept

LEMMA HandleScanKeeps ==
    ASSUME ScreensInv, NEW payload \in Inputs, handleScan(payload) PROVE ScreensKept
<1> DEFINE s == [top EXCEPT !.code = normaliseClaimCode(payload), !.handled = TRUE]
<1>1. top.kind = "agent" /\ FieldsOf["agent"] \subseteq DOMAIN top
  BY TopFields DEF handleScan
<1>2. /\ s.kind = "agent" /\ s.key = top.key /\ s.busy = top.busy /\ DOMAIN s = DOMAIN top
      /\ s.threw = top.threw
      /\ s.transfer = top.transfer /\ s.verification = top.verification
      /\ s.checked = top.checked
      /\ s.code = normaliseClaimCode(payload)
  BY <1>1 DEF FieldsOf
<1>3. ScreenFine(s)
  <2>1. normaliseClaimCode(payload) \in Seq(Characters)
    BY InputsAreInCharacters, NormalisedIs
  <2> QED
    BY <1>1, <1>2, <2>1, TopIs DEF ScreenFine
<1>4. stack' = put(s) /\ opened' = opened /\ calls' = calls
  BY DEF handleScan, shown
<1> HIDE DEF s
<1> QED
  BY <1>1, <1>2, <1>3, <1>4, Edited DEF ScreensKept

LEMMA ResetKeeps ==
    ASSUME ScreensInv, reset PROVE ScreensKept
<1> DEFINE s == [top EXCEPT !.code = <<>>, !.transfer = Null, !.verification = Null]
<1>1. top.kind = "agent" /\ FieldsOf["agent"] \subseteq DOMAIN top
  BY TopFields DEF reset
<1>2. /\ s.kind = "agent" /\ s.key = top.key /\ s.busy = top.busy /\ DOMAIN s = DOMAIN top
      /\ s.threw = top.threw
      /\ s.transfer = Null /\ s.verification = Null /\ s.code = <<>>
  BY <1>1 DEF FieldsOf
<1>3. ScreenFine(s)
  <2>1. <<>> \in Seq(Characters)
    OBVIOUS
  <2> QED
    BY <1>1, <1>2, <2>1, TopIs DEF ScreenFine
<1>4. stack' = put(s) /\ opened' = opened /\ calls' = calls
  BY DEF reset, shown
<1> HIDE DEF s
<1> QED
  BY <1>1, <1>2, <1>3, <1>4, Edited DEF ScreensKept

LEMMA LoadTransferKeeps ==
    ASSUME ScreensInv, loadTransfer PROVE ScreensKept
<1> DEFINE u == [top EXCEPT !.busy = TRUE, !.verification = Null]
           s == rearmed(top, u)
           c == [no |-> free, op |-> "status", key |-> top.key, id |-> top.transferId,
                 answer |-> Null]
<1>1. top.kind = "agent" /\ FieldsOf["agent"] \subseteq DOMAIN top /\ ~top.busy
  BY TopFields DEF loadTransfer
<1>2. /\ u.kind = "agent" /\ u.key = top.key /\ u.busy /\ DOMAIN u = DOMAIN top
      /\ u.transfer = top.transfer /\ u.verification = Null /\ u.code = top.code
  BY <1>1 DEF FieldsOf
<1>3. CallFine(c) /\ c.key = top.key /\ c.op = "status" /\ c.op \in OpsOf["agent"]
  BY DEF CallFine, CallFieldsOf, OpsOf
<1>4. stack' = put(s) /\ opened' = opened /\ calls' = calls \cup {c}
  BY DEF loadTransfer, shown, askStatus, call
<1> HIDE DEF u, c
<1>5. /\ s.kind = "agent" /\ s.key = top.key /\ s.busy /\ DOMAIN s = DOMAIN top
      /\ s.transfer = top.transfer /\ s.verification = Null /\ s.code = top.code
  BY <1>1, <1>2, RearmedIs
<1> HIDE DEF s
<1>6. ScreenFine(s)
  BY <1>1, <1>5, TopIs, NullIsNoAnswer DEF ScreenFine
<1> QED
  BY <1>1, <1>3, <1>4, <1>5, <1>6, Asked, NullIsNoAnswer DEF ScreensKept

LEMMA TransferLoadedKeeps ==
    ASSUME ScreensInv, NEW c \in calls, TransferLoaded(c) PROVE ScreensKept
<1>1. /\ c.op = "status" /\ calls' = calls \ {c} /\ opened' = opened
      /\ c.answer # Null
  BY DEF TransferLoaded, done
<1>2. PICK i \in DOMAIN stack : /\ screen(c.key) = stack[i] /\ stack[i].key = c.key
                                /\ ScreenFine(stack[i]) /\ Awaits(stack[i], calls)
  BY <1>1, Caller DEF Outliving
<1> DEFINE t == stack[i]
           u == [t EXCEPT !.busy = FALSE,
                          !.transfer = IF c.answer = Failed THEN Null ELSE c.answer]
           s == rearmed(t, u)
<1>3. t.kind = "agent" /\ FieldsOf["agent"] \subseteq DOMAIN t
  BY <1>2 DEF TransferLoaded, ScreenFine
<1>4. /\ u.kind = "agent" /\ u.key = t.key /\ ~u.busy /\ DOMAIN u = DOMAIN t
      /\ u.transfer = (IF c.answer = Failed THEN Null ELSE c.answer)
      /\ u.verification = t.verification /\ u.code = t.code
  BY <1>3 DEF FieldsOf
<1>5. t.verification # "matches"
  BY <1>1, <1>2, <1>3 DEF Awaits
<1>6. u.transfer = Null \/ OnLedger(u.transfer)
  BY <1>1, <1>4, CallIs DEF CallFine
<1>7. stack' = put(s)
  BY <1>2 DEF TransferLoaded, shown
<1> HIDE DEF u
<1>8. /\ s.kind = "agent" /\ s.key = t.key /\ ~s.busy /\ DOMAIN s = DOMAIN t
      /\ s.transfer = u.transfer /\ s.verification = t.verification
      /\ s.code = t.code
  BY <1>3, <1>4, RearmedIs
<1> HIDE DEF s
<1>9. ScreenFine(s)
  BY <1>2, <1>3, <1>5, <1>6, <1>8 DEF ScreenFine
<1>10. PhoneFine(put(s), opened, calls \ {c}) /\ Len(put(s)) = Len(stack)
  BY <1>2, <1>3, <1>8, <1>9, AnswerShown
<1> QED
  BY <1>1, <1>7, <1>10 DEF ScreensKept, ScreensInv

LEMMA CheckKeeps ==
    ASSUME ScreensInv, check PROVE ScreensKept
<1> DEFINE s == [top EXCEPT !.busy = TRUE]
           c == [no |-> free, op |-> "check", key |-> top.key, code |-> top.code,
                 claimHash |-> top.transfer.claimHash]
<1>1. top.kind = "agent" /\ FieldsOf["agent"] \subseteq DOMAIN top /\ ~top.busy
  BY TopFields DEF check
<1>2. /\ s.kind = "agent" /\ s.key = top.key /\ s.busy /\ DOMAIN s = DOMAIN top
      /\ s.transfer = top.transfer /\ s.verification = top.verification
      /\ s.checked = top.checked /\ s.code = top.code
  BY <1>1 DEF FieldsOf
<1>3. ScreenFine(s)
  BY <1>1, <1>2, TopIs DEF ScreenFine
<1>4. /\ CallFine(c) /\ c.key = top.key /\ c.op = "check" /\ c.op \in OpsOf["agent"]
      /\ c.claimHash = top.transfer.claimHash
  BY <1>1, TopIs DEF CallFine, CallFieldsOf, OpsOf, ScreenFine
<1>5. stack' = put(s) /\ opened' = opened /\ calls' = calls \cup {c}
  BY DEF check, shown, call
<1> HIDE DEF s, c
<1> QED
  BY <1>1, <1>2, <1>3, <1>4, <1>5, Asked DEF ScreensKept

LEMMA CodeCheckedKeeps ==
    ASSUME ScreensInv, NEW c \in calls, CodeChecked(c) PROVE ScreensKept
<1>1. c.op = "check" /\ calls' = calls \ {c} /\ opened' = opened
  BY DEF CodeChecked, done
<1>2. PICK i \in DOMAIN stack : /\ screen(c.key) = stack[i] /\ stack[i].key = c.key
                                /\ ScreenFine(stack[i]) /\ Awaits(stack[i], calls)
                                /\ c.op \in OpsOf[stack[i].kind]
  BY <1>1, Caller DEF Outliving
<1> DEFINE t == stack[i]
           v == verifyClaimCode(normaliseClaimCode(c.code), c.claimHash)
           u == [t EXCEPT !.verification = v, !.checked = c.code, !.busy = FALSE]
           s == rearmed(t, u)
<1>3. t.kind = "agent" /\ FieldsOf["agent"] \subseteq DOMAIN t
  BY <1>1, <1>2 DEF OpsOf, ScreenFine
<1>4. stack' = put(s)
  BY <1>2 DEF CodeChecked, shown
<1>5. v = "matches" => Verified(c.code, c.claimHash)
  BY <1>1, CallIs DEF CallFine, Verified
<1> HIDE DEF v
<1>6. /\ u.kind = "agent" /\ u.key = t.key /\ ~u.busy /\ DOMAIN u = DOMAIN t
      /\ u.transfer = t.transfer /\ u.verification = v /\ u.checked = c.code
      /\ u.code = t.code
  BY <1>3 DEF FieldsOf
<1>7. t.transfer = Null \/ t.transfer.claimHash = c.claimHash
  BY <1>1, <1>2, <1>3 DEF Awaits
<1> HIDE DEF u
<1>8. /\ s.kind = "agent" /\ s.key = t.key /\ ~s.busy /\ DOMAIN s = DOMAIN t
      /\ s.transfer = t.transfer /\ s.verification = v /\ s.checked = c.code
      /\ s.code = t.code
  BY <1>3, <1>6, RearmedIs
<1> HIDE DEF s
<1>9. ScreenFine(s)
  BY <1>2, <1>3, <1>5, <1>7, <1>8 DEF ScreenFine
<1>10. PhoneFine(put(s), opened, calls \ {c}) /\ Len(put(s)) = Len(stack)
  BY <1>2, <1>3, <1>8, <1>9, AnswerShown
<1> QED
  BY <1>1, <1>4, <1>10 DEF ScreensKept, ScreensInv

LEMMA CodeCheckThrowsKeeps ==
    ASSUME ScreensInv, NEW c \in calls, CodeCheckThrows(c) PROVE ScreensKept
<1>1. c.op = "check" /\ calls' = calls \ {c} /\ opened' = opened
  BY DEF CodeCheckThrows, done
<1>2. PICK i \in DOMAIN stack : /\ screen(c.key) = stack[i] /\ stack[i].key = c.key
                                /\ ScreenFine(stack[i]) /\ Awaits(stack[i], calls)
                                /\ c.op \in OpsOf[stack[i].kind]
  BY <1>1, Caller DEF Outliving
<1> DEFINE t == stack[i]
           s == [t EXCEPT !.threw = TRUE]
<1>3. t.kind = "agent" /\ FieldsOf["agent"] \subseteq DOMAIN t
  BY <1>1, <1>2 DEF OpsOf, ScreenFine
<1>4. stack' = put(s)
  BY <1>2 DEF CodeCheckThrows, shown
<1>5. /\ s.kind = "agent" /\ s.key = t.key /\ s.threw /\ DOMAIN s = DOMAIN t
      /\ s.transfer = t.transfer /\ s.verification = t.verification
      /\ s.checked = t.checked /\ s.code = t.code
  BY <1>3 DEF FieldsOf
<1> HIDE DEF s
<1>6. ScreenFine(s)
  BY <1>2, <1>3, <1>5 DEF ScreenFine
<1>7. PhoneFine(put(s), opened, calls \ {c}) /\ Len(put(s)) = Len(stack)
  BY <1>2, <1>3, <1>5, <1>6, AnswerShown
<1> QED
  BY <1>1, <1>4, <1>7 DEF ScreensKept, ScreensInv

LEMMA FollowTransferKeeps ==
    ASSUME ScreensInv, NEW id, FollowTransfer(id) PROVE ScreensKept
<1> DEFINE s == [top EXCEPT !.transferId = id, !.busy = TRUE]
           u == [top EXCEPT !.transferId = id]
           c == [no |-> free, op |-> "status", key |-> top.key, id |-> id, answer |-> Null]
<1>1. top.kind = "recipient" /\ FieldsOf["recipient"] \subseteq DOMAIN top
  BY TopFields DEF FollowTransfer
<1>2. /\ s.kind = "recipient" /\ s.key = top.key /\ s.busy /\ DOMAIN s = DOMAIN top
      /\ u.kind = "recipient" /\ u.key = top.key /\ u.busy = top.busy
      /\ DOMAIN u = DOMAIN top
  BY <1>1 DEF FieldsOf
<1>3. ScreenFine(s) /\ ScreenFine(u)
  BY <1>1, <1>2, TopIs DEF ScreenFine
<1>4. CallFine(c) /\ c.key = top.key /\ c.op = "status" /\ c.op \in OpsOf["recipient"]
  BY DEF CallFine, CallFieldsOf, OpsOf
<1>5. /\ opened' = opened
      /\ \/ stack' = put(s) /\ calls' = calls \cup {c}
         \/ stack' = put(u) /\ calls' = calls
  BY DEF FollowTransfer, shown, askStatus, call
<1> HIDE DEF s, u, c
<1>6. PhoneFine(put(s), opened, calls \cup {c}) /\ Len(put(s)) > 0
  BY <1>1, <1>2, <1>3, <1>4, Asked
<1>7. PhoneFine(put(u), opened, calls) /\ Len(put(u)) > 0
  BY <1>1, <1>2, <1>3, Edited
<1> QED
  BY <1>5, <1>6, <1>7 DEF ScreensKept

LEMMA CheckStatusKeeps ==
    ASSUME ScreensInv, checkStatus PROVE ScreensKept
<1> DEFINE s == [top EXCEPT !.busy = TRUE]
           u == [top EXCEPT !.transfer = Null]
           c == [no |-> free, op |-> "status", key |-> top.key, id |-> top.transferId,
                 answer |-> Null]
<1>1. top.kind = "recipient" /\ FieldsOf["recipient"] \subseteq DOMAIN top
  BY TopFields DEF checkStatus
<1>2. /\ s.kind = "recipient" /\ s.key = top.key /\ s.busy /\ DOMAIN s = DOMAIN top
      /\ u.kind = "recipient" /\ u.key = top.key /\ u.busy = top.busy
      /\ DOMAIN u = DOMAIN top
  BY <1>1 DEF FieldsOf
<1>3. ScreenFine(s) /\ ScreenFine(u)
  BY <1>1, <1>2, TopIs DEF ScreenFine
<1>4. CallFine(c) /\ c.key = top.key /\ c.op = "status" /\ c.op \in OpsOf["recipient"]
  BY DEF CallFine, CallFieldsOf, OpsOf
<1>5. /\ opened' = opened
      /\ \/ stack' = put(s) /\ calls' = calls \cup {c}
         \/ stack' = put(u) /\ calls' = calls
  BY DEF checkStatus, shown, askStatus, call
<1> HIDE DEF s, u, c
<1>6. PhoneFine(put(s), opened, calls \cup {c}) /\ Len(put(s)) > 0
  BY <1>1, <1>2, <1>3, <1>4, Asked
<1>7. PhoneFine(put(u), opened, calls) /\ Len(put(u)) > 0
  BY <1>1, <1>2, <1>3, Edited
<1> QED
  BY <1>5, <1>6, <1>7 DEF ScreensKept

LEMMA StatusLoadedKeeps ==
    ASSUME ScreensInv, NEW c \in calls, StatusLoaded(c) PROVE ScreensKept
<1>1. c.op = "status" /\ calls' = calls \ {c} /\ opened' = opened
  BY DEF StatusLoaded, done
<1>2. PICK i \in DOMAIN stack : /\ screen(c.key) = stack[i] /\ stack[i].key = c.key
                                /\ ScreenFine(stack[i])
  BY <1>1, Caller DEF Outliving
<1> DEFINE t == stack[i]
           s == [t EXCEPT !.busy = FALSE,
                          !.transfer = IF c.answer = Failed THEN Null ELSE c.answer]
<1>3. t.kind = "recipient" /\ FieldsOf["recipient"] \subseteq DOMAIN t
  BY <1>2 DEF StatusLoaded, ScreenFine
<1>4. s.kind = "recipient" /\ s.key = c.key /\ ~s.busy /\ DOMAIN s = DOMAIN t
  BY <1>2, <1>3 DEF FieldsOf
<1>5. ScreenFine(s)
  BY <1>2, <1>3, <1>4 DEF ScreenFine
<1>6. stack' = put(s)
  BY <1>2 DEF StatusLoaded, shown
<1> HIDE DEF s
<1>7. PhoneFine(put(s), opened, calls \ {c}) /\ Len(put(s)) = Len(stack)
  <2>1. s.kind = stack[i].kind /\ s.key = c.key /\ ~s.busy
    BY <1>3, <1>4
  <2>2. i \in DOMAIN stack /\ stack[i].key = c.key
    BY <1>2
  <2> HIDE DEF t
  <2> QED
    BY <2>1, <2>2, <1>5, AnswerShown
<1> QED
  BY <1>1, <1>6, <1>7 DEF ScreensKept, ScreensInv

(* Float. *)

LEMMA TypeAgentIdKeeps ==
    ASSUME ScreensInv, NEW a, TypeAgentId(a) PROVE ScreensKept
<1> DEFINE s == [top EXCEPT !.agentId = a]
<1>1. top.kind = "float" /\ FieldsOf["float"] \subseteq DOMAIN top
  BY TopFields DEF TypeAgentId
<1>2. /\ s.kind = "float" /\ s.key = top.key /\ s.busy = top.busy /\ DOMAIN s = DOMAIN top
  BY <1>1 DEF FieldsOf
<1>3. ScreenFine(s)
  BY <1>1, <1>2, TopIs DEF ScreenFine
<1>4. stack' = put(s) /\ opened' = opened /\ calls' = calls
  BY DEF TypeAgentId, shown
<1> HIDE DEF s
<1> QED
  BY <1>1, <1>2, <1>3, <1>4, Edited DEF ScreensKept

LEMMA LoadAgentKeeps ==
    ASSUME ScreensInv, loadAgent PROVE ScreensKept
<1> DEFINE s == [top EXCEPT !.busy = TRUE, !.submitted = Null]
           c == [no |-> free, op |-> "agent", key |-> top.key, agent |-> top.agentId,
                 answer |-> Null]
<1>1. top.kind = "float" /\ FieldsOf["float"] \subseteq DOMAIN top
  BY TopFields DEF loadAgent
<1>2. s.kind = "float" /\ s.key = top.key /\ s.busy /\ DOMAIN s = DOMAIN top
  BY <1>1 DEF FieldsOf
<1>3. ScreenFine(s)
  BY <1>1, <1>2, TopIs DEF ScreenFine
<1>4. CallFine(c) /\ c.key = top.key /\ c.op = "agent" /\ c.op \in OpsOf["float"]
  BY DEF CallFine, CallFieldsOf, OpsOf
<1>5. stack' = put(s) /\ opened' = opened /\ calls' = calls \cup {c}
  BY DEF loadAgent, shown, call
<1> HIDE DEF s, c
<1> QED
  BY <1>1, <1>2, <1>3, <1>4, <1>5, Asked DEF ScreensKept

LEMMA AgentDetailKeeps ==
    ASSUME ScreensInv, NEW c \in calls, AgentDetail(c) PROVE ScreensKept
<1>1. PICK a : calls' = (calls \ {c}) \cup {[c EXCEPT !.answer = a]}
  BY DEF AgentDetail, answered
<1> DEFINE d == [c EXCEPT !.answer = a]
<1>2. CallFieldsOf["agent"] \subseteq DOMAIN c /\ c.op = "agent"
  BY CallIs DEF AgentDetail
<1>3. d.key = c.key /\ d.op = "agent" /\ DOMAIN d = DOMAIN c
  BY <1>2 DEF CallFieldsOf
<1>4. CallFine(d)
  BY <1>2, <1>3 DEF CallFine, CallFieldsOf
<1>5. stack' = stack /\ opened' = opened
  BY DEF AgentDetail
<1> HIDE DEF d
<1>6. PhoneFine(stack, opened, (calls \ {c}) \cup {d})
  BY <1>2, <1>3, <1>4, Replied DEF ScreensInv
<1> QED
  BY <1>1, <1>5, <1>6 DEF ScreensKept, ScreensInv, d

LEMMA AgentLoadedKeeps ==
    ASSUME ScreensInv, NEW c \in calls, AgentLoaded(c) PROVE ScreensKept
<1>1. c.op = "agent" /\ calls' = calls \ {c} /\ opened' = opened
  BY DEF AgentLoaded, done
<1>2. PICK i \in DOMAIN stack : /\ screen(c.key) = stack[i] /\ stack[i].key = c.key
                                /\ ScreenFine(stack[i]) /\ c.op \in OpsOf[stack[i].kind]
  BY <1>1, Caller DEF Outliving
<1> DEFINE t == stack[i]
           s == [t EXCEPT !.busy = FALSE,
                          !.agent = IF c.answer = Failed THEN Null ELSE c.answer]
<1>3. t.kind = "float" /\ FieldsOf["float"] \subseteq DOMAIN t
  BY <1>1, <1>2 DEF OpsOf, ScreenFine
<1>4. s.kind = "float" /\ s.key = c.key /\ ~s.busy /\ DOMAIN s = DOMAIN t
  BY <1>2, <1>3 DEF FieldsOf
<1>5. ScreenFine(s)
  BY <1>2, <1>3, <1>4 DEF ScreenFine
<1>6. stack' = put(s)
  BY <1>2 DEF AgentLoaded, shown
<1> HIDE DEF s
<1>7. s.kind = stack[i].kind
  BY <1>3, <1>4
<1> HIDE DEF t
<1>8. PhoneFine(put(s), opened, calls \ {c}) /\ Len(put(s)) = Len(stack)
  BY <1>2, <1>4, <1>5, <1>7, AnswerShown
<1> QED
  BY <1>1, <1>6, <1>8 DEF ScreensKept, ScreensInv

LEMMA FillRequestKeeps ==
    ASSUME ScreensInv, NEW a, NEW given, FillRequest(a, given) PROVE ScreensKept
<1> DEFINE s == [top EXCEPT !.amount = a, !.reasonGiven = given]
<1>1. top.kind = "float" /\ FieldsOf["float"] \subseteq DOMAIN top
  BY TopFields DEF FillRequest
<1>2. /\ s.kind = "float" /\ s.key = top.key /\ s.busy = top.busy /\ DOMAIN s = DOMAIN top
  BY <1>1 DEF FieldsOf
<1>3. ScreenFine(s)
  BY <1>1, <1>2, TopIs DEF ScreenFine
<1>4. stack' = put(s) /\ opened' = opened /\ calls' = calls
  BY DEF FillRequest, shown
<1> HIDE DEF s
<1> QED
  BY <1>1, <1>2, <1>3, <1>4, Edited DEF ScreensKept

LEMMA RequestTopUpKeeps ==
    ASSUME ScreensInv, requestTopUp PROVE ScreensKept
<1> DEFINE s == [top EXCEPT !.busy = TRUE]
           c == [no |-> free, op |-> "topup", key |-> top.key, agent |-> top.agent,
                 amount |-> top.amount, answer |-> Null]
<1>1. top.kind = "float" /\ FieldsOf["float"] \subseteq DOMAIN top
  BY TopFields DEF requestTopUp
<1>2. s.kind = "float" /\ s.key = top.key /\ s.busy /\ DOMAIN s = DOMAIN top
  BY <1>1 DEF FieldsOf
<1>3. ScreenFine(s)
  BY <1>1, <1>2, TopIs DEF ScreenFine
<1>4. CallFine(c) /\ c.key = top.key /\ c.op = "topup" /\ c.op \in OpsOf["float"]
  BY DEF CallFine, CallFieldsOf, OpsOf
<1>5. stack' = put(s) /\ opened' = opened /\ calls' = calls \cup {c}
  BY DEF requestTopUp, shown, call
<1> HIDE DEF s, c
<1> QED
  BY <1>1, <1>2, <1>3, <1>4, <1>5, Asked DEF ScreensKept

LEMMA ProposeTopUpKeeps ==
    ASSUME ScreensInv, NEW c \in calls, ProposeTopUp(c) PROVE ScreensKept
<1>1. PICK a : calls' = (calls \ {c}) \cup {[c EXCEPT !.answer = a]}
  BY DEF ProposeTopUp, answered
<1> DEFINE d == [c EXCEPT !.answer = a]
<1>2. CallFieldsOf["topup"] \subseteq DOMAIN c /\ c.op = "topup"
  BY CallIs DEF ProposeTopUp
<1>3. d.key = c.key /\ d.op = "topup" /\ DOMAIN d = DOMAIN c
  BY <1>2 DEF CallFieldsOf
<1>4. CallFine(d)
  BY <1>2, <1>3 DEF CallFine, CallFieldsOf
<1>5. stack' = stack /\ opened' = opened
  BY DEF ProposeTopUp
<1> HIDE DEF d
<1>6. PhoneFine(stack, opened, (calls \ {c}) \cup {d})
  BY <1>2, <1>3, <1>4, Replied DEF ScreensInv
<1> QED
  BY <1>1, <1>5, <1>6 DEF ScreensKept, ScreensInv, d

LEMMA TopUpRequestedKeeps ==
    ASSUME ScreensInv, NEW c \in calls, TopUpRequested(c) PROVE ScreensKept
<1>1. c.op = "topup" /\ calls' = calls \ {c} /\ opened' = opened
  BY DEF TopUpRequested, done
<1>2. CASE ~mounted(c.key)
  <2>1. stack' = stack
    BY <1>2 DEF TopUpRequested
  <2> QED
    BY <1>1, <1>2, <2>1, Forgotten DEF ScreensKept, ScreensInv
<1>3. CASE mounted(c.key)
  <2>1. PICK i \in DOMAIN stack : /\ screen(c.key) = stack[i] /\ stack[i].key = c.key
                                  /\ ScreenFine(stack[i]) /\ c.op \in OpsOf[stack[i].kind]
    BY <1>3, Caller
  <2> DEFINE t == stack[i]
             u == [t EXCEPT !.busy = FALSE]
             v == [u EXCEPT !.submitted = c.answer, !.amount = Null, !.reasonGiven = FALSE]
  <2>2. t.kind = "float" /\ FieldsOf["float"] \subseteq DOMAIN t
    BY <1>1, <2>1 DEF OpsOf, ScreenFine
  <2>3. PICK s : (s = u \/ s = v) /\ stack' = put(s)
    BY <1>3, <2>1 DEF TopUpRequested, shown
  <2>4. s.kind = "float" /\ s.key = c.key /\ ~s.busy /\ DOMAIN s = DOMAIN t
    BY <2>1, <2>2, <2>3 DEF FieldsOf
  <2>5. ScreenFine(s)
    BY <2>1, <2>2, <2>4 DEF ScreenFine
  <2>6. PhoneFine(put(s), opened, calls \ {c}) /\ Len(put(s)) = Len(stack)
    BY <2>1, <2>2, <2>4, <2>5, AnswerShown
  <2> QED
    BY <1>1, <2>3, <2>6 DEF ScreensKept, ScreensInv
<1> QED
  BY <1>2, <1>3

-----------------------------------------------------------------------------
(* The screens, in every state. *)

LEMMA ScreensInvInit == PhoneInit => ScreensInv
<1> SUFFICES ASSUME PhoneInit PROVE ScreensInv
  OBVIOUS
<1> DEFINE s == HomeScreen(0)
           st == <<s>>
<1>1. stack = st /\ opened = 1 /\ calls = {} /\ minted = {}
  BY DEF PhoneInit
<1>2. s.key = 0 /\ s.kind = "home" /\ ScreenFine(s)
  BY DEF HomeScreen, ScreenFine, OpsOf, FieldsOf
<1>3. Awaits(s, {})
  BY <1>2 DEF Awaits
<1> HIDE DEF s
<1>4. st \in Seq({s}) /\ DOMAIN st = 1..1 /\ Len(st) = 1
  OBVIOUS
<1>5. IsStack(st)
  BY <1>4 DEF IsStack
<1>6. \A i \in DOMAIN st : i = 1 /\ st[i] = s
  BY <1>4
<1> HIDE DEF st
<1>7. PhoneFine(st, 1, {})
  BY <1>2, <1>3, <1>5, <1>6 DEF PhoneFine
<1> QED
  BY <1>1, <1>4, <1>7 DEF ScreensInv, MintedFine

\* Of all steps only MintCode adds a code.
LEMMA MintedStays ==
    ASSUME [PhoneNext]_phoneVars, ~\E c \in calls : MintCode(c)
    PROVE  minted' = minted
<1>1. CASE Tap
  BY <1>1 DEF Tap, OpenSender, OpenRecipient, OpenAgent, OpenFloat, Push, Back, LeaveClaim,
     Replace, ChooseCorridor, TypeAmount, loadQuote, startTransfer, TypeTransferId,
     FollowTransfer, TypeCode, handleScan, loadTransfer, check, reset, checkStatus,
     TypeAgentId, FillRequest, loadAgent, requestTopUp
<1>2. ASSUME NEW c \in calls, Proceed(c) PROVE minted' = minted
  BY <1>2 DEF Proceed, ListCorridors, CorridorsLoaded, Quote, Preflight, QuoteLoaded,
     EnsureRead, EnsureWrite, StartFails, TransferStatus, TransferLoaded, StatusLoaded,
     CodeChecked, CodeCheckThrows, AgentDetail, AgentLoaded, ProposeTopUp, TopUpRequested
<1>3. CASE Killed
  BY <1>3 DEF Killed
<1>4. CASE UNCHANGED phoneVars
  BY <1>4 DEF phoneVars
<1> QED
  BY <1>1, <1>2, <1>3, <1>4 DEF PhoneNext

LEMMA ScreensStep ==
    ASSUME ScreensInv, [PhoneNext]_phoneVars PROVE ScreensKept
<1>1. CASE Tap
  <2>1. ASSUME NEW r, ChooseCorridor(r) PROVE ScreensKept
    BY <2>1, ChooseCorridorKeeps
  <2>2. ASSUME NEW a, TypeAmount(a) PROVE ScreensKept
    BY <2>2, TypeAmountKeeps
  <2>3. ASSUME NEW id, TypeTransferId(id) \/ FollowTransfer(id) PROVE ScreensKept
    BY <2>3, TypeTransferIdKeeps, FollowTransferKeeps
  <2>4. ASSUME NEW raw \in Inputs, TypeCode(raw) \/ handleScan(raw) PROVE ScreensKept
    BY <2>4, TypeCodeKeeps, HandleScanKeeps
  <2>5. ASSUME NEW a, TypeAgentId(a) PROVE ScreensKept
    BY <2>5, TypeAgentIdKeeps
  <2>6. ASSUME NEW a, NEW given, FillRequest(a, given) PROVE ScreensKept
    BY <2>6, FillRequestKeeps
  <2> QED
    BY <1>1, <2>1, <2>2, <2>3, <2>4, <2>5, <2>6, OpeningKeeps, BackKeeps, LeaveClaimKeeps,
       LoadQuoteKeeps, StartTransferKeeps, LoadTransferKeeps, CheckKeeps, ResetKeeps,
       CheckStatusKeeps, LoadAgentKeeps, RequestTopUpKeeps
       DEF Tap
<1>2. ASSUME NEW c \in calls, Proceed(c) PROVE ScreensKept
  <2>1. CASE EnsureRead(c) \/ EnsureWrite(c)
    <3>1. /\ c.op = "start" /\ stack' = stack /\ opened' = opened
          /\ \E step, address :
                \/ calls' = (calls \ {c}) \cup {[c EXCEPT !.step = step, !.address = address]}
                \/ calls' = (calls \ {c}) \cup {[c EXCEPT !.step = step]}
      BY <2>1 DEF EnsureRead, EnsureWrite
    <3> QED
      BY <3>1, StartGoesOn
  <2> QED
    BY <1>2, <2>1, ListCorridorsKeeps, CorridorsLoadedKeeps, QuoteKeeps, PreflightKeeps,
       QuoteLoadedKeeps, MintCodeKeeps, StartFailsKeeps, TransferStatusKeeps,
       TransferLoadedKeeps, StatusLoadedKeeps, CodeCheckedKeeps, CodeCheckThrowsKeeps,
       AgentDetailKeeps,
       AgentLoadedKeeps, ProposeTopUpKeeps, TopUpRequestedKeeps
       DEF Proceed
<1>3. CASE Killed
  BY <1>3, KilledKeeps
<1>4. CASE UNCHANGED phoneVars
  <2>1. stack' = stack /\ opened' = opened /\ calls' = calls
    BY <1>4 DEF phoneVars
  <2> QED
    BY <2>1 DEF ScreensKept, ScreensInv
<1> QED
  BY <1>1, <1>2, <1>3, <1>4 DEF PhoneNext

LEMMA ScreensInvStep ==
    ASSUME ScreensInv, [PhoneNext]_phoneVars PROVE ScreensInv'
<1>1. MintedFine'
  <2>1. CASE \E c \in calls : MintCode(c)
    BY <2>1, MintCodeKeeps
  <2>2. CASE ~\E c \in calls : MintCode(c)
    <3>1. minted' = minted
      BY <2>2, MintedStays
    <3> QED
      BY <3>1 DEF MintedFine, ScreensInv
  <2> QED
    BY <2>1, <2>2
<1>2. PhoneFine(stack', opened', calls') /\ Len(stack') > 0
  BY ScreensStep DEF ScreensKept
<1> QED
  BY <1>1, <1>2 DEF ScreensInv

LEMMA ScreensInvHolds == PhoneSpec => []ScreensInv
<1>1. ScreensInv /\ [PhoneNext]_phoneVars => ScreensInv'
  BY ScreensInvStep
<1> QED
  BY <1>1, ScreensInvInit, PTL DEF PhoneSpec

\* A payout that the agent's screen shows as matching is for the code of the
\* transfer beside it (agent/index.tsx): for any screens, calls and answers in any
\* order, any texts typed or scanned, any alphabet and length of a code.
THEOREM MatchesAreTrue == PhoneSpec => []MatchTellsTruth
<1>1. ScreensInv => MatchTellsTruth
  <2> SUFFICES ASSUME ScreensInv, NEW i \in DOMAIN stack, stack[i].kind = "agent",
                      payable(stack[i]), stack[i].verification = "matches"
               PROVE  /\ isWellFormedClaimCode(stack[i].checked)
                      /\ normaliseClaimCode(stack[i].checked) = LedgerCodes[stack[i].transfer.id]
    BY DEF MatchTellsTruth
  <2> DEFINE s == stack[i]
             code == LedgerCodes[s.transfer.id]
  <2>1. ScreenFine(s) /\ s.transfer # Null
    BY DEF ScreensInv, PhoneFine, payable
  <2>2. OnLedger(s.transfer) /\ Verified(s.checked, s.transfer.claimHash)
    BY <2>1 DEF ScreenFine
  <2>3. code \in ClaimCodes /\ s.transfer.claimHash = hashClaimCode(code)
    BY <2>2, CodesAreCodes DEF OnLedger, TransferIds
  <2> HIDE DEF s, code
  <2>4. isWellFormedClaimCode(s.checked) /\ normaliseClaimCode(s.checked) = code
    BY <2>2, <2>3, MatchIsTheCode
  <2> QED
    BY <2>4 DEF s, code
<1> QED
  BY <1>1, ScreensInvHolds, PTL

\* A claim code is drawn only for a corridor and an amount that the backend cleared
\* (sender/index.tsx), whatever was edited while the answers were on their way.
THEOREM CodesAreCleared == PhoneSpec => []CodeOnlyWhenCleared
<1>1. ScreensInv => CodeOnlyWhenCleared
  BY DEF ScreensInv, MintedFine, SameTerms, CodeOnlyWhenCleared
<1> QED
  BY <1>1, ScreensInvHolds, PTL

\* A code that is displayed, written down with the letters that look like its
\* digits and with any separators, and normalised on two phones, verifies against
\* its own hash and against no other's (lib/claim.ts): for any alphabet without the
\* letters it repairs, any length and any size of the groups it is displayed in.
THEOREM CodesSurvive == PhoneSpec => []CodeSurvivesTheCounter
<1>1. ScreensInv => CodeSurvivesTheCounter
  <2> SUFFICES ASSUME ScreensInv, on("claim") PROVE CodeSurvivesTheCounter
    BY DEF CodeSurvivesTheCounter
  <2> DEFINE m == top.params
             code == m.claimCode
             display == formatClaimCode(code)
             symbols == UNION {Written(display[i]) : i \in DOMAIN display}
  <2>1. MintedCode(m)
    BY TopIs DEF on, ScreenFine
  <2>2. code \in ClaimCodes /\ m.claimHash = hashClaimCode(code)
    BY <2>1 DEF MintedCode
  <2> SUFFICES ASSUME NEW w \in [DOMAIN display -> symbols],
                      \A i \in DOMAIN display : w[i] \in Written(display[i])
               PROVE  /\ isWellFormedClaimCode(w)
                      /\ verifyClaimCode(normaliseClaimCode(normaliseClaimCode(w)),
                                         m.claimHash) = "matches"
                      /\ \A n \in minted :
                             n.params.claimCode # m.claimCode =>
                                 verifyClaimCode(w, n.params.claimHash) = "mismatch"
    BY DEF CodeSurvivesTheCounter
  <2>3. w = [i \in DOMAIN display |-> w[i]]
    OBVIOUS
  <2>4. \A i \in DOMAIN display : w[i] \in Written(display[i])
    OBVIOUS
  <2>5. \A n \in minted : MintedCode(n.params)
    BY DEF ScreensInv, MintedFine
  <2> HIDE DEF symbols
  <2>6. normaliseClaimCode(w) = code
    <3> HIDE DEF code
    <3>1. display = formatClaimCode(code)
      OBVIOUS
    <3> HIDE DEF display
    <3>2. w = [i \in DOMAIN display |-> w[i]] => normaliseClaimCode(w) = code
      BY <2>2, <2>4, <3>1, ReadBack
    <3> QED
      BY <2>3, <3>2
  <2> HIDE DEF display, m
  <2>7. normaliseClaimCode(code) = code
    BY <2>2, CodeStays
  <2>8. Len(code) = CLAIM_CODE_LENGTH /\ isCanonical(code)
    BY <2>2, CodeIsWellFormed
  <2>9. isWellFormedClaimCode(w) /\ isWellFormedClaimCode(code)
    BY <2>6, <2>7, <2>8 DEF isWellFormedClaimCode
  <2>10. hashClaimCode(w) = [sha256 |-> code] /\ hashClaimCode(code) = [sha256 |-> code]
    BY <2>6, <2>7 DEF hashClaimCode
  <2>11. verifyClaimCode(normaliseClaimCode(normaliseClaimCode(w)), m.claimHash) = "matches"
    BY <2>2, <2>6, <2>7, <2>9 DEF verifyClaimCode
  <2>12. ASSUME NEW n \in minted, n.params.claimCode # m.claimCode
         PROVE  verifyClaimCode(w, n.params.claimHash) = "mismatch"
    <3> DEFINE other == n.params.claimCode
    <3>1. other \in ClaimCodes /\ n.params.claimHash = hashClaimCode(other)
      BY <2>5 DEF MintedCode
    <3>2. other # code
      BY <2>12
    <3> HIDE DEF other
    <3>3. hashClaimCode(other) = [sha256 |-> other]
      BY <3>1, CodeStays DEF hashClaimCode
    <3>4. [sha256 |-> other] # [sha256 |-> code]
      <4>1. [sha256 |-> other].sha256 = other /\ [sha256 |-> code].sha256 = code
        OBVIOUS
      <4> QED
        BY <3>2, <4>1
    <3>5. hashClaimCode(w) # n.params.claimHash
      BY <2>10, <3>1, <3>3, <3>4
    <3> QED
      BY <2>9, <3>5 DEF verifyClaimCode
  <2> QED
    BY <2>9, <2>11, <2>12
<1> QED
  BY <1>1, ScreensInvHolds, PTL

\* A screen with its spinner on awaits a call that is in flight (api/client.ts),
\* whatever failed, was lost or came back in another order; an agent's screen on
\* which the digest of a claim code threw (agent/index.tsx) is the only exception.
THEOREM SpinnersWaitForACall == PhoneSpec => []NoFrozenScreen
<1>1. ScreensInv => NoFrozenScreen
  BY DEF ScreensInv, PhoneFine, Awaits, NoFrozenScreen, waiting, awaited
<1> QED
  BY <1>1, ScreensInvHolds, PTL

-----------------------------------------------------------------------------
(* The funding key. *)

\* There is a keypair that nothing refers to.
LEMMA FreshIs ==
    ASSUME Counted
    PROVE  fresh \in Nat /\ fresh # Null
<1> DEFINE starts == {d \in calls : d.op = "start"}
           named == {m.params.address : m \in minted}
           held == {c.address : c \in starts}
           f == [m \in minted |-> m.params.address]
           g == [c \in starts |-> c.address]
           n == MaxScreens + MaxCalls
<1>1. /\ MaxScreens \in Nat /\ MaxCalls \in Nat /\ opened \in Nat /\ opened <= MaxScreens
      /\ IsFiniteSet(calls) /\ Cardinality(calls) <= MaxCalls
      /\ IsFiniteSet(minted) /\ Cardinality(minted) < opened
  BY PhoneBoundsAreNaturals DEF Counted
<1>2. IsFiniteSet(starts) /\ Cardinality(starts) <= Cardinality(calls)
  <2>1. starts \in SUBSET calls
    OBVIOUS
  <2> HIDE DEF starts
  <2> QED
    BY <1>1, <2>1, FS_Subset
<1>3. IsFiniteSet(named) /\ Cardinality(named) <= Cardinality(minted)
  <2>1. f \in Surjection(minted, named)
    BY DEF Surjection
  <2> HIDE DEF f, named
  <2> QED
    BY <1>1, <2>1, FS_Surjection
<1> HIDE DEF starts
<1>4. IsFiniteSet(held) /\ Cardinality(held) <= Cardinality(starts)
  <2>1. g \in Surjection(starts, held)
    BY DEF Surjection
  <2> HIDE DEF g, held
  <2> QED
    BY <1>2, <2>1, FS_Surjection
<1>5. fresh = CHOOSE k \in 1..n : k \notin named \cup held
  BY DEF fresh, starts
<1> DEFINE used == named \cup held
<1> HIDE DEF named, held, n
<1>6. IsFiniteSet(used) /\ Cardinality(used) < MaxScreens + MaxCalls
  <2>1. /\ IsFiniteSet(named \cap held) /\ IsFiniteSet(used)
        /\ Cardinality(used) = Cardinality(named) + Cardinality(held)
                                - Cardinality(named \cap held)
    BY <1>3, <1>4, FS_Union, FS_Intersection
  <2>2. /\ Cardinality(named) \in Nat /\ Cardinality(held) \in Nat
        /\ Cardinality(named \cap held) \in Nat /\ Cardinality(minted) \in Nat
        /\ Cardinality(calls) \in Nat /\ Cardinality(starts) \in Nat
    BY <1>1, <1>2, <1>3, <1>4, <2>1, FS_CardinalityType
  <2> HIDE DEF used
  <2> QED
    BY <1>1, <1>2, <1>3, <1>4, <2>1, <2>2
<1>7. n \in Nat /\ n = MaxScreens + MaxCalls
  BY <1>1 DEF n
<1> HIDE DEF used
<1>8. \E k \in 1..n : k \notin used
  <2> SUFFICES ASSUME 1..n \in SUBSET used PROVE FALSE
    OBVIOUS
  <2>1. Cardinality(1..n) <= Cardinality(used)
    BY <1>6, FS_Subset
  <2>2. Cardinality(1..n) = n
    BY <1>7, FS_Interval
  <2>3. Cardinality(used) \in Nat
    BY <1>6, FS_CardinalityType
  <2> QED
    BY <1>6, <1>7, <2>1, <2>2, <2>3
<1>9. fresh \in 1..n
  BY <1>5, <1>8 DEF used
<1> QED
  BY <1>7, <1>9, NullIsNoAnswer

\* The calls that a step may leave in flight without bringing the wallet nearer
\* to a key: a transfer that starts has not yet read the keychain.
QuietCalls(cs) ==
    /\ IsFiniteSet(cs) /\ Cardinality(cs) <= MaxCalls
    /\ \A c \in cs : c.op = "start" => c \in calls \/ c.step = "get"

LEMMA AskedQuietly ==
    ASSUME Counted, canCall, NEW d, d.op = "start" => d.step = "get"
    PROVE  QuietCalls(calls \cup {d})
<1>1. IsFiniteSet(calls) /\ Cardinality(calls) < MaxCalls /\ MaxCalls \in Nat
  BY PhoneBoundsAreNaturals DEF Counted, canCall
<1>2. Cardinality(calls) \in Nat
  BY <1>1, FS_CardinalityType
<1>3. /\ IsFiniteSet(calls \cup {d})
      /\ Cardinality(calls \cup {d}) = IF d \in calls THEN Cardinality(calls)
                                      ELSE Cardinality(calls) + 1
  BY <1>1, FS_AddElement
<1>4. Cardinality(calls \cup {d}) <= MaxCalls
  BY <1>1, <1>2, <1>3
<1> QED
  BY <1>3, <1>4 DEF QuietCalls

LEMMA DroppedQuietly ==
    ASSUME Counted, NEW cs \in SUBSET calls PROVE QuietCalls(cs)
<1>1. IsFiniteSet(calls) /\ Cardinality(calls) <= MaxCalls /\ MaxCalls \in Nat
  BY PhoneBoundsAreNaturals DEF Counted
<1>2. IsFiniteSet(cs) /\ Cardinality(cs) <= Cardinality(calls)
  BY <1>1, FS_Subset
<1>3. Cardinality(cs) \in Nat /\ Cardinality(calls) \in Nat
  BY <1>1, <1>2, FS_CardinalityType
<1> QED
  BY <1>1, <1>2, <1>3 DEF QuietCalls

\* A call in flight gives way to what comes of it.
LEMMA ReplacedCall ==
    ASSUME Counted, NEW c \in calls, NEW d
    PROVE  IsFiniteSet((calls \ {c}) \cup {d}) /\ Cardinality((calls \ {c}) \cup {d}) <= MaxCalls
<1>1. IsFiniteSet(calls) /\ Cardinality(calls) <= MaxCalls /\ MaxCalls \in Nat
  BY PhoneBoundsAreNaturals DEF Counted
<1> DEFINE cs == calls \ {c}
<1>2. IsFiniteSet(cs) /\ Cardinality(cs) = Cardinality(calls) - 1
  BY <1>1, FS_RemoveElement
<1>3. Cardinality(calls) \in Nat
  BY <1>1, FS_CardinalityType
<1> HIDE DEF cs
<1>4. /\ IsFiniteSet(cs \cup {d})
      /\ Cardinality(cs \cup {d}) = IF d \in cs THEN Cardinality(cs) ELSE Cardinality(cs) + 1
  BY <1>2, FS_AddElement
<1> QED
  BY <1>1, <1>2, <1>3, <1>4 DEF cs

LEMMA RepliedQuietly ==
    ASSUME Counted, NEW c \in calls, NEW d, d.op # "start"
    PROVE  QuietCalls((calls \ {c}) \cup {d})
  BY ReplacedCall DEF QuietCalls

\* A step that leaves the key alone.
WalletQuiet ==
    /\ store' = store /\ raced' = raced /\ minted' = minted
    /\ opened' \in {opened, opened + 1} /\ opened' <= MaxScreens
    /\ QuietCalls(calls')

LEMMA QuietWallet ==
    ASSUME WalletInv, WalletQuiet PROVE WalletInv'
<1>1. Counted'
  <2>1. /\ opened \in Nat /\ IsFiniteSet(minted) /\ Cardinality(minted) < opened
    BY DEF WalletInv, Counted
  <2>2. Cardinality(minted) \in Nat
    BY <2>1, FS_CardinalityType
  <2>3. /\ opened' \in Nat /\ opened' <= MaxScreens /\ Cardinality(minted) < opened'
    BY <2>1, <2>2 DEF WalletQuiet
  <2> QED
    BY <2>1, <2>3 DEF WalletQuiet, QuietCalls, Counted
<1>2. CASE raced
  BY <1>1, <1>2 DEF WalletQuiet, WalletInv
<1>3. CASE KeyKept
  <2>1. /\ store' = store /\ minted' = minted
        /\ \A c \in calls' : c.op = "start" => c \in calls \/ c.step = "get"
    BY DEF WalletQuiet, QuietCalls
  <2>2. KeyKept'
    BY <1>3, <2>1 DEF KeyKept
  <2> QED
    BY <1>1, <2>2 DEF WalletInv
<1> QED
  BY <1>2, <1>3 DEF WalletInv

\* A tap opens or leaves a screen, edits one, or asks for something.
LEMMA TapIsQuiet ==
    ASSUME WalletInv, Tap PROVE WalletQuiet
<1>1. Counted /\ opened \in Nat /\ opened <= MaxScreens
  BY DEF WalletInv, Counted
<1>2. QuietCalls(calls)
  BY <1>1, DroppedQuietly
<1>3. ASSUME NEW s, onMount(s), store' = store, raced' = raced, minted' = minted,
             opened < MaxScreens, opened' = opened + 1
      PROVE  WalletQuiet
  <2>1. QuietCalls(calls')
    <3>1. CASE s.kind = "sender"
      <4> DEFINE d == [no |-> free, op |-> "corridors", key |-> s.key, answer |-> Null]
      <4>1. canCall /\ calls' = calls \cup {d}
        BY <1>3, <3>1 DEF onMount, call
      <4>2. d.op # "start"
        OBVIOUS
      <4> HIDE DEF d
      <4>3. QuietCalls(calls \cup {d})
        BY <1>1, <4>1, <4>2, AskedQuietly
      <4> QED
        BY <4>1, <4>3
    <3>2. CASE s.kind # "sender"
      BY <1>2, <1>3, <3>2 DEF onMount
    <3> QED
      BY <3>1, <3>2
  <2>2. opened' <= MaxScreens
    BY <1>1, <1>3, PhoneBoundsAreNaturals
  <2> QED
    BY <1>3, <2>1, <2>2 DEF WalletQuiet
<1>4. CASE OpenSender \/ OpenRecipient \/ OpenAgent \/ OpenFloat \/ LeaveClaim
  <2>1. PICK s : Push(s) \/ Replace(s)
    BY <1>4 DEF OpenSender, OpenRecipient, OpenAgent, OpenFloat, LeaveClaim
  <2> QED
    BY <1>3, <2>1 DEF Push, Replace, wallet
<1>5. CASE Back
  <2>1. calls' \in SUBSET calls
    BY <1>5 DEF Back
  <2>2. QuietCalls(calls')
    BY <1>1, <2>1, DroppedQuietly
  <2> QED
    BY <1>1, <1>5, <2>2 DEF Back, wallet, WalletQuiet
<1>6. CASE \/ \E r : ChooseCorridor(r)
           \/ \E a : TypeAmount(a) \/ TypeTransferId(a) \/ TypeCode(a) \/ handleScan(a)
           \/ reset
           \/ \E a : TypeAgentId(a)
           \/ \E a, given : FillRequest(a, given)
  <2>1. /\ store' = store /\ raced' = raced /\ minted' = minted /\ opened' = opened
        /\ calls' = calls
    BY <1>6 DEF ChooseCorridor, TypeAmount, TypeTransferId, TypeCode, handleScan, reset,
       TypeAgentId, FillRequest, wallet
  <2> QED
    BY <1>1, <1>2, <2>1 DEF WalletQuiet
<1>7. ASSUME NEW d, d.op = "start" => d.step = "get", canCall, call(d),
             UNCHANGED <<opened, wallet, proposed, minted>>
      PROVE  WalletQuiet
  <2>1. QuietCalls(calls \cup {d})
    BY <1>1, <1>7, AskedQuietly
  <2>2. calls' = calls \cup {d}
    BY <1>7 DEF call
  <2> QED
    BY <1>1, <1>7, <2>1, <2>2 DEF wallet, WalletQuiet
<1>8. CASE loadQuote
  <2> DEFINE d == [no |-> free, op |-> "quote", key |-> top.key, corridor |-> top.corridorId,
                   amount |-> top.amount, quote |-> Null, preflight |-> Null]
  <2>1. d.op # "start"
    OBVIOUS
  <2>2. canCall /\ call(d) /\ UNCHANGED <<opened, wallet, proposed, minted>>
    BY <1>8 DEF loadQuote
  <2> HIDE DEF d
  <2> QED
    BY <1>7, <2>1, <2>2
<1>9. CASE startTransfer
  <2> DEFINE d == [no |-> free, op |-> "start", key |-> top.key, step |-> "get",
                   address |-> Null, quote |-> top.quote, preflight |-> top.preflight,
                   dest |-> IF top.corridorId \in top.corridors THEN top.corridorId ELSE Null]
  <2>1. d.step = "get"
    OBVIOUS
  <2>2. canCall /\ call(d) /\ UNCHANGED <<opened, wallet, proposed, minted>>
    BY <1>9 DEF startTransfer
  <2> HIDE DEF d
  <2> QED
    BY <1>7, <2>1, <2>2
<1>10. ASSUME NEW id, canCall, askStatus(top.key, id),
              UNCHANGED <<opened, wallet, proposed, minted>>
       PROVE  WalletQuiet
  <2> DEFINE d == [no |-> free, op |-> "status", key |-> top.key, id |-> id, answer |-> Null]
  <2>1. d.op # "start"
    OBVIOUS
  <2>2. call(d)
    BY <1>10 DEF askStatus
  <2> HIDE DEF d
  <2> QED
    BY <1>7, <1>10, <2>1, <2>2
<1>11. CASE loadTransfer
  BY <1>10, <1>11 DEF loadTransfer
<1>12. ASSUME UNCHANGED <<opened, calls, wallet, proposed, minted>> PROVE WalletQuiet
  BY <1>1, <1>2, <1>12 DEF wallet, WalletQuiet
<1>13. CASE checkStatus \/ \E id : FollowTransfer(id)
  BY <1>10, <1>12, <1>13 DEF checkStatus, FollowTransfer
<1>14. CASE check
  <2> DEFINE d == [no |-> free, op |-> "check", key |-> top.key, code |-> top.code,
                   claimHash |-> top.transfer.claimHash]
  <2>1. d.op # "start"
    OBVIOUS
  <2>2. canCall /\ call(d) /\ UNCHANGED <<opened, wallet, proposed, minted>>
    BY <1>14 DEF check
  <2> HIDE DEF d
  <2> QED
    BY <1>7, <2>1, <2>2
<1>15. CASE loadAgent
  <2> DEFINE d == [no |-> free, op |-> "agent", key |-> top.key, agent |-> top.agentId,
                   answer |-> Null]
  <2>1. d.op # "start"
    OBVIOUS
  <2>2. canCall /\ call(d) /\ UNCHANGED <<opened, wallet, proposed, minted>>
    BY <1>15 DEF loadAgent
  <2> HIDE DEF d
  <2> QED
    BY <1>7, <2>1, <2>2
<1>16. CASE requestTopUp
  <2> DEFINE d == [no |-> free, op |-> "topup", key |-> top.key, agent |-> top.agent,
                   amount |-> top.amount, answer |-> Null]
  <2>1. d.op # "start"
    OBVIOUS
  <2>2. canCall /\ call(d) /\ UNCHANGED <<opened, wallet, proposed, minted>>
    BY <1>16 DEF requestTopUp
  <2> HIDE DEF d
  <2> QED
    BY <1>7, <2>1, <2>2
<1> QED
  BY <1>4, <1>5, <1>6, <1>8, <1>9, <1>11, <1>13, <1>14, <1>15, <1>16 DEF Tap

\* So does what comes of a call, but for the steps of a starting transfer.
LEMMA ProceedIsQuiet ==
    ASSUME ScreensInv, WalletInv, NEW c \in calls, Proceed(c),
           ~EnsureRead(c), ~EnsureWrite(c), ~MintCode(c)
    PROVE  WalletQuiet
<1>1. Counted /\ opened \in Nat /\ opened <= MaxScreens
  BY DEF WalletInv, Counted
<1>2. ASSUME UNCHANGED wallet, minted' = minted, opened' = opened, done(c)
      PROVE  WalletQuiet
  <2>1. calls' = calls \ {c} /\ calls \ {c} \in SUBSET calls
    BY <1>2 DEF done
  <2>2. QuietCalls(calls')
    BY <1>1, <2>1, DroppedQuietly
  <2> QED
    BY <1>1, <1>2, <2>2 DEF wallet, WalletQuiet
<1>3. ASSUME UNCHANGED wallet, minted' = minted, opened' = opened, c.op # "start",
             NEW d, d.op = c.op, calls' = (calls \ {c}) \cup {d}
      PROVE  WalletQuiet
  <2>1. QuietCalls((calls \ {c}) \cup {d})
    BY <1>1, <1>3, RepliedQuietly
  <2> QED
    BY <1>1, <1>3, <2>1 DEF wallet, WalletQuiet
<1>4. c.op \in DOMAIN CallFieldsOf /\ CallFieldsOf[c.op] \subseteq DOMAIN c
  BY CallIs
<1>5. "op" \in DOMAIN c
  BY <1>4 DEF CallFieldsOf
<1>6. ASSUME NEW a, UNCHANGED wallet, minted' = minted, opened' = opened, c.op # "start",
             answered(c, a)
      PROVE  WalletQuiet
  <2> DEFINE d == [c EXCEPT !.answer = a]
  <2>1. d.op = c.op
    BY <1>5
  <2>2. calls' = (calls \ {c}) \cup {d}
    BY <1>6 DEF answered
  <2> HIDE DEF d
  <2> QED
    BY <1>3, <1>6, <2>1, <2>2
<1>7. CASE ListCorridors(c)
  BY <1>6, <1>7 DEF ListCorridors
<1>8. CASE TransferStatus(c)
  BY <1>6, <1>8 DEF TransferStatus
<1>9. CASE AgentDetail(c)
  BY <1>6, <1>9 DEF AgentDetail
<1>10. CASE ProposeTopUp(c)
  BY <1>6, <1>10 DEF ProposeTopUp
<1>11. CASE Quote(c)
  <2>1. PICK q : calls' = (calls \ {c}) \cup {[c EXCEPT !.quote = q]}
    BY <1>11 DEF Quote
  <2> DEFINE d == [c EXCEPT !.quote = q]
  <2>2. d.op = c.op /\ c.op # "start"
    BY <1>5, <1>11 DEF Quote
  <2>3. calls' = (calls \ {c}) \cup {d} /\ UNCHANGED wallet /\ minted' = minted /\ opened' = opened
    BY <1>11, <2>1 DEF Quote
  <2> HIDE DEF d
  <2> QED
    BY <1>3, <2>2, <2>3
<1>12. CASE Preflight(c)
  <2>1. PICK p : calls' = (calls \ {c}) \cup {[c EXCEPT !.preflight = p]}
    BY <1>12 DEF Preflight
  <2> DEFINE d == [c EXCEPT !.preflight = p]
  <2>2. d.op = c.op /\ c.op # "start"
    BY <1>5, <1>12 DEF Preflight
  <2>3. calls' = (calls \ {c}) \cup {d} /\ UNCHANGED wallet /\ minted' = minted /\ opened' = opened
    BY <1>12, <2>1 DEF Preflight
  <2> HIDE DEF d
  <2> QED
    BY <1>3, <2>2, <2>3
<1>13. CASE \/ CorridorsLoaded(c) \/ QuoteLoaded(c) \/ StartFails(c) \/ TransferLoaded(c)
            \/ StatusLoaded(c) \/ CodeChecked(c) \/ CodeCheckThrows(c)
            \/ AgentLoaded(c) \/ TopUpRequested(c)
  <2>1. UNCHANGED wallet /\ minted' = minted /\ opened' = opened /\ done(c)
    BY <1>13 DEF CorridorsLoaded, QuoteLoaded, StartFails, TransferLoaded, StatusLoaded,
       CodeChecked, CodeCheckThrows, AgentLoaded, TopUpRequested
  <2> QED
    BY <1>2, <2>1
<1> QED
  BY <1>7, <1>8, <1>9, <1>10, <1>11, <1>12, <1>13 DEF Proceed

\* The calls of a transfer that starts have the fields of one.
LEMMA StartIs ==
    ASSUME ScreensInv, NEW c \in calls, c.op = "start"
    PROVE  {"op", "step", "address"} \subseteq DOMAIN c
<1>1. CallFieldsOf["start"] \subseteq DOMAIN c
  BY CallIs
<1> QED
  BY <1>1 DEF CallFieldsOf

LEMMA EnsureReadKeepsKey ==
    ASSUME ScreensInv, WalletInv, NEW c \in calls, EnsureRead(c) PROVE WalletInv'
<1>1. /\ c.op = "start" /\ c.step = "get" /\ store' = store /\ minted' = minted
      /\ opened' = opened
  BY DEF EnsureRead
<1>2. {"op", "step", "address"} \subseteq DOMAIN c
  BY <1>1, StartIs
<1>3. Counted /\ (raced \/ KeyKept)
  BY DEF WalletInv
<1>4. ASSUME NEW d, calls' = (calls \ {c}) \cup {d} PROVE Counted'
  <2>1. /\ IsFiniteSet((calls \ {c}) \cup {d})
        /\ Cardinality((calls \ {c}) \cup {d}) <= MaxCalls
    BY <1>3, ReplacedCall
  <2> QED
    BY <1>1, <1>3, <1>4, <2>1 DEF Counted
<1>5. CASE store # Null /\ raced' = raced
           /\ calls' = (calls \ {c}) \cup {[c EXCEPT !.step = "code", !.address = store]}
  <2> DEFINE d == [c EXCEPT !.step = "code", !.address = store]
  <2>1. d.op = "start" /\ d.step = "code" /\ d.address = store
    BY <1>1, <1>2
  <2>2. calls' = (calls \ {c}) \cup {d}
    BY <1>5
  <2> HIDE DEF d
  <2>3. Counted'
    BY <1>4, <2>2
  <2>4. KeyKept => KeyKept'
    BY <1>1, <1>5, <2>1, <2>2 DEF KeyKept
  <2> QED
    BY <1>3, <1>5, <2>3, <2>4 DEF WalletInv
<1>6. CASE /\ store = Null
           /\ calls' = (calls \ {c}) \cup {[c EXCEPT !.step = "set", !.address = fresh]}
           /\ raced' = (raced \/ \E d \in calls : d.op = "start" /\ d.step = "set")
  <2> DEFINE d == [c EXCEPT !.step = "set", !.address = fresh]
  <2>1. d.op = "start" /\ d.step = "set" /\ d.address = fresh
    BY <1>1, <1>2
  <2>2. calls' = (calls \ {c}) \cup {d}
    BY <1>6
  <2>3. fresh # Null
    BY <1>3, FreshIs
  <2> HIDE DEF d
  <2>4. Counted'
    BY <1>4, <2>2
  <2>5. CASE raced'
    BY <2>4, <2>5 DEF WalletInv
  <2>6. CASE ~raced'
    <3>1. KeyKept /\ \A e \in calls : ~(e.op = "start" /\ e.step = "set")
      BY <1>3, <1>6, <2>6
    <3>2. KeyKept'
      BY <1>1, <1>6, <2>1, <2>2, <2>3, <3>1 DEF KeyKept
    <3> QED
      BY <2>4, <3>2 DEF WalletInv
  <2> QED
    BY <2>5, <2>6
<1> QED
  BY <1>5, <1>6 DEF EnsureRead

LEMMA EnsureWriteKeepsKey ==
    ASSUME ScreensInv, WalletInv, NEW c \in calls, EnsureWrite(c) PROVE WalletInv'
<1> DEFINE d == [c EXCEPT !.step = "code"]
<1>1. /\ c.op = "start" /\ c.step = "set" /\ store' = c.address /\ minted' = minted
      /\ opened' = opened /\ raced' = raced /\ calls' = (calls \ {c}) \cup {d}
  BY DEF EnsureWrite
<1>2. {"op", "step", "address"} \subseteq DOMAIN c
  BY <1>1, StartIs
<1>3. Counted /\ (raced \/ KeyKept)
  BY DEF WalletInv
<1>4. d.op = "start" /\ d.step = "code" /\ d.address = c.address
  BY <1>1, <1>2
<1> HIDE DEF d
<1>5. Counted'
  <2>1. /\ IsFiniteSet((calls \ {c}) \cup {d})
        /\ Cardinality((calls \ {c}) \cup {d}) <= MaxCalls
    BY <1>3, ReplacedCall
  <2> QED
    BY <1>1, <1>3, <2>1 DEF Counted
<1>6. KeyKept => KeyKept'
  <2> SUFFICES ASSUME KeyKept PROVE KeyKept'
    OBVIOUS
  <2>1. /\ store = Null /\ c.address # Null /\ minted = {}
        /\ \A e \in calls : e.op = "start" /\ e.step = "set" => e = c
        /\ \A e \in calls : ~(e.op = "start" /\ e.step = "code")
    BY <1>1 DEF KeyKept
  <2> QED
    BY <1>1, <1>4, <2>1 DEF KeyKept
<1> QED
  BY <1>1, <1>3, <1>5, <1>6 DEF WalletInv

LEMMA MintCodeKeepsKey ==
    ASSUME ScreensInv, WalletInv, NEW c \in calls, MintCode(c) PROVE WalletInv'
<1>1. /\ c.op = "start" /\ c.step = "code" /\ opened < MaxScreens /\ opened' = opened + 1
      /\ calls' = calls \ {c} /\ store' = store /\ raced' = raced
  BY DEF MintCode, done, wallet
<1>2. PICK m : minted' = minted \cup {m} /\ m.params.address = c.address
  <2>1. PICK code : minted' = minted \cup
            {[params |-> [claimCode |-> code, claimHash |-> hashClaimCode(code),
                          corridor |-> c.quote.corridor, amount |-> c.quote.amount,
                          dest |-> c.dest, address |-> c.address],
              preflight |-> c.preflight]}
    BY DEF MintCode
  <2> DEFINE p == [claimCode |-> code, claimHash |-> hashClaimCode(code),
                   corridor |-> c.quote.corridor, amount |-> c.quote.amount,
                   dest |-> c.dest, address |-> c.address]
             n == [params |-> p, preflight |-> c.preflight]
  <2>2. minted' = minted \cup {n}
    BY <2>1
  <2>3. p.address = c.address
    OBVIOUS
  <2> HIDE DEF p
  <2>4. n.params = p
    OBVIOUS
  <2> HIDE DEF n
  <2> QED
    BY <2>2, <2>3, <2>4
<1>3. Counted /\ (raced \/ KeyKept)
  BY DEF WalletInv
<1>4. Counted'
  <2>1. /\ opened \in Nat /\ MaxScreens \in Nat /\ IsFiniteSet(minted)
        /\ Cardinality(minted) < opened
    BY <1>3, PhoneBoundsAreNaturals DEF Counted
  <2>2. /\ IsFiniteSet(minted \cup {m})
        /\ Cardinality(minted \cup {m}) = IF m \in minted THEN Cardinality(minted)
                                         ELSE Cardinality(minted) + 1
    BY <2>1, FS_AddElement
  <2>3. Cardinality(minted) \in Nat
    BY <2>1, FS_CardinalityType
  <2>4. QuietCalls(calls')
    <3>1. calls' \in SUBSET calls
      BY <1>1
    <3> QED
      BY <1>3, <3>1, DroppedQuietly
  <2>5. /\ opened' \in Nat /\ opened' <= MaxScreens /\ IsFiniteSet(minted')
        /\ Cardinality(minted') < opened'
    BY <1>1, <1>2, <2>1, <2>2, <2>3
  <2> QED
    BY <2>4, <2>5 DEF QuietCalls, Counted
<1>5. KeyKept => KeyKept'
  <2> SUFFICES ASSUME KeyKept PROVE KeyKept'
    OBVIOUS
  <2>1. store # Null /\ c.address = store
    BY <1>1 DEF KeyKept
  <2> QED
    BY <1>1, <1>2, <2>1 DEF KeyKept
<1> QED
  BY <1>1, <1>3, <1>4, <1>5 DEF WalletInv

\* What was under way is forgotten, a write that was begun is done or not.
LEMMA KilledKeepsKey ==
    ASSUME WalletInv, Killed PROVE WalletInv'
<1>1. /\ opened < MaxScreens /\ opened' = opened + 1 /\ calls' = {} /\ raced' = raced
      /\ minted' = minted
  BY DEF Killed
<1>2. store' = store \/ \E c \in calls : c.op = "start" /\ c.step = "set" /\ store' = c.address
  BY DEF Killed
<1>3. Counted /\ (raced \/ KeyKept)
  BY DEF WalletInv
<1>4. Counted'
  <2>1. /\ opened \in Nat /\ MaxScreens \in Nat /\ MaxCalls \in Nat /\ IsFiniteSet(minted)
        /\ Cardinality(minted) < opened
    BY <1>3, PhoneBoundsAreNaturals DEF Counted
  <2>2. Cardinality(minted) \in Nat
    BY <2>1, FS_CardinalityType
  <2>3. IsFiniteSet(calls') /\ Cardinality(calls') <= MaxCalls
    BY <1>1, <2>1, FS_EmptySet
  <2>4. opened' \in Nat /\ opened' <= MaxScreens /\ Cardinality(minted) < opened'
    BY <1>1, <2>1, <2>2
  <2> QED
    BY <1>1, <2>1, <2>3, <2>4 DEF Counted
<1>5. KeyKept => KeyKept'
  BY <1>1, <1>2 DEF KeyKept
<1> QED
  BY <1>1, <1>3, <1>4, <1>5 DEF WalletInv

LEMMA WalletInvInit == PhoneInit => WalletInv
<1> SUFFICES ASSUME PhoneInit PROVE WalletInv
  OBVIOUS
<1>1. opened = 1 /\ calls = {} /\ minted = {}
  BY DEF PhoneInit
<1>2. 1 <= MaxScreens /\ 0 <= MaxCalls
  BY PhoneBoundsAreNaturals
<1>3. Counted
  BY <1>1, <1>2, FS_EmptySet DEF Counted
<1>4. KeyKept
  BY <1>1 DEF KeyKept
<1> QED
  BY <1>3, <1>4 DEF WalletInv

LEMMA WalletInvStep ==
    ASSUME ScreensInv, WalletInv, [PhoneNext]_phoneVars PROVE WalletInv'
<1>1. CASE Tap
  BY <1>1, TapIsQuiet, QuietWallet
<1>2. ASSUME NEW c \in calls, Proceed(c) PROVE WalletInv'
  <2>1. CASE EnsureRead(c)
    BY <2>1, EnsureReadKeepsKey
  <2>2. CASE EnsureWrite(c)
    BY <2>2, EnsureWriteKeepsKey
  <2>3. CASE MintCode(c)
    BY <2>3, MintCodeKeepsKey
  <2>4. CASE ~EnsureRead(c) /\ ~EnsureWrite(c) /\ ~MintCode(c)
    BY <1>2, <2>4, ProceedIsQuiet, QuietWallet
  <2> QED
    BY <2>1, <2>2, <2>3, <2>4
<1>3. CASE Killed
  BY <1>3, KilledKeepsKey
<1>4. CASE UNCHANGED phoneVars
  BY <1>4 DEF phoneVars, WalletInv, Counted, KeyKept
<1> QED
  BY <1>1, <1>2, <1>3, <1>4 DEF PhoneNext

\* Unless two provisionings overlapped, the keychain holds the key of every
\* funding account that a claim screen named (local-wallet.ts), after any kill.
THEOREM KeyIsKept == PhoneSpec => []FundingKeyKept
<1>1. ScreensInv /\ WalletInv /\ [PhoneNext]_phoneVars => WalletInv'
  BY WalletInvStep
<1>2. WalletInv => FundingKeyKept
  BY DEF WalletInv, KeyKept, FundingKeyKept
<1> QED
  BY <1>1, <1>2, ScreensInvHolds, WalletInvInit, PTL DEF PhoneSpec
=============================================================================
