--------------------------- MODULE AgentLiquidity ---------------------------
(***************************************************************************)
(* Agent liquidity: backend/src/agent-liquidity, for one region, with the  *)
(* exposure the pool keeps of each agent, the indexer that copies it and   *)
(* the console pages on which operators decide and execute                 *)
(* (admin-web: the liquidity page and components/actions.tsx).             *)
(*                                                                         *)
(* Top-ups are proposed, decided and executed by handlers that read a row, *)
(* wait and write it; sweeps open alerts.  Every await is a step boundary. *)
(* An error makes executeTopUp write FAILED; a crash leaves everything as  *)
(* it is.  A page shows the rows as they were when it was rendered, keeps  *)
(* a row's buttons disabled while its own call is out, and may lose the    *)
(* answer of a call that the backend goes on serving.                      *)
(*                                                                         *)
(* A definition whose comment starts with "Fault" is no part of the model: *)
(* it is a wrong version of the definition after it, one that a property   *)
(* of this module is shown to notice.                                      *)
(***************************************************************************)
EXTENDS Integers, Sequences, FiniteSets, SorobanInvoke

CONSTANTS
    Agents,        \* authorized agents of the region
    SelfSigned,    \* those whose address is the operator's own
    Bond,          \* every agent's bond, on chain and in its row
    TopUps,        \* top-up requests
    Amounts,       \* amounts they are for
    Deciders,      \* calls of decideTopUp
    Executors,     \* calls of executeTopUp
    Sweeps,        \* calls of sweepRegion
    Desks,         \* open liquidity pages, one per operator's tab
    FLOAT_ALERT_BPS,
    None,          \* an absent row or field
    MaxFaults      \* bound: errors caught by executeTopUp, processes that die in
                   \* it and answers that the proxy gives up on

ASSUME CallsAreDraws == Calls = Executors
ASSUME NoneIsNoCall == None \notin TopUps \union Deciders \union Executors
ASSUME CallsDiffer == Deciders \intersect Executors = {}
ASSUME SelfSignedAreAgents == SelfSigned \subseteq Agents
ASSUME NumbersAreNatural ==
    {Bond, FLOAT_ALERT_BPS, MaxFaults} \subseteq Nat

VARIABLES
    top_up,     \* LiquidityTopUpRequest rows ("none" and "draft": not yet one)
    decider,    \* progress of each decideTopUp
    executor,   \* progress of each executeTopUp
    sweep,      \* progress of each sweepRegion
    owed,       \* the pool's exposure of each agent
    exposure,   \* AgentExposure.drawnAmount by agent
    events,     \* pool.drawn events the indexer has not seen
    alerts,     \* open alert rows, counted by agent and kind
    desk,       \* what each page shows and which of its calls are out
    abandoned,  \* history: requests with an execution that its page stopped waiting
                \* for: it was reloaded or dropped the form, or its proxy gave up
    disturbed,  \* history: requests with an execution that crashed, a decision
                \* about a row that was not pending, or an execution started
                \* beside one of another desk or an abandoned one
    faults

net == <<tx, timeouts>>
pool == <<owed, events>>
pages == <<desk, abandoned, disturbed>>
vars == <<top_up, decider, executor, sweep, pool, exposure, alerts, net, pages, faults>>

Statuses == {"PENDING", "APPROVED", "REJECTED", "EXECUTED", "FAILED"}
AlertKinds == {"FLOAT_LOW", "COLLATERAL_TIGHT"}
RATIO_BPS == 15000
----------------------------------------------------------------------------
(* evaluateAgent and classifyAlert. *)

headroom(bond, drawn) ==
    LET required == (drawn * RATIO_BPS) \div 10000
    IN  IF bond > required THEN bond - required ELSE 0

undrawnCapacity(bond, drawn) == (headroom(bond, drawn) * 10000) \div RATIO_BPS

ratio_of_bond(bond, part) == IF bond > 0 THEN (part * 10000) \div bond ELSE 0

classifyAlert(bond, drawn) ==
    IF ratio_of_bond(bond, headroom(bond, drawn)) < 1000 THEN "COLLATERAL_TIGHT"
    ELSE IF ratio_of_bond(bond, undrawnCapacity(bond, drawn)) < FLOAT_ALERT_BPS
    THEN "FLOAT_LOW" ELSE None

\* The pool's bond_requirement at the default ratio.
pool_accepts(bond, total) == bond >= (total * RATIO_BPS) \div 10000
----------------------------------------------------------------------------
(* proposeTopUp and decideTopUp. *)

\* The bond covers the draw by what the chain says at the time.
proposeTopUp(q, a, n) ==
    /\ top_up[q].status = "none"
    /\ pool_accepts(Bond, owed[a] + n)
    /\ top_up' = [top_up EXCEPT ![q] = [agent |-> a, amount |-> n, status |-> "draft"]]
    /\ UNCHANGED <<decider, executor, sweep, pool, exposure, alerts, net, faults, pages>>

propose_create(q) ==
    /\ top_up[q].status = "draft"
    /\ top_up' = [top_up EXCEPT ![q].status = "PENDING"]
    /\ UNCHANGED <<decider, executor, sweep, pool, exposure, alerts, net, faults, pages>>

\* Only a pending request is decided; what is read may be stale when written.
decideTopUp(d) ==
    /\ decider[d].pc = "read"
    /\ decider' = [decider EXCEPT ![d].pc =
                      IF top_up[decider[d].request].status = "PENDING" THEN "write" ELSE "refused"]
    /\ UNCHANGED <<top_up, executor, sweep, pool, exposure, alerts, net, faults, pages>>

\* Fault: the truth of the operator's answer is not looked at.
decide_write_approves(d) ==
    LET q == decider[d].request
    IN  /\ decider[d].pc = "write"
        /\ top_up' = [top_up EXCEPT ![q].status = "APPROVED"]
        /\ decider' = [decider EXCEPT ![d].pc = "done"]
        /\ disturbed' = IF top_up[q].status = "PENDING" THEN disturbed ELSE disturbed \union {q}
        /\ UNCHANGED <<executor, sweep, pool, exposure, alerts, net, faults, desk, abandoned>>

decide_write(d) ==
    LET q == decider[d].request
    IN  /\ decider[d].pc = "write"
        /\ top_up' = [top_up EXCEPT ![q].status =
                         IF decider[d].approved THEN "APPROVED" ELSE "REJECTED"]
        /\ decider' = [decider EXCEPT ![d].pc = "done"]
        /\ disturbed' = IF top_up[q].status = "PENDING" THEN disturbed ELSE disturbed \union {q}
        /\ UNCHANGED <<executor, sweep, pool, exposure, alerts, net, faults, desk, abandoned>>
----------------------------------------------------------------------------
(* executeTopUp. *)

Request(e) == top_up[executor[e].request]
GoTo(e, pc) == executor' = [executor EXCEPT ![e].pc = pc]

Running(q) == {e \in Executors : /\ executor[e].request = q
                                 /\ executor[e].pc \notin {"done", "refused", "error"}}

executeTopUp(e) ==
    /\ executor[e].pc = "read"
    /\ GoTo(e, IF Request(e).status = "APPROVED" THEN "send" ELSE "refused")
    /\ UNCHANGED <<top_up, decider, sweep, pool, exposure, alerts, net, faults, pages>>

\* drawLiquidity: what the simulation refuses is not sent.
draw_send(e) ==
    /\ executor[e].pc = "send"
    /\ IF pool_accepts(Bond, owed[Request(e).agent] + Request(e).amount)
       THEN invoke(e) /\ GoTo(e, "poll")
       ELSE UNCHANGED net /\ GoTo(e, "failed")
    /\ UNCHANGED <<top_up, decider, sweep, pool, exposure, alerts, faults, pages>>

draw_poll(e) ==
    /\ executor[e].pc = "poll"
    /\ \/ pollForResult(e) /\ GoTo(e, "settle")
       \/ poll_failed(e) /\ GoTo(e, "failed")
    /\ UNCHANGED <<top_up, decider, sweep, pool, exposure, alerts, faults, pages>>

\* One database transaction: the request, the exposure and the alerts.
execute_settle(e) ==
    LET a == Request(e).agent
    IN  /\ executor[e].pc = "settle"
        /\ top_up' = [top_up EXCEPT ![executor[e].request].status = "EXECUTED"]
        /\ exposure' = [exposure EXCEPT ![a] = @ + Request(e).amount]
        /\ alerts' = [alerts EXCEPT ![a] = [k \in AlertKinds |-> 0]]
        /\ GoTo(e, "done")
        /\ UNCHANGED <<decider, sweep, pool, net, faults, pages>>

\* A call of the try block throws.
ExecuteError(e) ==
    /\ faults < MaxFaults
    /\ executor[e].pc \in {"send", "poll", "settle"}
    /\ GoTo(e, "failed")
    /\ faults' = faults + 1
    /\ UNCHANGED <<top_up, decider, sweep, pool, exposure, alerts, net, pages>>

\* The catch block.
execute_failed(e) ==
    /\ executor[e].pc = "failed"
    /\ top_up' = [top_up EXCEPT ![executor[e].request].status = "FAILED"]
    /\ GoTo(e, "error")
    /\ UNCHANGED <<decider, sweep, pool, exposure, alerts, net, faults, pages>>

\* The process dies; the proxy answers 502.
ExecuteCrash(e) ==
    /\ faults < MaxFaults
    /\ executor[e].pc \in {"send", "poll", "settle", "failed"}
    /\ GoTo(e, "error")
    /\ faults' = faults + 1
    /\ disturbed' = disturbed \union {executor[e].request}
    /\ UNCHANGED <<top_up, decider, sweep, pool, exposure, alerts, net, desk, abandoned>>

\* draw_liquidity of the pool: the agent must have authorized the call, which
\* the operator signed.
draw_liquidity(e) ==
    LET a        == Request(e).agent
        after    == owed[a] + Request(e).amount
        accepted == a \in SelfSigned /\ pool_accepts(Bond, after)
    IN  /\ execute(e, accepted)
        /\ IF accepted
           THEN /\ owed' = [owed EXCEPT ![a] = after]
                /\ events' = Append(events, [agent |-> a, exposure |-> after])
           ELSE UNCHANGED pool
        /\ UNCHANGED <<top_up, decider, executor, sweep, exposure, alerts, faults, pages>>

ExpireDraw(e) ==
    /\ expire(e)
    /\ UNCHANGED <<top_up, decider, executor, sweep, pool, exposure, alerts, faults, pages>>

\* projectPoolDraw of the indexer: the event's exposure replaces the row's.
projectPoolDraw ==
    /\ events # << >>
    /\ exposure' = [exposure EXCEPT ![Head(events).agent] = Head(events).exposure]
    /\ events' = Tail(events)
    /\ UNCHANGED <<top_up, decider, executor, sweep, owed, alerts, net, faults, pages>>
----------------------------------------------------------------------------
(* sweepRegion. *)

NoSweep == [pc |-> "new", left |-> {}, drawn |-> None]

\* The loop goes on with the agents that are left, or the sweep is over.
Sweeping(s, left) == IF left = {} THEN NoSweep ELSE [sweep[s] EXCEPT !.pc = "find", !.left = left]

\* The agents and their exposures are read at once.
sweepRegion(s) ==
    /\ sweep[s].pc = "new"
    /\ sweep' = [sweep EXCEPT ![s] = [pc |-> "find", left |-> Agents, drawn |-> exposure]]
    /\ UNCHANGED <<top_up, decider, executor, pool, exposure, alerts, net, faults, pages>>

Alert(s, a) == classifyAlert(Bond, sweep[s].drawn[a])
AlreadyOpen(s, a) == Alert(s, a) = None \/ alerts[a][Alert(s, a)] > 0

\* The next agent: is an alert due, and is one like it open already?
sweep_find(s, a) ==
    /\ sweep[s].pc = "find"
    /\ a \in sweep[s].left
    /\ sweep' = [sweep EXCEPT ![s] = IF AlreadyOpen(s, a) THEN Sweeping(s, sweep[s].left \ {a})
                                     ELSE [@ EXCEPT !.pc = a]]
    /\ UNCHANGED <<top_up, decider, executor, pool, exposure, alerts, net, faults, pages>>

sweep_create(s, a) ==
    /\ sweep[s].pc = a
    /\ alerts' = [alerts EXCEPT ![a][Alert(s, a)] = @ + 1]
    /\ sweep' = [sweep EXCEPT ![s] = Sweeping(s, sweep[s].left \ {a})]
    /\ UNCHANGED <<top_up, decider, executor, pool, exposure, net, faults, pages>>
----------------------------------------------------------------------------
(* The liquidity page. *)

NothingShown == [q \in TopUps |-> "none"]
NoCallOut == [q \in TopUps |-> None]
backend == <<top_up, sweep, pool, exposure, alerts, net>>

\* The rows topUps() returned, or none of them when the read failed.
Renderings == {[q \in TopUps |-> IF top_up[q].status = "draft" THEN "none" ELSE top_up[q].status],
               NothingShown}

\* The requests with a running execution that a page waits for and no longer
\* would with these calls out.
Dropped(o, out) == {q \in TopUps : desk[o].out[q] \in Running(q) \ {out[q]}}

\* The operator opens or reloads the page: its forms start afresh, whatever
\* call one of them had out.
LiquidityPage(o) ==
    /\ \E rows \in Renderings :
           desk' = [desk EXCEPT ![o] = [shown |-> rows, out |-> NoCallOut, stale |-> FALSE]]
    /\ abandoned' = abandoned \union Dropped(o, NoCallOut)
    /\ UNCHANGED <<backend, faults, decider, executor, disturbed>>

\* router.refresh: the same, but the forms of rows that stay in their table
\* keep their state.
refresh(o) ==
    /\ desk[o].stale
    /\ \E rows \in Renderings :
           LET out == [q \in TopUps |-> IF rows[q] = desk[o].shown[q]
                                        THEN desk[o].out[q] ELSE None]
           IN  /\ desk' = [desk EXCEPT ![o] = [shown |-> rows, out |-> out, stale |-> FALSE]]
               /\ abandoned' = abandoned \union Dropped(o, out)
    /\ UNCHANGED <<backend, faults, decider, executor, disturbed>>

\* TopUpDecisionForm, in the table of pending requests.
decide(o, d, q, approved) ==
    /\ desk[o].shown[q] = "PENDING"
    /\ desk[o].out[q] = None
    /\ decider[d].pc = "new"
    /\ decider' = [decider EXCEPT ![d] = [pc |-> "read", request |-> q, approved |-> approved]]
    /\ desk' = [desk EXCEPT ![o].out[q] = d]
    /\ UNCHANGED <<backend, faults, executor, abandoned, disturbed>>

\* This desk cannot know that an execution of q runs: another desk waits for it,
\* or one that waited for it no longer does.
Unseen(o, q) ==
    /\ Running(q) # {}
    /\ q \in abandoned \/ \E p \in Desks \ {o} : desk[p].out[q] \in Running(q)

Press(o, e, q) ==
    /\ desk[o].shown[q] = "APPROVED"
    /\ executor[e].pc = "new"
    /\ executor' = [executor EXCEPT ![e] = [pc |-> "read", request |-> q]]
    /\ desk' = [desk EXCEPT ![o].out[q] = e]
    /\ disturbed' = IF Unseen(o, q) THEN disturbed \union {q} ELSE disturbed
    /\ UNCHANGED <<backend, faults, decider, abandoned>>

\* Fault: the button stays enabled while its call is out.
run_twice(o, e, q) == Press(o, e, q)

\* MutationButton "Execute draw", in the table of approved requests.
run(o, e, q) == desk[o].out[q] = None /\ Press(o, e, q)

Answered(c) == IF c \in Deciders THEN decider[c].pc \in {"done", "refused"}
                                 ELSE executor[c].pc \in {"done", "refused", "error"}
Succeeded(c) == IF c \in Deciders THEN decider[c].pc = "done" ELSE executor[c].pc = "done"

\* post returns: the buttons are enabled again, and a success refreshes the page.
post_returns(o, q) ==
    /\ desk[o].out[q] # None
    /\ Answered(desk[o].out[q])
    /\ desk' = [desk EXCEPT ![o].out[q] = None,
                            ![o].stale = @ \/ Succeeded(desk[o].out[q])]
    /\ UNCHANGED <<backend, faults, decider, executor, abandoned, disturbed>>

\* forward gives up after 15 s, while the backend may be polling for longer.
forward_times_out(o, q) ==
    /\ faults < MaxFaults
    /\ desk[o].out[q] # None
    /\ desk' = [desk EXCEPT ![o].out[q] = None]
    /\ abandoned' = abandoned \union Dropped(o, [desk[o].out EXCEPT ![q] = None])
    /\ faults' = faults + 1
    /\ UNCHANGED <<backend, decider, executor, disturbed>>
----------------------------------------------------------------------------

Init ==
    /\ top_up = [q \in TopUps |-> [agent |-> None, amount |-> 0, status |-> "none"]]
    /\ decider = [d \in Deciders |-> [pc |-> "new", request |-> None, approved |-> FALSE]]
    /\ executor = [e \in Executors |-> [pc |-> "new", request |-> None]]
    /\ sweep = [s \in Sweeps |-> NoSweep]
    /\ owed = [a \in Agents |-> 0]
    /\ exposure = [a \in Agents |-> 0]
    /\ events = << >>
    /\ alerts = [a \in Agents |-> [k \in AlertKinds |-> 0]]
    /\ desk = [o \in Desks |-> [shown |-> NothingShown, out |-> NoCallOut, stale |-> FALSE]]
    /\ abandoned = {} /\ disturbed = {}
    /\ faults = 0
    /\ NoCalls

Decision(d) ==
    \/ decideTopUp(d)
    \/ decide_write(d)

Execution(e) ==
    \/ executeTopUp(e)
    \/ draw_send(e)
    \/ draw_poll(e)
    \/ execute_settle(e)
    \/ ExecuteError(e)
    \/ execute_failed(e)
    \/ ExecuteCrash(e)

Sweep(s) ==
    \/ sweepRegion(s)
    \/ \E a \in Agents : sweep_find(s, a) \/ sweep_create(s, a)

Page(o) ==
    \/ LiquidityPage(o)
    \/ refresh(o)
    \/ \E q \in TopUps :
          \/ \E d \in Deciders, approved \in BOOLEAN : decide(o, d, q, approved)
          \/ \E e \in Executors : run(o, e, q)
          \/ post_returns(o, q)
          \/ forward_times_out(o, q)

Next ==
    \/ \E q \in TopUps : \/ \E a \in Agents, n \in Amounts : proposeTopUp(q, a, n)
                         \/ propose_create(q)
    \/ \E d \in Deciders : Decision(d)
    \/ \E e \in Executors : Execution(e) \/ draw_liquidity(e) \/ ExpireDraw(e)
    \/ \E s \in Sweeps : Sweep(s)
    \/ \E o \in Desks : Page(o)
    \/ projectPoolDraw

Spec == Init /\ [][Next]_vars
----------------------------------------------------------------------------
(* Properties. *)

DrawsOf(q) == {e \in Executors : executor[e].request = q /\ tx[e] = "landed"}

\* A human decides, a machine acts: float moves only for a request that some
\* operator approved, whatever handlers overlap, fail or die.
NothingMovesUnapproved ==
    \A e \in Executors :
        tx[e] # "none" => \E d \in Deciders : /\ decider[d].request = executor[e].request
                                              /\ decider[d].approved
                                              /\ decider[d].pc = "done"

\* What the row says and what the pool did agree.  A request that says EXECUTED
\* had its draw sent, and unless a poll gave up (which is taken for success) it
\* went through.  And it was drawn for once, however often an operator presses
\* the button, comes back to a stale page or reloads between two executions,
\* save in these cases: a second execution is started while one runs that
\* another desk waits for, or that no desk waits for any more, because the page
\* was reloaded or lost the form in a refresh or the proxy gave up, be it this
\* desk's page or another's; an execution crashed; or a row that was no longer
\* pending was decided again.
OneRequestOneDraw ==
    \A q \in TopUps :
        /\ top_up[q].status = "EXECUTED" =>
               /\ \E e \in Executors : executor[e].request = q /\ tx[e] # "none"
               /\ timeouts = 0 => DrawsOf(q) # {}
        /\ q \notin disturbed => Cardinality(DrawsOf(q)) <= 1
============================================================================
