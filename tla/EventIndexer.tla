---------------------------- MODULE EventIndexer ----------------------------
(***************************************************************************)
(* The event indexer: backend/src/event-indexer.                           *)
(*                                                                         *)
(* Contract events become ChainEvent rows and projections (Transfer,       *)
(* Agent, AgentExposure).  Every await of the code is a step boundary, so  *)
(* a worker holds what it read while the chain, a restart, the operator or *)
(* another worker moves.  A failed RPC or database call and a crashed      *)
(* process look the same from the database: the tick ends where it was and *)
(* the next one starts from the cursor.                                    *)
(*                                                                         *)
(* The amounts of an event are left out: a projection copies them.  One    *)
(* sender and one corridor stand behind each transfer, with or without     *)
(* their off-chain rows.                                                   *)
(*                                                                         *)
(* A definition whose comment starts with "Fault" is no part of the model: *)
(* it is a wrong version of the definition after it, one that a property   *)
(* of this module is shown to notice.                                      *)
(***************************************************************************)
EXTENDS Integers, Sequences, FiniteSets, SequencesExt

CONSTANTS
    Workers,       \* indexer processes
    CONTRACT_IDS,  \* the contracts, in the order a tick visits them
    EscrowId, RegistryId, PoolId,
    Transfers,     \* ids of transfers that may be created
    Agents,        \* agents that claim, draw and change status
    AgentRows,     \* those of them with a row in Agent
    Kinds,         \* pairs of a contract and a kind of event it emits in this instance
    None,          \* an absent row or field
    Latest,        \* INDEXER_START_LEDGER = 'latest'
    StartLedger,   \* INDEXER_START_LEDGER: a ledger, or Latest
    PageLimit,     \* events in one getEvents response (200 in the code)
    MaxEvents,     \* bound: events emitted in a behaviour
    MaxLedger,     \* bound: ledgers closed in a behaviour
    MaxCrashes,    \* bound: ticks that fail or processes that die
    MaxRewinds     \* bound: cursors rewound by hand

ASSUME ContractsDiffer ==
    \A i, j \in DOMAIN CONTRACT_IDS : CONTRACT_IDS[i] = CONTRACT_IDS[j] => i = j
ASSUME StartIsALedger == StartLedger = Latest \/ StartLedger \in Nat
ASSUME BoundsAreNaturals ==
    /\ PageLimit \in Nat \ {0}
    /\ {MaxEvents, MaxLedger, MaxCrashes, MaxRewinds} \subseteq Nat

Contracts == Range(CONTRACT_IDS)
SettledKinds == {"claimed", "refunded", "cancelled"}
AgentStatuses == {"Pending", "Authorized", "Suspended", "Revoked"}

VARIABLES
    chain,        \* events in the order the contracts emitted them
    tip,          \* the latest closed ledger
    onboarded,    \* transfers whose sender and corridor have off-chain rows
    cursor,       \* IndexerCursor.lastLedger by contract, None when absent
    chain_event,  \* ChainEvent rows
    transfer,     \* Transfer rows by id, None when absent
    agent_status, \* Agent.status of the agents that have a row
    exposure,     \* AgentExposure.drawnAmount, 0 when there is no row
    task,         \* what each worker is doing
    first_read,   \* history: the first ledger each contract was read from
    tips,         \* history: ledgers that ended a window and became the cursor
    cut,          \* history: events that a full response left out of a window
                  \* which the cursor then passed
    moved,        \* history: events between the first window of a contract and
                  \* the window that its first cursor was saved after
    crashes, rewinds

env == <<chain, tip, onboarded>>
projections == <<transfer, agent_status, exposure>>
database == <<cursor, chain_event, projections>>
lost == <<tips, cut, moved>>
vars == <<env, database, task, first_read, lost, crashes, rewinds>>

\* Local variables of tick and persist: tip, the loop over the contracts, where
\* the window starts, the fetched page and the position in it.
Idle == [pc |-> "idle", tip |-> 0, contract |-> 0, from |-> 0, page |-> << >>, at |-> 0]
----------------------------------------------------------------------------
(* The chain, as the indexer sees it. *)

\* The events of a contract in the ledgers from start up to, but not including,
\* end, as getEvents takes startLedger and endLedger.
EventsOf(c, start, end) ==
    SelectSeq([n \in 1..Len(chain) |-> n],
              LAMBDA n : /\ chain[n].contractId = c
                         /\ chain[n].ledger >= start /\ chain[n].ledger < end)

\* A response holds so many of them, the oldest ones.
getEvents(c, start, end) ==
    LET found == EventsOf(c, start, end)
    IN  SubSeq(found, 1, IF Len(found) < PageLimit THEN Len(found) ELSE PageLimit)

Happened(kinds, subject) ==
    {n \in 1..Len(chain) : chain[n].kind \in kinds /\ chain[n].subject = subject}

\* What the contracts say last about a subject.
LastOf(kinds, subject, default) ==
    LET when == Happened(kinds, subject)
    IN  IF when = {} THEN default
        ELSE chain[CHOOSE n \in when : \A m \in when : m <= n]

Owed(a) == LastOf({"drawn", "repaid"}, a, [value |-> 0]).value

\* A unit variant of a contracttype enum crosses the ABI as a vector of one
\* symbol, which the SDK hands over as an array of one string.
ScEnum(variant) == [type |-> "array", item |-> variant]

Event(c, kind, subject, value) ==
    [contractId |-> c, ledger |-> tip + 1, kind |-> kind,
     subject |-> subject, value |-> value]

Emissions ==
    {Event(EscrowId, "created", t, None) :
        t \in {u \in Transfers : Happened({"created"}, u) = {}}}
    \union
    {Event(EscrowId, k, t, a) : k \in SettledKinds, a \in Agents,
        t \in {u \in Transfers : /\ Happened({"created"}, u) # {}
                                 /\ Happened(SettledKinds, u) = {}}}
    \union {Event(PoolId, "drawn", a, Owed(a) + 1) : a \in Agents}
    \union {Event(PoolId, "repaid", a, Owed(a) - 1) :
               a \in {b \in Agents : Owed(b) > 0}}
    \union {Event(RegistryId, "status", a, ScEnum(s)) :
               a \in Agents, s \in AgentStatuses \ {"Pending"}}
    \union {Event(c, k, None, None) : c \in Contracts, k \in {"other", "unknown"}}

\* A contract call of the ledger being closed emits an event.
Emit(e) ==
    /\ Len(chain) < MaxEvents
    /\ tip < MaxLedger
    /\ chain' = Append(chain, e)
    /\ UNCHANGED <<tip, onboarded, database, task, first_read, lost, crashes, rewinds>>

CloseLedger ==
    /\ tip < MaxLedger
    /\ tip' = tip + 1
    /\ UNCHANGED <<chain, onboarded, database, task, first_read, lost, crashes, rewinds>>

\* The User and Corridor rows behind a transfer come to exist.
Onboard(t) ==
    /\ onboarded' = onboarded \union {t}
    /\ UNCHANGED <<chain, tip, database, task, first_read, lost, crashes, rewinds>>
----------------------------------------------------------------------------
(* tick: one pass over the contracts. *)

latestLedger(w) ==
    /\ task[w].pc = "idle"
    /\ task' = [task EXCEPT ![w] = [Idle EXCEPT !.pc = "contract", !.tip = tip,
                                                !.contract = 1]]
    /\ UNCHANGED <<env, database, first_read, lost, crashes, rewinds>>

ContractOf(w) == CONTRACT_IDS[task[w].contract]

\* The next contract of the loop, or the end of the tick.
NextContract(w) ==
    IF task[w].contract = Len(CONTRACT_IDS) THEN Idle
    ELSE [task[w] EXCEPT !.pc = "contract", !.contract = @ + 1,
                         !.from = 0, !.page = << >>, !.at = 0]

from_ledger(c, seen) ==
    IF cursor[c] # None THEN cursor[c] + 1
    ELSE IF StartLedger = Latest THEN seen ELSE StartLedger

\* The tip is asked for as the end of the window.  An event's index is its
\* position in the response.
fetchEvents(c, fromLedger, toLedger) ==
    LET found == getEvents(c, fromLedger, toLedger)
    IN  [i \in DOMAIN found |-> [n |-> found[i], eventIndex |-> i - 1]]

Fetch(w, c, from) ==
    task' = [task EXCEPT ![w].pc = "event", ![w].at = 1, ![w].from = from,
                         ![w].page = fetchEvents(c, from, task[w].tip)]

\* Fault: the cursor moves on before the page is written.
read_page_and_advance(w) ==
    LET c    == ContractOf(w)
        from == from_ledger(c, task[w].tip)
    IN  /\ task[w].pc = "contract"
        /\ IF from > task[w].tip
           THEN /\ task' = [task EXCEPT ![w] = NextContract(w)]
                /\ UNCHANGED <<first_read, cursor>>
           ELSE /\ Fetch(w, c, from)
                /\ first_read' = [first_read EXCEPT ![c] =
                                     IF @ = None THEN from ELSE @]
                /\ cursor' = [cursor EXCEPT ![c] = task[w].tip]
        /\ UNCHANGED <<env, chain_event, projections, lost, crashes, rewinds>>

\* cursorFor and fetchEvents, up to the tip read when the tick began.
read_page(w) ==
    LET c    == ContractOf(w)
        from == from_ledger(c, task[w].tip)
    IN  /\ task[w].pc = "contract"
        /\ IF from > task[w].tip
           THEN /\ task' = [task EXCEPT ![w] = NextContract(w)]
                /\ UNCHANGED first_read
           ELSE /\ Fetch(w, c, from)
                /\ first_read' = [first_read EXCEPT ![c] =
                                     IF @ = None THEN from ELSE @]
        /\ UNCHANGED <<env, database, lost, crashes, rewinds>>

\* What the window of a worker holds and its page does not.
LeftOut(w) ==
    Range(EventsOf(ContractOf(w), task[w].from, task[w].tip))
        \ {task[w].page[i].n : i \in DOMAIN task[w].page}

\* What a contract was asked for before and is no longer, having no cursor.
Behind(w) ==
    IF cursor[ContractOf(w)] # None THEN {}
    ELSE Range(EventsOf(ContractOf(w), first_read[ContractOf(w)], task[w].from))

\* The page is written: the cursor goes to the tip of the tick.
saveCursor(w) ==
    /\ task[w].pc = "event"
    /\ task[w].at > Len(task[w].page)
    /\ cursor' = [cursor EXCEPT ![ContractOf(w)] = task[w].tip]
    /\ tips' = [tips EXCEPT ![ContractOf(w)] = @ \union {task[w].tip}]
    /\ cut' = cut \union LeftOut(w)
    /\ moved' = moved \union Behind(w)
    /\ task' = [task EXCEPT ![w] = NextContract(w)]
    /\ UNCHANGED <<env, chain_event, projections, first_read, crashes, rewinds>>
----------------------------------------------------------------------------
(* decodeEvent, persist and project: one event. *)

Raw(w) == chain[task[w].page[task[w].at].n]
InEvent(w, pc) == task[w].pc = pc /\ task[w].at <= Len(task[w].page)
Goto(w, pc) == task' = [task EXCEPT ![w].pc = pc]
NextEvent(w) == task' = [task EXCEPT ![w].pc = "event", ![w].at = @ + 1]

decodeEvent(e) == e.kind # "unknown"

Key(w) == [contractId |-> Raw(w).contractId, ledger |-> Raw(w).ledger,
           eventIndex |-> task[w].page[task[w].at].eventIndex]
KeyOf(row) == [contractId |-> row.contractId, ledger |-> row.ledger,
               eventIndex |-> row.eventIndex]
Exists(key) == \E row \in chain_event : KeyOf(row) = key

\* An undecodable event is skipped, and so is one whose key is taken.
persist_check(w) ==
    /\ InEvent(w, "event")
    /\ IF decodeEvent(Raw(w)) /\ ~Exists(Key(w)) THEN Goto(w, "project")
       ELSE NextEvent(w)
    /\ UNCHANGED <<env, database, first_read, lost, crashes, rewinds>>

\* An insert, or an update that says the transfer is pending.
projectTransferCreated(t) ==
    transfer' = IF t \notin onboarded THEN transfer
                ELSE [transfer EXCEPT ![t] =
                         IF @ = None
                         THEN [status |-> "PENDING", claimedBy |-> None,
                               agentId |-> None]
                         ELSE [@ EXCEPT !.status = "PENDING"]]

StatusFor == [claimed |-> "CLAIMED", refunded |-> "REFUNDED",
              cancelled |-> "CANCELLED"]

projectTransferSettled(t, kind, by) ==
    transfer' = IF transfer[t] = None THEN transfer
                ELSE [transfer EXCEPT
                         ![t].status = StatusFor[kind],
                         ![t].claimedBy = IF kind = "claimed" THEN by ELSE @]

\* The status is looked up only if it is a string; then every row of the agent
\* is updated.
projectAgentStatus(a, to) ==
    agent_status' = IF to.type = "string" /\ a \in AgentRows
                    THEN [agent_status EXCEPT ![a] = to.item]
                    ELSE agent_status

\* The event carries the resulting exposure, which replaces the row's.
projectPoolDraw(a, owed) ==
    exposure' = IF a \in AgentRows THEN [exposure EXCEPT ![a] = owed]
                ELSE exposure

\* A claim takes a second write, which links the agent's row.
Linked(w) == Raw(w).kind = "claimed" /\ transfer[Raw(w).subject] # None

project(w) ==
    LET e == Raw(w)
    IN  /\ InEvent(w, "project")
        /\ CASE e.kind = "created" ->
                  /\ projectTransferCreated(e.subject)
                  /\ UNCHANGED <<agent_status, exposure>>
             [] e.kind \in SettledKinds ->
                  /\ projectTransferSettled(e.subject, e.kind, e.value)
                  /\ UNCHANGED <<agent_status, exposure>>
             [] e.kind = "status" ->
                  /\ projectAgentStatus(e.subject, e.value)
                  /\ UNCHANGED <<transfer, exposure>>
             [] e.kind = "drawn" ->
                  /\ projectPoolDraw(e.subject, e.value)
                  /\ UNCHANGED <<transfer, agent_status>>
             [] OTHER -> UNCHANGED projections
        /\ Goto(w, IF Linked(w) THEN "link" ELSE "record")
        /\ UNCHANGED <<env, cursor, chain_event, first_read, lost, crashes, rewinds>>

project_link(w) ==
    /\ InEvent(w, "link")
    /\ LET by == Raw(w).value
       IN  transfer' = IF by \in AgentRows
                       THEN [transfer EXCEPT ![Raw(w).subject].agentId = by]
                       ELSE transfer
    /\ Goto(w, "record")
    /\ UNCHANGED <<env, cursor, chain_event, agent_status, exposure,
                   first_read, lost, crashes, rewinds>>

\* linkableTransferId: the transfer an event is attached to, if it has a row.
linkableTransferId(e) ==
    IF e.subject \in Transfers /\ transfer[e.subject] # None THEN e.subject
    ELSE None

\* The audit row; a taken key fails the insert and with it the tick.
persist_record(w) ==
    /\ InEvent(w, "record")
    /\ IF Exists(Key(w))
       THEN /\ task' = [task EXCEPT ![w] = Idle]
            /\ UNCHANGED chain_event
       ELSE /\ chain_event' = chain_event \union
                  {[contractId |-> Key(w).contractId, ledger |-> Key(w).ledger,
                    eventIndex |-> Key(w).eventIndex,
                    n |-> task[w].page[task[w].at].n,
                    transferId |-> linkableTransferId(Raw(w))]}
            /\ NextEvent(w)
    /\ UNCHANGED <<env, cursor, projections, first_read, lost, crashes, rewinds>>

\* Fault: the audit row first, the projection second.
persist_log_first(w) ==
    \/ /\ InEvent(w, "event")
       /\ decodeEvent(Raw(w)) /\ ~Exists(Key(w))
       /\ chain_event' = chain_event \union
             {[contractId |-> Key(w).contractId, ledger |-> Key(w).ledger,
               eventIndex |-> Key(w).eventIndex,
               n |-> task[w].page[task[w].at].n, transferId |-> None]}
       /\ Goto(w, "project")
       /\ UNCHANGED <<env, cursor, projections, first_read, lost, crashes, rewinds>>
    \/ /\ InEvent(w, "event")
       /\ ~decodeEvent(Raw(w)) \/ Exists(Key(w))
       /\ NextEvent(w)
       /\ UNCHANGED <<env, database, first_read, lost, crashes, rewinds>>
    \/ project(w)
    \/ project_link(w)
    \/ /\ InEvent(w, "record")
       /\ NextEvent(w)
       /\ UNCHANGED <<env, database, first_read, lost, crashes, rewinds>>

\* Look the key up, project, link, record: the order persist does them in.
persist(w) ==
    \/ persist_check(w)
    \/ project(w)
    \/ project_link(w)
    \/ persist_record(w)
----------------------------------------------------------------------------
(* Failures and the operator. *)

\* A call fails and the loop swallows the tick, or the process is restarted.
Crash(w) ==
    /\ task[w].pc # "idle"
    /\ crashes < MaxCrashes
    /\ task' = [task EXCEPT ![w] = Idle]
    /\ crashes' = crashes + 1
    /\ UNCHANGED <<env, database, first_read, lost, rewinds>>

\* The runbook's recovery: set a contract's cursor back by hand, with the
\* indexer stopped.
Rewind(c, ledger) ==
    /\ rewinds < MaxRewinds
    /\ \A w \in Workers : task[w].pc = "idle"
    /\ cursor[c] # None
    /\ ledger < cursor[c]
    /\ cursor' = [cursor EXCEPT ![c] = ledger]
    /\ rewinds' = rewinds + 1
    /\ UNCHANGED <<env, chain_event, projections, task, first_read, lost, crashes>>

Init ==
    /\ chain = << >>
    /\ tip = 1
    /\ onboarded = {}
    /\ cursor = [c \in Contracts |-> None]
    /\ chain_event = {}
    /\ transfer = [t \in Transfers |-> None]
    /\ agent_status = [a \in AgentRows |-> "Pending"]
    /\ exposure = [a \in AgentRows |-> 0]
    /\ task = [w \in Workers |-> Idle]
    /\ first_read = [c \in Contracts |-> None]
    /\ tips = [c \in Contracts |-> {}]
    /\ cut = {} /\ moved = {}
    /\ crashes = 0
    /\ rewinds = 0

Work(w) == latestLedger(w) \/ read_page(w) \/ persist(w) \/ saveCursor(w)

Next ==
    \/ \E e \in {x \in Emissions : <<x.contractId, x.kind>> \in Kinds} : Emit(e)
    \/ CloseLedger
    \/ \E t \in Transfers : Onboard(t)
    \/ \E w \in Workers : Work(w)
    \/ \E w \in Workers : Crash(w)
    \/ \E c \in Contracts, l \in 0..MaxLedger : Rewind(c, l)

Spec == Init /\ [][Next]_vars

\* The loop of run keeps taking ticks, and ledgers keep closing.
FairSpec == /\ Spec
            /\ WF_vars(CloseLedger)
            /\ \A w \in Workers : WF_vars(Work(w))
----------------------------------------------------------------------------
(* Properties. *)

Recorded(n) == \E row \in chain_event : row.n = n
AllRecorded(events) == \A n \in events : Recorded(n)

\* A decodable event that the cursor of its contract is at or past.
Passed(n) ==
    LET c == chain[n].contractId
    IN  /\ decodeEvent(chain[n])
        /\ cursor[c] # None
        /\ chain[n].ledger \in first_read[c]..cursor[c]

AtATip(n) == chain[n].ledger \in tips[chain[n].contractId]
Settled(n) == Recorded(n) \/ AtATip(n) \/ n \in cut \union moved

\* "The cursor advances only after the whole batch is written" (indexer.ts:24):
\* every decodable event from the first ledger read up to the cursor has its
\* ChainEvent row.  It is not so: see the run IndexerTip.
NothingSkipped == \A n \in 1..Len(chain) : Passed(n) => Recorded(n)

\* The same for the ledgers below the end of every window, which the node did
\* return events of.  It is not so when a response is full: see IndexerPage.
OnlyTipsSkipped == \A n \in 1..Len(chain) : Passed(n) => Recorded(n) \/ AtATip(n)

\* The cursor passes an event that is not written in three cases only: the
\* event is in a ledger that was the tip of a tick; it did not fit into a full
\* response; or INDEXER_START_LEDGER is 'latest' and every tick that would have
\* read it failed before the contract had a cursor.  No other failed tick or
\* restart, no late projection and no rewound cursor loses one.
SkipsAreNamed == \A n \in 1..Len(chain) : Passed(n) => Settled(n)

\* "A crash at any point means the same window is re-read on restart"
\* (docs/events.md:344): until a contract has a cursor, every window of it
\* starts where the first one did.  It is not so when INDEXER_START_LEDGER is
\* 'latest', its default: see IndexerLatest.
SameWindowReRead ==
    \A w \in Workers :
        task[w].pc = "event" /\ cursor[ContractOf(w)] = None
            => task[w].from = first_read[ContractOf(w)]

ChainStatus(t) ==
    LET last == LastOf({"created"} \union SettledKinds, t, [kind |-> "created"])
    IN  IF last.kind = "created" THEN "PENDING" ELSE StatusFor[last.kind]

\* Until an operator rewinds a cursor: once the events of a transfer are in the
\* log its row says what the contract says, the claimant and the link to the
\* agent's row included, however many times a crash had them projected again.
RowsFollowChain ==
    \A t \in Transfers :
        (/\ rewinds = 0
         /\ transfer[t] # None
         /\ AllRecorded(Happened({"created"} \union SettledKinds, t)))
        => /\ transfer[t].status = ChainStatus(t)
           /\ transfer[t].status = "CLAIMED" =>
                 LET by == LastOf({"claimed"}, t, None).value
                 IN  /\ transfer[t].claimedBy = by
                     /\ transfer[t].agentId = IF by \in AgentRows THEN by
                                              ELSE None

\* Until an operator rewinds a cursor, a draw that a crash has projected again
\* converges on the same exposure instead of counting twice.
DrawsConverge ==
    \A a \in AgentRows :
        (/\ rewinds = 0
         /\ Happened({"drawn"}, a) # {}
         /\ AllRecorded(Happened({"drawn"}, a)))
        => exposure[a] = LastOf({"drawn"}, a, None).value

\* The projections converge on the chain, whatever was projected twice.
ProjectionsConverge == RowsFollowChain /\ DrawsConverge

\* The contract was first read from a later ledger.
BeforeStart(n) ==
    LET first == first_read[chain[n].contractId]
    IN  first # None /\ chain[n].ledger < first

\* No event from the first window on is missed for good but in the three cases
\* of SkipsAreNamed: while the loop runs and ledgers close, each decodable event
\* reaches the log or is lost in one of them, whichever ticks failed before.
EveryEventSettled ==
    \A n \in 1..MaxEvents :
        (n <= Len(chain) /\ decodeEvent(chain[n]))
            ~> (n <= Len(chain) /\ (Settled(n) \/ BeforeStart(n)))
============================================================================
