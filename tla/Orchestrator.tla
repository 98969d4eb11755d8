---------------------------- MODULE Orchestrator ----------------------------
(***************************************************************************)
(* class Orchestrator and class Budget: the actions of an experiment, run  *)
(* in order, each execution of one (an attempt) reserved, started, settled *)
(* and finished in the journal, by a sequence of processes of which any    *)
(* may die between two steps or inside a write.                            *)
(*                                                                         *)
(* The journal is the ledger that module Journal implements: one process   *)
(* at a time (run.lock), records are only added, and a write cut short     *)
(* leaves the complete records of its block and possibly a fragment.       *)
(*                                                                         *)
(* Every call of run() is several steps, one per journal append. Amounts   *)
(* are natural numbers per resource (GPU seconds, tokens). Journals        *)
(* without attempt ids and budget_released records are older formats this  *)
(* program reads but does not write; they are left out.                    *)
(***************************************************************************)
EXTENDS Naturals, Sequences, FiniteSets, Functions, SequencesExt

CONSTANTS
  Name,       (* logical action names                                      *)
  NoName,     (* the action_id of a record that is about no action         *)
  Calls,      (* what the driver passes to run(): a sequence of name lists *)
  Resource,   (* what the budget counts                                    *)
  Estimate,   (* estimated cost of each action                             *)
  Measured,   (* costs an action's result may report                       *)
  Limit,      (* the budget                                                *)
  Identity,   (* input identities a process may declare its actions with   *)
  NoIdentity, (* no input_hash                                             *)
  Cancellable,(* the driver passes a cancel event                          *)
  MaxStarts   (* bound: processes ever started on the run directory        *)

Cost == [Resource -> Nat]

ASSUME NameAssumption == NoName \notin Name
ASSUME IdentityAssumption == NoIdentity \notin Identity
ASSUME CallsAssumption ==
  /\ Calls \in Seq(Seq(Name)) /\ Calls # << >>
  /\ \A c \in DOMAIN Calls : IsInjective(Calls[c])
ASSUME CostAssumption ==
  Estimate \in [Name -> Cost] /\ Measured \subseteq Cost /\ Limit \in Cost
ASSUME MaxStartsAssumption == MaxStarts \in Nat

VARIABLES
  journal,    (* complete records, oldest first                            *)
  torn,       (* a fragment follows them                                   *)
  starts,     (* processes started so far                                  *)
  fresh,      (* attempt ids handed out so far (uuid4)                     *)
  pc,         (* where the process is                                      *)
  call,       (* which call of run() it is in                              *)
  pos,        (* the action of that call's list                            *)
  resume,     (* run()'s resume argument                                   *)
  identity,   (* input_hash of the actions this process declares           *)
  attempt,    (* the attempt being executed                                *)
  budget,     (* the Budget object                                         *)
  state,      (* Orchestrator.state                                        *)
  done,       (* run()'s local: names that need no execution               *)
  disowned    (* Orchestrator._disowned, as positions in the journal       *)

fileVars == <<journal, torn>>
memVars == <<call, pos, resume, identity, attempt, budget, state, done, disowned>>
vars == <<journal, torn, starts, fresh, pc, call, pos, resume, identity,
          attempt, budget, state, done, disowned>>

Zero == [r \in Resource |-> 0]
Plus(a, b) == [r \in Resource |-> a[r] + b[r]]
Minus(a, b) == [r \in Resource |-> a[r] - b[r]]

NewBudget == [settled |-> Zero, reserved |-> Zero, open |-> << >>]

Kinds == {"journal_recovered", "budget_reserved", "budget_refused",
          "action_started", "budget_settled", "action_finished",
          "action_interrupted", "attempt_uncertain", "journal_disowned",
          "experiment_done"}

Record == [kind : Kinds, name : Name \cup {NoName}, attempt : Nat,
           input : Identity \cup {NoIdentity}, cost : Cost]

Entry(kind, name, id, input, cost) ==
  [kind |-> kind, name |-> name, attempt |-> id, input |-> input, cost |-> cost]

Phase == {"down", "loading", "entering", "reconciling", "trusting", "looping",
          "starting", "running", "closing", "returned"}

Actions == Calls[call]
Current == Actions[pos]

-----------------------------------------------------------------------------
(* Budget arithmetic, shared by the live object and the replay.            *)

Hold(b, id, cost) ==
  [settled |-> b.settled,
   reserved |-> Plus(b.reserved, cost),
   open |-> [x \in DOMAIN b.open \cup {id} |-> IF x = id THEN cost ELSE b.open[x]]]

(* A settlement consumes its own attempt's reservation and no other.       *)
Settle(b, id, cost) ==
  [settled |-> Plus(b.settled, cost),
   reserved |-> IF id \in DOMAIN b.open THEN Minus(b.reserved, b.open[id])
                ELSE b.reserved,
   open |-> Restrict(b.open, DOMAIN b.open \ {id})]

Account(b, e) ==
  CASE e.kind = "budget_reserved" -> Hold(b, e.attempt, e.cost)
    [] e.kind = "budget_settled" -> Settle(b, e.attempt, e.cost)
    [] OTHER -> b

Replay(s) ==
  LET upTo[n \in 0 .. Len(s)] ==
        IF n = 0 THEN NewBudget ELSE Account(upTo[n - 1], s[n])
  IN  upTo[Len(s)]

Affordable(b, cost) ==
  \A r \in Resource : b.settled[r] + b.reserved[r] + cost[r] <= Limit[r]

-----------------------------------------------------------------------------
(* What the records say of an attempt.                                     *)

HasIn(s, kind, id) == \E i \in DOMAIN s : s[i].kind = kind /\ s[i].attempt = id
MarkedIn(s, id) ==
  HasIn(s, "action_interrupted", id) \/ HasIn(s, "attempt_uncertain", id)

Has(kind, id) == HasIn(journal, kind, id)
Marked(id) == MarkedIn(journal, id)

Listed(n) == \E i \in DOMAIN Actions : Actions[i] = n

(* Mutant: earlier markers are not looked at.                              *)
UnresolvedAgain ==
  {i \in DOMAIN journal :
     /\ journal[i].kind = "action_started"
     /\ Listed(journal[i].name)
     /\ ~Has("action_finished", journal[i].attempt)}

(* Started attempts of this call's actions with neither a finish nor a     *)
(* marker of an earlier recovery.                                          *)
Unresolved ==
  {i \in DOMAIN journal :
     /\ journal[i].kind = "action_started"
     /\ Listed(journal[i].name)
     /\ ~Has("action_finished", journal[i].attempt)
     /\ ~Marked(journal[i].attempt)}

First(S) == CHOOSE i \in S : \A j \in S : i <= j

CostIn(kind, id) ==
  journal[CHOOSE i \in DOMAIN journal :
            journal[i].kind = kind /\ journal[i].attempt = id].cost

(* The record recovery writes about one started attempt: its cost stands   *)
(* and its completion is unknown, or only its reservation is held. (The    *)
(* totals that budget_refused and experiment_done repeat are left out.)    *)
Marker(e) ==
  IF Has("budget_settled", e.attempt)
  THEN Entry("attempt_uncertain", e.name, e.attempt, NoIdentity,
             CostIn("budget_settled", e.attempt))
  ELSE Entry("action_interrupted", e.name, e.attempt, NoIdentity,
             CostIn("budget_reserved", e.attempt))

(* _trusted_finished: a finish counts if it pins the declared identity.    *)
Finishes == {i \in DOMAIN journal : journal[i].kind = "action_finished"
                                    /\ Listed(journal[i].name)}

(* Mutant: a finish under another identity hides the good ones.            *)
TrustedIfUndisputed ==
  {n \in {journal[i].name : i \in Finishes} :
     \A i \in Finishes : journal[i].name = n => journal[i].input = identity}

Trusted == {journal[i].name : i \in {j \in Finishes : journal[j].input = identity}}
Foreign == {i \in Finishes : journal[i].input # identity} \ disowned

AlreadyDone == \E i \in DOMAIN journal : journal[i].kind = "experiment_done"
AllTrusted == \A i \in DOMAIN Actions : Actions[i] \in Trusted

-----------------------------------------------------------------------------
(* The blocks each step writes.                                            *)

Recovered == <<Entry("journal_recovered", NoName, 0, NoIdentity, Zero)>>

MarkerBlock == <<Marker(journal[First(Unresolved)])>>

DisownBlock ==
  LET e == journal[First(Foreign)]
  IN  <<Entry("journal_disowned", e.name, e.attempt, NoIdentity, Zero)>>

ReserveBlock == <<Entry("budget_reserved", Current, fresh + 1, NoIdentity, Estimate[Current])>>

RefuseBlock == <<Entry("budget_refused", Current, 0, NoIdentity, Zero)>>

StartBlock == <<Entry("action_started", Current, attempt, identity, Zero)>>

(* A result without a measurement settles the action's own estimate.       *)
Results == Measured \cup {Estimate[Current]}

CommitBlock(cost) ==
  <<Entry("budget_settled", Current, attempt, NoIdentity, cost),
    Entry("action_finished", Current, attempt, identity, Zero)>>

DoneBlock == <<Entry("experiment_done", NoName, 0, NoIdentity, Zero)>>

Log(block) ==
  /\ journal' = journal \o block
  /\ UNCHANGED torn

Remember(varsKept) == UNCHANGED <<starts, identity, varsKept>>

(* The memory of a process that is gone, and of one that starts.           *)
Forget ==
  /\ pc' = "down"
  /\ call' = 1
  /\ pos' = 1
  /\ attempt' = 0
  /\ budget' = NewBudget
  /\ state' = "running"
  /\ done' = {}
  /\ disowned' = {}
  /\ resume' = FALSE
  /\ identity' = NoIdentity
  /\ UNCHANGED <<starts, fresh>>

-----------------------------------------------------------------------------
(* A process starts on the run directory (Orchestrator.__init__, under     *)
(* run.lock), to resume it or not.                                         *)
Spawn ==
  /\ pc = "down"
  /\ starts < MaxStarts
  /\ starts' = starts + 1
  /\ resume' \in BOOLEAN
  /\ identity' \in Identity
  /\ pc' = "loading"
  /\ UNCHANGED <<fileVars, fresh, call, pos, attempt, budget, state, done, disowned>>

(* Journal.__init__: a fragment is dropped and the drop recorded.          *)
Load ==
  /\ pc = "loading"
  /\ journal' = IF torn THEN journal \o Recovered ELSE journal
  /\ torn' = FALSE
  /\ pc' = "entering"
  /\ Remember(<<fresh, call, pos, resume, attempt, budget, state, done, disowned>>)

(* Mutant: the reservations of interrupted attempts are not restored.      *)
EnterWithoutReservations ==
  /\ pc = "entering"
  /\ resume \/ journal = << >>
  /\ budget' = IF resume THEN [Replay(journal) EXCEPT !.reserved = Zero] ELSE budget
  /\ pc' = IF resume THEN "reconciling" ELSE "trusting"
  /\ Remember(<<fileVars, fresh, call, pos, resume, attempt, state, done, disowned>>)

(* Mutant: only the first call of a process that resumes reconciles.       *)
EnterWithoutRecovery ==
  /\ pc = "entering"
  /\ resume \/ journal = << >>
  /\ budget' = IF resume THEN Replay(journal) ELSE budget
  /\ pc' = IF resume /\ call = 1 THEN "reconciling" ELSE "trusting"
  /\ Remember(<<fileVars, fresh, call, pos, resume, attempt, state, done, disowned>>)

(* run() begins: a resumed run adopts the durable totals before anything   *)
(* else.                                                                   *)
Enter ==
  /\ pc = "entering"
  /\ resume \/ journal = << >>
  /\ budget' = IF resume THEN Replay(journal) ELSE budget
  /\ pc' = IF resume THEN "reconciling" ELSE "trusting"
  /\ Remember(<<fileVars, fresh, call, pos, resume, attempt, state, done, disowned>>)

(* A journal with records and no resume: ValueError.                       *)
Raise ==
  /\ pc = "entering"
  /\ ~resume /\ journal # << >>
  /\ Forget
  /\ UNCHANGED fileVars

(* _reconcile_attempts: one marker per unresolved attempt, in the order    *)
(* the attempts started.                                                   *)
Reconcile ==
  /\ pc = "reconciling"
  /\ Unresolved # {}
  /\ Log(MarkerBlock)
  /\ Remember(<<fresh, pc, call, pos, resume, attempt, budget, state, done, disowned>>)

Reconciled ==
  /\ pc = "reconciling"
  /\ Unresolved = {}
  /\ pc' = "trusting"
  /\ Remember(<<fileVars, fresh, call, pos, resume, attempt, budget, state, done, disowned>>)

Disown ==
  /\ pc = "trusting"
  /\ Foreign # {}
  /\ Log(DisownBlock)
  /\ disowned' = disowned \cup {First(Foreign)}
  /\ Remember(<<fresh, pc, call, pos, resume, attempt, budget, state, done>>)

Trust ==
  /\ pc = "trusting"
  /\ Foreign = {}
  /\ done' = Trusted
  /\ pc' = "looping"
  /\ Remember(<<fileVars, fresh, call, pos, resume, attempt, budget, state, disowned>>)

AtAction == pc = "looping" /\ pos <= Len(Actions)

(* Mutant: a finished action leaves the loop where it is.                  *)
SkipWithoutAdvance ==
  /\ AtAction
  /\ Current \in done
  /\ Remember(<<fileVars, fresh, pc, call, pos, resume, attempt, budget, state, done, disowned>>)

Skip ==
  /\ AtAction
  /\ Current \in done
  /\ pos' = pos + 1
  /\ Remember(<<fileVars, fresh, pc, call, resume, attempt, budget, state, done, disowned>>)

(* Cancel is honoured between actions.                                     *)
Cancel ==
  /\ AtAction
  /\ Current \notin done
  /\ Cancellable
  /\ state' = "cancelled"
  /\ pc' = "closing"
  /\ Remember(<<fileVars, fresh, call, pos, resume, attempt, budget, done, disowned>>)

Refuse ==
  /\ AtAction
  /\ Current \notin done
  /\ ~Affordable(budget, Estimate[Current])
  /\ state' = "budget_exhausted"
  /\ Log(RefuseBlock)
  /\ pc' = "closing"
  /\ Remember(<<fresh, call, pos, resume, attempt, budget, done, disowned>>)

(* try_reserve under a fresh attempt id.                                   *)
Reserve ==
  /\ AtAction
  /\ Current \notin done
  /\ Affordable(budget, Estimate[Current])
  /\ fresh' = fresh + 1
  /\ attempt' = fresh'
  /\ budget' = Hold(budget, attempt', Estimate[Current])
  /\ Log(ReserveBlock)
  /\ pc' = "starting"
  /\ Remember(<<call, pos, resume, state, done, disowned>>)

Start ==
  /\ pc = "starting"
  /\ Log(StartBlock)
  /\ pc' = "running"
  /\ Remember(<<fresh, call, pos, resume, attempt, budget, state, done, disowned>>)

(* Mutant: the live budget keeps the reservation of a settled attempt.     *)
FinishKeepingReservation ==
  /\ pc = "running"
  /\ \E cost \in Results :
       /\ Log(CommitBlock(cost))
       /\ budget' = [budget EXCEPT !.settled = Plus(@, cost)]
  /\ pos' = pos + 1
  /\ pc' = "looping"
  /\ Remember(<<fresh, call, resume, attempt, state, done, disowned>>)

(* The action returned: settlement and finish are one block, then the live *)
(* budget follows.                                                         *)
Finish ==
  /\ pc = "running"
  /\ \E cost \in Results :
       /\ Log(CommitBlock(cost))
       /\ budget' = Settle(budget, attempt, cost)
  /\ pos' = pos + 1
  /\ pc' = "looping"
  /\ Remember(<<fresh, call, resume, attempt, state, done, disowned>>)

EndOfList ==
  /\ pc = "looping"
  /\ pos > Len(Actions)
  /\ pc' = "closing"
  /\ Remember(<<fileVars, fresh, call, pos, resume, attempt, budget, state, done, disowned>>)

Completes == state = "running" /\ AllTrusted

(* The end of run(): experiment_done unless the journal has it already; a  *)
(* state other than running is kept.                                       *)
Close ==
  /\ pc = "closing"
  /\ IF Completes /\ ~AlreadyDone THEN Log(DoneBlock) ELSE UNCHANGED fileVars
  /\ state' = IF Completes THEN "completed" ELSE state
  /\ pc' = "returned"
  /\ Remember(<<fresh, call, pos, resume, attempt, budget, done, disowned>>)

(* The driver's next call of run() on the same object always resumes.      *)
NextCall ==
  /\ pc = "returned"
  /\ state = "completed"
  /\ call < Len(Calls)
  /\ call' = call + 1
  /\ pos' = 1
  /\ resume' = TRUE
  /\ done' = {}
  /\ pc' = "entering"
  /\ Remember(<<fileVars, fresh, attempt, budget, state, disowned>>)

-----------------------------------------------------------------------------
(* The process ends between two steps: it returned to its driver for good, *)
(* or it died.                                                             *)
Exit ==
  /\ pc # "down"
  /\ Forget
  /\ UNCHANGED fileVars

(* What the process may be writing now.                                    *)
Pending ==
  CASE pc = "loading" /\ torn -> {Recovered}
    [] pc = "reconciling" /\ Unresolved # {} -> {MarkerBlock}
    [] pc = "trusting" /\ Foreign # {} -> {DisownBlock}
    [] AtAction /\ Current \notin done ->
         {IF Affordable(budget, Estimate[Current]) THEN ReserveBlock ELSE RefuseBlock}
    [] pc = "starting" -> {StartBlock}
    [] pc = "running" -> {CommitBlock(cost) : cost \in Results}
    [] pc = "closing" /\ Completes /\ ~AlreadyDone -> {DoneBlock}
    [] OTHER -> {}

(* The process dies inside a write: complete records of the block, then a  *)
(* fragment or not.                                                        *)
TornWrite ==
  /\ \E block \in Pending : \E n \in 0 .. Len(block) - 1 :
       /\ journal' = journal \o SubSeq(block, 1, n)
       /\ torn' \in IF n = 0 THEN {TRUE} ELSE BOOLEAN
  /\ Forget

-----------------------------------------------------------------------------
Init ==
  /\ journal = << >>
  /\ torn = FALSE
  /\ starts = 0
  /\ fresh = 0
  /\ pc = "down"
  /\ call = 1
  /\ pos = 1
  /\ resume = FALSE
  /\ identity = NoIdentity
  /\ attempt = 0
  /\ budget = NewBudget
  /\ state = "running"
  /\ done = {}
  /\ disowned = {}

RunStep ==
  \/ Load \/ Enter \/ Raise \/ Reconcile \/ Reconciled \/ Disown \/ Trust
  \/ Skip \/ Cancel \/ Refuse \/ Reserve \/ Start
  \/ Finish \/ EndOfList \/ Close \/ NextCall

Next == Spawn \/ RunStep \/ Exit \/ TornWrite

Spec == Init /\ [][Next]_vars

(* A live process keeps executing: every append returns, and the ports an  *)
(* action calls have timeouts. No process has to be started.               *)
FairSpec == Spec /\ WF_vars(RunStep)

-----------------------------------------------------------------------------
TypeOK ==
  /\ journal \in Seq(Record)
  /\ torn \in BOOLEAN
  /\ starts \in Nat
  /\ fresh \in Nat
  /\ pc \in Phase
  /\ call \in DOMAIN Calls
  /\ pos \in 1 .. Len(Actions) + 1
  /\ resume \in BOOLEAN
  /\ identity \in Identity \cup {NoIdentity}
  /\ attempt \in 0 .. fresh
  /\ state \in {"running", "completed", "cancelled", "budget_exhausted"}
  /\ done \subseteq Name
  /\ disowned \subseteq DOMAIN journal

(* No record about an attempt is written twice, however many processes     *)
(* recover the journal: an attempt is billed at most once (the replay      *)
(* raises on a second settlement) and gets exactly one recovery marker.    *)
OnceIn(s) ==
  \A i, j \in DOMAIN s :
    (/\ s[i].kind = s[j].kind
     /\ s[i].attempt = s[j].attempt
     /\ s[i].attempt # 0
     /\ s[i].kind # "journal_disowned") => i = j

OncePerAttempt == OnceIn(journal)

(* Nothing is started before it is reserved, billed before it is started,  *)
(* or finished before it is billed, for the same attempt of the same       *)
(* action.                                                                 *)
Before == [action_started |-> "budget_reserved",
           budget_settled |-> "action_started",
           action_finished |-> "budget_settled"]

OrderedIn(s) ==
  \A i \in DOMAIN s : s[i].kind \in DOMAIN Before =>
    \E j \in 1 .. i - 1 : /\ s[j].kind = Before[s[i].kind]
                         /\ s[j].attempt = s[i].attempt
                         /\ s[j].name = s[i].name

StepsInOrder == OrderedIn(journal)

(* A recovery verdict is final: an attempt marked interrupted never has a  *)
(* settlement, an uncertain one always has, and neither is ever finished   *)
(* ("interrupted work is re-runnable and NEVER counts as completed").      *)
FinalIn(s) ==
  \A i \in DOMAIN s :
    /\ s[i].kind \in {"action_interrupted", "attempt_uncertain"} =>
         ~HasIn(s, "action_finished", s[i].attempt)
    /\ s[i].kind = "action_interrupted" => ~HasIn(s, "budget_settled", s[i].attempt)
    /\ s[i].kind = "attempt_uncertain" => HasIn(s, "budget_settled", s[i].attempt)

VerdictIsFinal == FinalIn(journal)

(* What the journal says of an attempt is its whole history, whoever wrote *)
(* it: once each, in order, and with a verdict that stands.                *)
AttemptHistory == OncePerAttempt /\ StepsInOrder /\ VerdictIsFinal

(* An action is executed again only after its earlier attempt finished or  *)
(* was marked by recovery: no attempt is forgotten between two others.     *)
ResolvedIn(s, id) == HasIn(s, "action_finished", id) \/ MarkedIn(s, id)

RerunsIn(s) ==
  \A i, j \in DOMAIN s :
    (/\ i < j
     /\ s[i].kind = "action_started"
     /\ s[j].kind = "action_started"
     /\ s[i].name = s[j].name) => ResolvedIn(s, s[i].attempt)

RerunsAreMarked == RerunsIn(journal)

(* The live budget is the durable one: what try_reserve compares with the  *)
(* limit is what a replay of the journal gives, at every action boundary   *)
(* of every process, resumed or not.                                       *)
MemoryIsReplay ==
  pc \in {"reconciling", "trusting", "looping", "starting", "running", "closing", "returned"}
    => budget = Replay(journal)

(* An interrupted attempt keeps its whole estimate in the ledger for good: *)
(* no later settlement, by any process, releases it.                       *)
InterruptedStaysHeld ==
  \A i \in DOMAIN journal : journal[i].kind = "action_interrupted" =>
    LET held == Replay(journal).open
    IN  /\ journal[i].attempt \in DOMAIN held
        /\ held[journal[i].attempt] = journal[i].cost
        /\ journal[i].cost = Estimate[journal[i].name]

(* The budget is nothing but the journal read again, and reading it again  *)
(* forgives no crash.                                                      *)
BudgetIsReplay == MemoryIsReplay /\ InterruptedStaysHeld

Added(kind) ==
  {i \in DOMAIN journal' \ DOMAIN journal : journal'[i].kind = kind}

(* No reservation takes the durable total (settled costs and everything    *)
(* held, by crashed attempts too) past the limit, so an action that keeps  *)
(* crashing ends in budget_exhausted instead of running for free.          *)
SpendingGate ==
  [][ Added("budget_reserved") # {} =>
        LET b == Replay(journal')
        IN  \A r \in Resource : b.settled[r] + b.reserved[r] <= Limit[r] ]_vars

(* An action whose finish is in the journal under the declared identity is *)
(* never executed again, by this process or a later one.                   *)
NoRerun ==
  [][ \A i \in Added("action_started") : \A j \in DOMAIN journal :
        ~ /\ journal[j].kind = "action_finished"
          /\ journal[j].name = journal'[i].name
          /\ journal[j].input = journal'[i].input ]_vars

(* run() always comes back to its driver unless its process goes away.     *)
RunReturns == pc = "entering" ~> pc \in {"returned", "down"}

(* "experiment_done - terminal, written only when every action finished":  *)
(* after it, no action starts. That is true of one call of run() only.     *)
DoneIsTerminal == [][ AlreadyDone => Added("action_started") = {} ]_vars

(* The inductive invariant. Of the journal: every attempt id has been      *)
(* handed out, and the four properties above hold.                         *)
AboutAttempts == {"budget_reserved", "action_started", "budget_settled",
                  "action_finished", "action_interrupted", "attempt_uncertain"}

HandedOutIn(s, n) ==
  \A i \in DOMAIN s :
    s[i].attempt <= n /\ (s[i].kind \in AboutAttempts => s[i].attempt # 0)

JournalFacts(s, n) ==
  HandedOutIn(s, n) /\ OnceIn(s) /\ OrderedIn(s) /\ FinalIn(s) /\ RerunsIn(s)

(* Of the process: the attempt in its hands has no outcome in the journal; *)
(* every other attempt of this call's actions has one; and what it will    *)
(* not skip is not finished.                                               *)
HasOf(s, kind, id, n) ==
  \E i \in DOMAIN s : s[i].kind = kind /\ s[i].attempt = id /\ s[i].name = n

AttemptInHand ==
  /\ pc \in {"starting", "running"} =>
       /\ attempt # 0
       /\ pos <= Len(Actions)
       /\ Current \notin done
       /\ HasOf(journal, "budget_reserved", attempt, Current)
       /\ ~Has("budget_settled", attempt)
       /\ ~ResolvedIn(journal, attempt)
  /\ pc = "starting" => ~Has("action_started", attempt)
  /\ pc = "running" => HasOf(journal, "action_started", attempt, Current)

OthersResolved ==
  pc \in {"trusting", "looping", "starting", "running"} =>
    \A i \in DOMAIN journal :
      journal[i].kind = "action_started" /\ Listed(journal[i].name) =>
        \/ ResolvedIn(journal, journal[i].attempt)
        \/ pc = "running" /\ journal[i].attempt = attempt

FinishedIsSkipped ==
  pc \in {"looping", "starting", "running"} =>
    \A n \in Trusted : n \in done \/ \E q \in 1 .. pos - 1 : Actions[q] = n

RunInv ==
  /\ TypeOK
  /\ JournalFacts(journal, fresh)
  /\ AttemptInHand
  /\ OthersResolved
  /\ FinishedIsSkipped

(* The inductive invariant of the budget. Of the journal: what a replay    *)
(* gives is a budget; each attempt is reserved at its action's estimate,   *)
(* and held until it is settled; an interrupted marker quotes the          *)
(* reservation.                                                            *)
IsBudget(b) ==
  /\ b = [settled |-> b.settled, reserved |-> b.reserved, open |-> b.open]
  /\ b.settled \in Cost
  /\ b.reserved \in [Resource -> Int]
  /\ \A id \in DOMAIN b.open : b.open[id] \in Cost

HeldIn(s, open) ==
  \A i \in DOMAIN s : s[i].kind = "budget_reserved" =>
    /\ s[i].cost = Estimate[s[i].name]
    /\ \/ HasIn(s, "budget_settled", s[i].attempt)
       \/ s[i].attempt \in DOMAIN open /\ open[s[i].attempt] = s[i].cost

ReservedAs(s, e) ==
  \E j \in DOMAIN s : /\ s[j].kind = "budget_reserved"
                      /\ s[j].attempt = e.attempt
                      /\ s[j].name = e.name
                      /\ s[j].cost = e.cost

QuotedIn(s) ==
  \A i \in DOMAIN s : s[i].kind = "action_interrupted" => ReservedAs(s, s[i])

JournalHolds(s) ==
  IsBudget(Replay(s)) /\ HeldIn(s, Replay(s).open) /\ QuotedIn(s)

(* Of the process: until it has read the journal its budget is a new one.  *)
StartsUnspent ==
  pc = "down" \/ (pc \in {"loading", "entering"} /\ ~resume) => budget = NewBudget

BudgetInv ==
  /\ RunInv
  /\ JournalHolds(journal)
  /\ StartsUnspent
  /\ MemoryIsReplay

=============================================================================
