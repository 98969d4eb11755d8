------------------------- MODULE OrchestratorProofs -------------------------
(***************************************************************************)
(* Proofs about module Orchestrator, for every set of actions, every       *)
(* sequence of run() calls, any budget and any number of processes.        *)
(*                                                                         *)
(* RunInv is inductive. Its part about the journal (JournalFacts) survives *)
(* any record that Allowed permits (lemma Grow); each writing action adds  *)
(* such records (the ...Allowed lemmas, from what RunInv says of the       *)
(* process) and restores what RunInv says of the process (the ...Keeps     *)
(* lemmas). A write cut short is the same with a shorter block.            *)
(*                                                                         *)
(* BudgetInv adds the budget: the live one is a replay of the journal, and *)
(* JournalHolds says what a replay is made of. One more record changes the *)
(* replay by what Account makes of that record (lemma ReplayOneMore).      *)
(***************************************************************************)
EXTENDS Orchestrator, SequenceTheorems, WellFoundedInduction, TLAPS

(* The first position of a set of positions is one of them.                *)
Less == {p \in Nat \X Nat : p[1] < p[2]}

LEMMA LessIsWellFounded == IsWellFoundedOn(Less, Nat)
  BY NatLessThanWellFounded, Zenon DEF OpToRel, Less

LEMMA FirstIsMember ==
  ASSUME NEW S, S \subseteq Nat, S # {}
  PROVE  First(S) \in S
  <1>1. PICK x \in S : \A y \in S : ~ (<<y, x>> \in Less)
    BY LessIsWellFounded, WFMin, Zenon
  <1>2. \A y \in S : x <= y
    <2> TAKE y \in S
    <2>1. ~ (y < x)
      BY <1>1 DEF Less
    <2> QED
      BY <2>1
  <1> QED
    BY <1>2 DEF First

(* A journal after one more record.                                        *)
LEMMA OneMore ==
  ASSUME NEW s \in Seq(Record), NEW e \in Record
  PROVE  LET t == s \o <<e>>
         IN  /\ t \in Seq(Record)
             /\ Len(s) \in Nat
             /\ DOMAIN s = 1 .. Len(s)
             /\ DOMAIN t = 1 .. Len(s) + 1
             /\ \A i \in 1 .. Len(s) : t[i] = s[i]
             /\ t[Len(s) + 1] = e
  <1> DEFINE t == s \o <<e>>
  <1>1. <<e>> \in Seq(Record) /\ Len(<<e>>) = 1 /\ <<e>>[1] = e
    OBVIOUS
  <1>2. t \in Seq(Record) /\ Len(t) = Len(s) + 1
    BY <1>1, ConcatProperties
  <1>3. /\ \A i \in 1 .. Len(s) : t[i] = s[i]
        /\ t[Len(s) + 1] = e
    BY <1>1, ConcatProperties
  <1> HIDE DEF t
  <1>4. DOMAIN t = 1 .. Len(s) + 1 /\ DOMAIN s = 1 .. Len(s) /\ Len(s) \in Nat
    BY <1>2
  <1> QED
    BY <1>2, <1>3, <1>4 DEF t

LEMMA HasGrows ==
  ASSUME NEW s \in Seq(Record), NEW e \in Record, NEW kind, NEW id
  PROVE  HasIn(s \o <<e>>, kind, id)
           <=> HasIn(s, kind, id) \/ (e.kind = kind /\ e.attempt = id)
  <1> DEFINE t == s \o <<e>>
  <1>1. /\ Len(s) \in Nat
        /\ DOMAIN s = 1 .. Len(s)
        /\ DOMAIN t = 1 .. Len(s) + 1
        /\ \A i \in 1 .. Len(s) : t[i] = s[i]
        /\ t[Len(s) + 1] = e
    BY OneMore
  <1> HIDE DEF t
  <1>2. HasIn(t, kind, id)
           <=> HasIn(s, kind, id) \/ (e.kind = kind /\ e.attempt = id)
    BY <1>1 DEF HasIn
  <1> QED
    BY <1>2 DEF t

(* What may be appended: the condition under which one more record keeps   *)
(* the facts about the journal.                                            *)
Allowed(s, e, n) ==
  /\ e \in Record
  /\ e.attempt <= n
  /\ e.kind \in AboutAttempts =>
       e.attempt # 0 /\ ~HasIn(s, e.kind, e.attempt)
  /\ e.kind \notin AboutAttempts \cup {"journal_disowned"} => e.attempt = 0
  /\ e.kind \in DOMAIN Before => HasOf(s, Before[e.kind], e.attempt, e.name)
  /\ e.kind = "action_started" =>
       \A i \in DOMAIN s : s[i].kind = "action_started" /\ s[i].name = e.name
                            => ResolvedIn(s, s[i].attempt)
  /\ e.kind \in {"budget_settled", "action_finished"} => ~MarkedIn(s, e.attempt)
  /\ e.kind \in {"action_interrupted", "attempt_uncertain"} =>
       ~HasIn(s, "action_finished", e.attempt)
  /\ e.kind = "action_interrupted" => ~HasIn(s, "budget_settled", e.attempt)
  /\ e.kind = "attempt_uncertain" => HasIn(s, "budget_settled", e.attempt)

LEMMA Grow ==
  ASSUME NEW s \in Seq(Record), NEW n \in Nat, NEW m \in Nat, n <= m,
         JournalFacts(s, n), NEW e, Allowed(s, e, m)
  PROVE  s \o <<e>> \in Seq(Record) /\ JournalFacts(s \o <<e>>, m)
  <1> DEFINE t == s \o <<e>>
             last == Len(s) + 1
  <1>1. e \in Record
    BY DEF Allowed
  <1>2. /\ t \in Seq(Record)
        /\ Len(s) \in Nat
        /\ DOMAIN s = 1 .. Len(s)
        /\ DOMAIN t = 1 .. last
        /\ \A i \in 1 .. Len(s) : t[i] = s[i]
        /\ t[last] = e
    BY <1>1, OneMore
  <1>3. \A kind, id : HasIn(t, kind, id)
           <=> HasIn(s, kind, id) \/ (e.kind = kind /\ e.attempt = id)
    BY <1>1, HasGrows
  <1>4. \A i \in DOMAIN s : s[i] \in Record
    BY <1>2, ElementOfSeq
  <1>5. \A i \in DOMAIN t : i \in DOMAIN s \/ i = last
    BY <1>2
  <1>6. HandedOutIn(s, n) /\ OnceIn(s) /\ OrderedIn(s) /\ FinalIn(s) /\ RerunsIn(s)
    BY DEF JournalFacts
  <1> HIDE DEF t
  <1>7. HandedOutIn(t, m)
    <2> SUFFICES ASSUME NEW i \in DOMAIN t
                 PROVE  /\ t[i].attempt <= m
                        /\ t[i].kind \in AboutAttempts => t[i].attempt # 0
      BY DEF HandedOutIn
    <2>1. CASE i \in DOMAIN s
      <3>1. t[i] = s[i] /\ s[i].attempt \in Nat
        BY <2>1, <1>2, <1>4 DEF Record
      <3>2. s[i].attempt <= n /\ (s[i].kind \in AboutAttempts => s[i].attempt # 0)
        BY <2>1, <1>6 DEF HandedOutIn
      <3> QED
        BY <3>1, <3>2
    <2>2. CASE i = last
      BY <2>2, <1>2 DEF Allowed
    <2> QED
      BY <2>1, <2>2, <1>5
  <1>8. OnceIn(t)
    <2> SUFFICES ASSUME NEW i \in DOMAIN t, NEW j \in DOMAIN t,
                        t[i].kind = t[j].kind, t[i].attempt = t[j].attempt,
                        t[i].attempt # 0, t[i].kind # "journal_disowned"
                 PROVE  i = j
      BY DEF OnceIn
    <2>1. CASE i \in DOMAIN s /\ j \in DOMAIN s
      BY <2>1, <1>2, <1>6 DEF OnceIn
    <2>2. ASSUME NEW k \in DOMAIN s, e.kind = s[k].kind, e.attempt = s[k].attempt,
                 e.attempt # 0, e.kind # "journal_disowned"
          PROVE  FALSE
      <3>1. HasIn(s, e.kind, e.attempt)
        BY <2>2 DEF HasIn
      <3> QED
        BY <2>2, <3>1 DEF Allowed
    <2> QED
      BY <2>1, <2>2, <1>2, <1>5
  <1>9. OrderedIn(t)
    <2> SUFFICES ASSUME NEW i \in DOMAIN t, t[i].kind \in DOMAIN Before
                 PROVE  \E j \in 1 .. i - 1 : /\ t[j].kind = Before[t[i].kind]
                                              /\ t[j].attempt = t[i].attempt
                                              /\ t[j].name = t[i].name
      BY DEF OrderedIn
    <2>1. CASE i \in DOMAIN s
      BY <2>1, <1>2, <1>6 DEF OrderedIn
    <2>2. CASE i = last
      <3>1. HasOf(s, Before[e.kind], e.attempt, e.name)
        BY <2>2, <1>2 DEF Allowed
      <3> QED
        BY <2>2, <3>1, <1>2 DEF HasOf
    <2> QED
      BY <2>1, <2>2, <1>5
  <1>10. FinalIn(t)
    <2> SUFFICES ASSUME NEW i \in DOMAIN t
                 PROVE  /\ t[i].kind \in {"action_interrupted", "attempt_uncertain"} =>
                             ~HasIn(t, "action_finished", t[i].attempt)
                        /\ t[i].kind = "action_interrupted" =>
                             ~HasIn(t, "budget_settled", t[i].attempt)
                        /\ t[i].kind = "attempt_uncertain" =>
                             HasIn(t, "budget_settled", t[i].attempt)
      BY DEF FinalIn
    <2>1. CASE i \in DOMAIN s
      <3>1. t[i] = s[i]
        BY <2>1, <1>2
      <3>2. s[i].kind \in {"action_interrupted", "attempt_uncertain"} => MarkedIn(s, s[i].attempt)
        BY <2>1 DEF MarkedIn, HasIn
      <3>3. e.kind \in {"budget_settled", "action_finished"} => ~MarkedIn(s, e.attempt)
        BY DEF Allowed
      <3> QED
        BY <2>1, <3>1, <3>2, <3>3, <1>3, <1>6 DEF FinalIn
    <2>2. CASE i = last
      BY <2>2, <1>2, <1>3 DEF Allowed
    <2> QED
      BY <2>1, <2>2, <1>5
  <1>11. RerunsIn(t)
    <2>1. \A id : ResolvedIn(s, id) => ResolvedIn(t, id)
      BY <1>3 DEF ResolvedIn, MarkedIn
    <2> SUFFICES ASSUME NEW i \in DOMAIN t, NEW j \in DOMAIN t, i < j,
                        t[i].kind = "action_started", t[j].kind = "action_started",
                        t[i].name = t[j].name
                 PROVE  ResolvedIn(t, t[i].attempt)
      BY DEF RerunsIn
    <2>2. i \in DOMAIN s /\ t[i] = s[i]
      BY <1>2
    <2>3. CASE j \in DOMAIN s
      BY <2>1, <2>2, <2>3, <1>2, <1>6 DEF RerunsIn
    <2>4. CASE j = last
      BY <2>1, <2>2, <2>4, <1>2 DEF Allowed
    <2> QED
      BY <2>3, <2>4, <1>5
  <1> QED
    BY <1>2, <1>7, <1>8, <1>9, <1>10, <1>11 DEF JournalFacts, t

(* A commit block is two records, one after the other.                     *)
LEMMA OneThenOther ==
  ASSUME NEW s \in Seq(Record), NEW e \in Record, NEW f \in Record
  PROVE  s \o <<e, f>> = (s \o <<e>>) \o <<f>>
  <1>1. /\ <<e>> \in Seq(Record) /\ Len(<<e>>) = 1 /\ <<e>>[1] = e
        /\ <<f>> \in Seq(Record) /\ Len(<<f>>) = 1 /\ <<f>>[1] = f
        /\ <<e, f>> \in Seq(Record) /\ Len(<<e, f>>) = 2
        /\ <<e, f>>[1] = e /\ <<e, f>>[2] = f
    OBVIOUS
  <1>2. <<e>> \o <<f>> = <<e, f>>
    <2> DEFINE b == <<e>> \o <<f>>
    <2>1. b \in Seq(Record) /\ Len(b) = 2 /\ b[1] = e /\ b[2] = f
      BY <1>1, ConcatProperties
    <2> HIDE DEF b
    <2>2. \A i \in 1 .. 2 : b[i] = <<e, f>>[i]
      BY <1>1, <2>1
    <2>3. b = <<e, f>>
      BY <1>1, <2>1, <2>2, SeqEqual, Zenon
    <2> QED
      BY <2>3 DEF b
  <1>3. (s \o <<e>>) \o <<f>> = s \o (<<e>> \o <<f>>)
    <2>1. \A u, v \in Seq(Record) : (s \o u) \o v = s \o (u \o v)
      BY ConcatAssociative
    <2>2. <<e>> \in Seq(Record) /\ <<f>> \in Seq(Record)
      BY <1>1
    <2> QED
      BY <2>1, <2>2, Zenon
  <1> QED
    BY <1>2, <1>3, Zenon

LEMMA FirstOfTwo ==
  ASSUME NEW e \in Record, NEW f
  PROVE  SubSeq(<<e, f>>, 1, 1) = <<e>>
  <1> DEFINE b == SubSeq(<<e, f>>, 1, 1)
  <1>1. \A i \in 1 .. 1 : <<e, f>>[i] \in Record
    OBVIOUS
  <1>2. /\ b \in Seq(Record) /\ Len(b) = 1
        /\ \A i \in 1 .. 1 : b[i] = <<e, f>>[i]
    <2>1. /\ b \in Seq(Record)
          /\ Len(b) = IF 1 <= 1 THEN 1 - 1 + 1 ELSE 0
          /\ \A i \in 1 .. 1 - 1 + 1 : b[i] = <<e, f>>[1 + i - 1]
      BY <1>1, SubSeqProperties, Z3
    <2> HIDE DEF b
    <2> QED
      BY <2>1
  <1>3. <<e>> \in Seq(Record) /\ Len(<<e>>) = 1
    OBVIOUS
  <1> HIDE DEF b
  <1>4. \A i \in 1 .. 1 : b[i] = <<e>>[i]
    BY <1>2
  <1>5. b = <<e>>
    BY <1>2, <1>3, <1>4, SeqEqual
  <1> QED
    BY <1>5 DEF b

-----------------------------------------------------------------------------
(* Every record the program appends is allowed where it appends it.        *)

LEMMA ZeroIsCost == Zero \in Cost
  BY DEF Zero, Cost

LEMMA CurrentIsName ==
  ASSUME TypeOK, pos <= Len(Actions)
  PROVE  Current \in Name /\ Listed(Current) /\ pos \in DOMAIN Actions
  <1>1. Calls \in Seq(Seq(Name)) /\ call \in 1 .. Len(Calls)
    BY CallsAssumption DEF TypeOK
  <1>2. Actions \in Seq(Name)
    BY <1>1, ElementOfSeq DEF Actions
  <1>3. pos \in 1 .. Len(Actions)
    BY <1>2 DEF TypeOK
  <1>4. pos \in DOMAIN Actions
    BY <1>2, <1>3
  <1> QED
    BY <1>2, <1>3, <1>4, ElementOfSeq DEF Current, Listed

LEMMA NoteAllowed ==
  ASSUME TypeOK,
         NEW kind \in {"journal_recovered", "budget_refused", "experiment_done"},
         NEW name \in Name \cup {NoName}
  PROVE  Allowed(journal, Entry(kind, name, 0, NoIdentity, Zero), fresh)
  BY ZeroIsCost DEF Allowed, Entry, Record, Kinds, AboutAttempts, Before, TypeOK

LEMMA MarkerAllowed ==
  ASSUME RunInv, Unresolved # {}
  PROVE  LET e == Marker(journal[First(Unresolved)])
         IN  /\ Allowed(journal, e, fresh)
             /\ e.kind \in {"action_interrupted", "attempt_uncertain"}
  <1> DEFINE i == First(Unresolved)
             e == Marker(journal[i])
  <1>1. i \in Unresolved
    <2>1. journal \in Seq(Record)
      BY DEF RunInv, TypeOK
    <2>2. Unresolved \subseteq Nat
      BY <2>1 DEF Unresolved
    <2> QED
      BY <2>2, FirstIsMember
  <1> HIDE DEF i
  <1>2. /\ i \in DOMAIN journal
        /\ journal[i] \in Record
        /\ journal[i].kind = "action_started"
        /\ ~Has("action_finished", journal[i].attempt)
        /\ ~Marked(journal[i].attempt)
        /\ journal[i].attempt # 0
        /\ journal[i].attempt <= fresh
    BY <1>1, ElementOfSeq
    DEF Unresolved, RunInv, TypeOK, JournalFacts, HandedOutIn, AboutAttempts
  <1>3. \E j \in DOMAIN journal : /\ journal[j].kind = "budget_reserved"
                                 /\ journal[j].attempt = journal[i].attempt
    <2>1. \E j \in 1 .. i - 1 : /\ journal[j].kind = "budget_reserved"
                               /\ journal[j].attempt = journal[i].attempt
      BY <1>2 DEF RunInv, JournalFacts, OrderedIn, Before
    <2> QED
      BY <2>1, <1>2 DEF RunInv, TypeOK
  <1>4. ASSUME NEW kind, HasIn(journal, kind, journal[i].attempt)
        PROVE  CostIn(kind, journal[i].attempt) \in Cost
    <2>1. PICK k \in DOMAIN journal :
            /\ k = CHOOSE j \in DOMAIN journal :
                     journal[j].kind = kind /\ journal[j].attempt = journal[i].attempt
      BY <1>4 DEF HasIn
    <2>2. journal[k] \in Record
      BY <2>1, ElementOfSeq DEF RunInv, TypeOK
    <2> QED
      BY <2>1, <2>2 DEF CostIn, Record
  <1>5. CASE Has("budget_settled", journal[i].attempt)
    <2>1. e = Entry("attempt_uncertain", journal[i].name, journal[i].attempt,
                    NoIdentity, CostIn("budget_settled", journal[i].attempt))
      BY <1>5 DEF Marker
    <2>2. CostIn("budget_settled", journal[i].attempt) \in Cost
      BY <1>4, <1>5 DEF Has
    <2> QED
      BY <2>1, <2>2, <1>2, <1>5
      DEF Allowed, Entry, Record, Kinds, AboutAttempts, Before, Has, Marked, MarkedIn, i
  <1>6. CASE ~Has("budget_settled", journal[i].attempt)
    <2>1. e = Entry("action_interrupted", journal[i].name, journal[i].attempt,
                    NoIdentity, CostIn("budget_reserved", journal[i].attempt))
      BY <1>6 DEF Marker
    <2>2. CostIn("budget_reserved", journal[i].attempt) \in Cost
      BY <1>3, <1>4 DEF HasIn
    <2> QED
      BY <2>1, <2>2, <1>2, <1>6
      DEF Allowed, Entry, Record, Kinds, AboutAttempts, Before, Has, Marked, MarkedIn, i
  <1> QED
    BY <1>5, <1>6 DEF i

LEMMA DisownAllowed ==
  ASSUME RunInv, Foreign # {}
  PROVE  LET e == journal[First(Foreign)]
         IN  /\ First(Foreign) \in DOMAIN journal
             /\ Allowed(journal,
                   Entry("journal_disowned", e.name, e.attempt, NoIdentity, Zero), fresh)
  <1> DEFINE i == First(Foreign)
  <1>1. i \in Foreign
    <2>1. journal \in Seq(Record)
      BY DEF RunInv, TypeOK
    <2>2. Foreign \subseteq Nat
      BY <2>1 DEF Foreign, Finishes
    <2> QED
      BY <2>2, FirstIsMember
  <1> HIDE DEF i
  <1>2. i \in DOMAIN journal
    BY <1>1 DEF Foreign, Finishes
  <1>3. journal[i] \in Record /\ journal[i].attempt <= fresh
    BY <1>2, ElementOfSeq DEF RunInv, TypeOK, JournalFacts, HandedOutIn
  <1> QED
    BY <1>2, <1>3, ZeroIsCost
    DEF Allowed, Entry, Record, Kinds, AboutAttempts, Before, i

LEMMA ReserveAllowed ==
  ASSUME RunInv, AtAction
  PROVE  Allowed(journal,
           Entry("budget_reserved", Current, fresh + 1, NoIdentity, Estimate[Current]),
           fresh + 1)
  <1>1. Current \in Name /\ fresh \in Nat
    BY CurrentIsName DEF RunInv, AtAction, TypeOK
  <1>2. Estimate[Current] \in Cost
    BY <1>1, CostAssumption
  <1>3. ~HasIn(journal, "budget_reserved", fresh + 1)
    <2> SUFFICES ASSUME NEW i \in DOMAIN journal, journal[i].attempt = fresh + 1
                 PROVE  FALSE
      BY DEF HasIn
    <2>1. journal[i].attempt <= fresh
      BY DEF RunInv, JournalFacts, HandedOutIn
    <2> QED
      BY <1>1, <2>1
  <1> QED
    BY <1>1, <1>2, <1>3 DEF Allowed, Entry, Record, Kinds, AboutAttempts, Before

LEMMA StartAllowed ==
  ASSUME RunInv, pc = "starting"
  PROVE  Allowed(journal, Entry("action_started", Current, attempt, identity, Zero), fresh)
  <1>1. /\ Current \in Name /\ Listed(Current)
        /\ attempt \in Nat /\ attempt <= fresh /\ attempt # 0
        /\ identity \in Identity \cup {NoIdentity}
    BY CurrentIsName DEF RunInv, TypeOK, AttemptInHand
  <1>2. /\ HasOf(journal, "budget_reserved", attempt, Current)
        /\ ~HasIn(journal, "action_started", attempt)
    BY DEF RunInv, AttemptInHand, Has
  <1>3. \A i \in DOMAIN journal :
          journal[i].kind = "action_started" /\ journal[i].name = Current
            => ResolvedIn(journal, journal[i].attempt)
    BY <1>1 DEF RunInv, OthersResolved
  <1> QED
    BY <1>1, <1>2, <1>3, ZeroIsCost
    DEF Allowed, Entry, Record, Kinds, AboutAttempts, Before

LEMMA CommitAllowed ==
  ASSUME RunInv, pc = "running", NEW cost \in Results
  PROVE  LET e == Entry("budget_settled", Current, attempt, NoIdentity, cost)
             f == Entry("action_finished", Current, attempt, identity, Zero)
         IN  /\ Allowed(journal, e, fresh)
             /\ Allowed(journal \o <<e>>, f, fresh)
  <1> DEFINE e == Entry("budget_settled", Current, attempt, NoIdentity, cost)
             f == Entry("action_finished", Current, attempt, identity, Zero)
             t == journal \o <<e>>
  <1>1. /\ Current \in Name
        /\ attempt \in Nat /\ attempt <= fresh /\ attempt # 0
        /\ identity \in Identity \cup {NoIdentity}
    BY CurrentIsName DEF RunInv, TypeOK, AttemptInHand
  <1>2. cost \in Cost
    BY <1>1, CostAssumption DEF Results
  <1>3. e \in Record /\ f \in Record
    BY <1>1, <1>2, ZeroIsCost DEF Entry, Record, Kinds
  <1>4. /\ HasOf(journal, "action_started", attempt, Current)
        /\ ~HasIn(journal, "budget_settled", attempt)
        /\ ~HasIn(journal, "action_finished", attempt)
        /\ ~MarkedIn(journal, attempt)
    BY DEF RunInv, AttemptInHand, Has, ResolvedIn
  <1>5. Allowed(journal, e, fresh)
    BY <1>1, <1>3, <1>4 DEF Allowed, Entry, AboutAttempts, Before
  <1>6. HasOf(t, "budget_settled", attempt, Current)
    <2>1. /\ DOMAIN t = 1 .. Len(journal) + 1 /\ Len(journal) \in Nat
          /\ t[Len(journal) + 1] = e
      BY <1>3, OneMore DEF RunInv, TypeOK
    <2> HIDE DEF t
    <2> QED
      BY <2>1 DEF HasOf, Entry
  <1>7. ~HasIn(t, "action_finished", attempt) /\ ~MarkedIn(t, attempt)
    <2>1. \A kind : HasIn(t, kind, attempt)
                      <=> HasIn(journal, kind, attempt) \/ (e.kind = kind /\ e.attempt = attempt)
      BY <1>3, HasGrows DEF RunInv, TypeOK
    <2> HIDE DEF t
    <2> QED
      BY <1>4, <2>1 DEF MarkedIn, Entry
  <1>8. Allowed(t, f, fresh)
    <2> HIDE DEF t
    <2> QED
      BY <1>1, <1>3, <1>6, <1>7 DEF Allowed, Entry, AboutAttempts, Before
  <1> QED
    BY <1>5, <1>8

-----------------------------------------------------------------------------
(* What one append does to the journal and to what it says of attempts.    *)

LEMMA LogOne ==
  ASSUME RunInv, NEW e, NEW m \in Nat, fresh <= m, Allowed(journal, e, m),
         journal' = journal \o <<e>>
  PROVE  /\ journal' \in Seq(Record)
         /\ JournalFacts(journal', m)
         /\ Len(journal) \in Nat
         /\ DOMAIN journal = 1 .. Len(journal)
         /\ DOMAIN journal' = 1 .. Len(journal) + 1
         /\ \A i \in 1 .. Len(journal) : journal'[i] = journal[i]
         /\ journal'[Len(journal) + 1] = e
         /\ \A kind, id : HasIn(journal', kind, id)
              <=> HasIn(journal, kind, id) \/ (e.kind = kind /\ e.attempt = id)
  <1>1. /\ journal \in Seq(Record) /\ fresh \in Nat /\ e \in Record
        /\ JournalFacts(journal, fresh)
    BY DEF RunInv, TypeOK, Allowed
  <1>2. journal' \in Seq(Record) /\ JournalFacts(journal', m)
    BY <1>1, Grow
  <1> QED
    BY <1>1, <1>2, OneMore, HasGrows

LEMMA LogCommit ==
  ASSUME RunInv, pc = "running", NEW cost \in Results,
         journal' = journal \o CommitBlock(cost)
  PROVE  /\ journal' \in Seq(Record)
         /\ JournalFacts(journal', fresh)
         /\ Len(journal) \in Nat
         /\ DOMAIN journal = 1 .. Len(journal)
         /\ DOMAIN journal' = 1 .. Len(journal) + 2
         /\ \A i \in 1 .. Len(journal) : journal'[i] = journal[i]
         /\ journal'[Len(journal) + 1]
              = Entry("budget_settled", Current, attempt, NoIdentity, cost)
         /\ journal'[Len(journal) + 2]
              = Entry("action_finished", Current, attempt, identity, Zero)
         /\ \A kind, id : HasIn(journal, kind, id) => HasIn(journal', kind, id)
         /\ HasIn(journal', "action_finished", attempt)
  <1> DEFINE e == Entry("budget_settled", Current, attempt, NoIdentity, cost)
             f == Entry("action_finished", Current, attempt, identity, Zero)
             t == journal \o <<e>>
  <1>1. /\ journal \in Seq(Record) /\ fresh \in Nat
        /\ JournalFacts(journal, fresh)
    BY DEF RunInv, TypeOK
  <1>2. Allowed(journal, e, fresh) /\ Allowed(t, f, fresh)
    BY CommitAllowed
  <1>3. e \in Record /\ f \in Record
    BY <1>2 DEF Allowed
  <1>4. t \in Seq(Record) /\ JournalFacts(t, fresh)
    BY <1>1, <1>2, Grow
  <1>5. journal' = t \o <<f>>
    BY <1>1, <1>3, OneThenOther DEF CommitBlock
  <1>6. /\ Len(journal) \in Nat
        /\ DOMAIN journal = 1 .. Len(journal)
        /\ DOMAIN t = 1 .. Len(journal) + 1
        /\ \A i \in 1 .. Len(journal) : t[i] = journal[i]
        /\ t[Len(journal) + 1] = e
        /\ \A kind, id : HasIn(journal, kind, id) => HasIn(t, kind, id)
    BY <1>1, <1>3, OneMore, HasGrows
  <1> HIDE DEF t, e, f
  <1>7. journal' \in Seq(Record) /\ JournalFacts(journal', fresh)
    BY <1>1, <1>2, <1>4, <1>5, Grow
  <1>8. /\ Len(t) \in Nat
        /\ DOMAIN t = 1 .. Len(t)
        /\ DOMAIN journal' = 1 .. Len(t) + 1
        /\ \A i \in 1 .. Len(t) : journal'[i] = t[i]
        /\ journal'[Len(t) + 1] = f
        /\ \A kind, id : HasIn(journal', kind, id)
             <=> HasIn(t, kind, id) \/ (f.kind = kind /\ f.attempt = id)
    BY <1>3, <1>4, <1>5, OneMore, HasGrows
  <1>9. Len(t) = Len(journal) + 1
    BY <1>4, <1>6
  <1>10. f.kind = "action_finished" /\ f.attempt = attempt
    BY DEF f, Entry
  <1>11. HasIn(journal', "action_finished", attempt)
    BY <1>8, <1>10
  <1> QED
    BY <1>6, <1>7, <1>8, <1>9, <1>11 DEF e, f

LEMMA CallsAreLists ==
  /\ 1 \in DOMAIN Calls
  /\ \A c \in DOMAIN Calls : Calls[c] \in Seq(Name) /\ Len(Calls[c]) \in Nat
  <1>1. Calls \in Seq(Seq(Name)) /\ Len(Calls) \in Nat \ {0}
    BY CallsAssumption, EmptySeq
  <1>2. \A c \in DOMAIN Calls : Calls[c] \in Seq(Name)
    BY <1>1, ElementOfSeq
  <1> QED
    BY <1>1, <1>2

(* A process that goes away leaves a journal for which the facts hold.     *)
LEMMA ForgetKeeps ==
  ASSUME RunInv, Forget, torn' \in BOOLEAN,
         journal' \in Seq(Record), JournalFacts(journal', fresh)
  PROVE  RunInv'
  <1>1. TypeOK'
    <2>1. call' \in DOMAIN Calls /\ Len(Actions') \in Nat
      BY CallsAreLists DEF Forget, Actions
    <2>2. pos' \in (1 .. Len(Actions) + 1)'
      BY <2>1 DEF Forget
    <2>3. starts' \in Nat /\ fresh' \in Nat /\ attempt' \in 0 .. fresh'
      BY DEF RunInv, Forget, TypeOK
    <2>4. pc' \in Phase /\ state' \in {"running", "completed", "cancelled", "budget_exhausted"}
      BY DEF Forget, Phase
    <2>5. resume' \in BOOLEAN /\ identity' \in Identity \cup {NoIdentity}
      BY Zenon DEF Forget
    <2>6. done' \subseteq Name /\ disowned' \subseteq DOMAIN journal'
      BY DEF Forget
    <2> QED
      BY <2>1, <2>2, <2>3, <2>4, <2>5, <2>6, Zenon DEF TypeOK
  <1>2. fresh' = fresh /\ pc' = "down"
    BY DEF Forget
  <1> QED
    BY <1>1, <1>2 DEF RunInv, AttemptInHand, OthersResolved, FinishedIsSkipped

-----------------------------------------------------------------------------
(* The steps that write nothing.                                           *)

LEMMA QuietKeeps ==
  ASSUME RunInv,
         \/ Spawn \/ Enter \/ Reconciled \/ Trust \/ Skip \/ Cancel
         \/ EndOfList \/ NextCall
  PROVE  RunInv'
  <1> USE DEF fileVars, Remember
  <1>1. /\ journal \in Seq(Record) /\ fresh \in Nat /\ torn \in BOOLEAN
        /\ JournalFacts(journal, fresh)
    BY DEF RunInv, TypeOK
  <1>2. journal' = journal /\ fresh' = fresh
    BY DEF Spawn, Enter, Reconciled, Trust, Skip, Cancel, EndOfList, NextCall
  <1>3. JournalFacts(journal, fresh)'
    BY <1>1, <1>2
  <1>4. CASE Spawn
    <2>1. TypeOK'
      BY <1>4 DEF RunInv, TypeOK, Spawn, Phase, Actions
    <2> QED
      BY <1>3, <1>4, <2>1 DEF Spawn, RunInv, AttemptInHand, OthersResolved, FinishedIsSkipped
  <1>5. CASE Enter
    <2>1. TypeOK'
      BY <1>5 DEF RunInv, TypeOK, Enter, Phase, Actions
    <2>2. OthersResolved'
      <3>1. pc' = "trusting" => journal' = << >>
        BY <1>5 DEF Enter
      <3> QED
        BY <1>5, <3>1 DEF Enter, OthersResolved
    <2> QED
      BY <1>3, <1>5, <2>1, <2>2 DEF Enter, RunInv, AttemptInHand, FinishedIsSkipped
  <1>6. CASE Reconciled
    <2>1. TypeOK'
      BY <1>6 DEF RunInv, TypeOK, Reconciled, Phase, Actions
    <2>2. OthersResolved'
      BY <1>6 DEF Reconciled, Unresolved, OthersResolved, ResolvedIn, Has, Marked, Listed, Actions
    <2> QED
      BY <1>3, <1>6, <2>1, <2>2 DEF Reconciled, RunInv, AttemptInHand, FinishedIsSkipped
  <1>7. CASE Trust
    <2>1. Trusted \subseteq Name
      <3> SUFFICES ASSUME NEW i \in Finishes
                   PROVE  journal[i].name \in Name
        BY DEF Trusted
      <3>1. Actions \in Seq(Name)
        BY CallsAreLists DEF RunInv, TypeOK, Actions
      <3>2. PICK k \in DOMAIN Actions : Actions[k] = journal[i].name
        BY DEF Finishes, Listed
      <3> QED
        BY <3>1, <3>2, ElementOfSeq
    <2>2. TypeOK'
      BY <1>7, <2>1 DEF RunInv, TypeOK, Trust, Phase, Actions
    <2>3. OthersResolved'
      BY <1>7 DEF Trust, RunInv, OthersResolved, Listed, Actions
    <2>4. FinishedIsSkipped'
      BY <1>7 DEF Trust, FinishedIsSkipped, Trusted, Finishes, Listed, Actions
    <2> QED
      BY <1>3, <1>7, <2>2, <2>3, <2>4 DEF Trust, RunInv, AttemptInHand
  <1>8. CASE Skip
    <2>1. TypeOK'
      BY <1>8, CallsAreLists DEF RunInv, TypeOK, Skip, AtAction, Phase, Actions
    <2>2. OthersResolved'
      BY <1>8 DEF Skip, AtAction, RunInv, OthersResolved, Listed, Actions
    <2>3. FinishedIsSkipped'
      <3>1. pos \in Nat /\ pos' = pos + 1
        BY <1>8, CallsAreLists DEF Skip, RunInv, TypeOK, Actions
      <3>2. Trusted' = Trusted /\ Actions' = Actions /\ done' = done
        BY <1>8, <1>2 DEF Skip, Trusted, Finishes, Listed, Actions
      <3>3. \A n \in Trusted : n \in done \/ \E q \in 1 .. pos - 1 : Actions[q] = n
        BY <1>8 DEF Skip, AtAction, RunInv, FinishedIsSkipped
      <3>4. 1 .. pos - 1 \subseteq 1 .. pos' - 1
        BY <3>1
      <3> QED
        BY <3>2, <3>3, <3>4 DEF FinishedIsSkipped
    <2> QED
      BY <1>3, <1>8, <2>1, <2>2, <2>3 DEF Skip, AtAction, RunInv, AttemptInHand
  <1>9. CASE Cancel \/ EndOfList
    <2>1. TypeOK'
      BY <1>9 DEF RunInv, TypeOK, Cancel, EndOfList, Phase, Actions
    <2> QED
      BY <1>3, <1>9, <2>1
      DEF Cancel, EndOfList, RunInv, AttemptInHand, OthersResolved, FinishedIsSkipped
  <1>10. CASE NextCall
    <2>1. call' \in DOMAIN Calls /\ (1 .. Len(Actions) + 1)' = 1 .. Len(Calls[call']) + 1
      BY <1>10, CallsAssumption DEF NextCall, RunInv, TypeOK, Actions
    <2>2. pos' \in (1 .. Len(Actions) + 1)'
      BY <1>10, <2>1, CallsAreLists DEF NextCall
    <2>3. TypeOK'
      BY <1>10, <2>1, <2>2 DEF RunInv, TypeOK, NextCall, Phase
    <2> QED
      BY <1>3, <1>10, <2>3
      DEF NextCall, RunInv, AttemptInHand, OthersResolved, FinishedIsSkipped
  <1> QED
    BY <1>4, <1>5, <1>6, <1>7, <1>8, <1>9, <1>10

-----------------------------------------------------------------------------
(* The steps that write a record about no attempt in hand.                 *)

LEMMA RecoveredAllowed ==
  ASSUME RunInv
  PROVE  Allowed(journal, Entry("journal_recovered", NoName, 0, NoIdentity, Zero), fresh)
  BY NoteAllowed DEF RunInv

LEMMA LoadKeeps ==
  ASSUME RunInv, Load
  PROVE  RunInv'
  <1> DEFINE e == Entry("journal_recovered", NoName, 0, NoIdentity, Zero)
  <1> USE DEF Load, Remember
  <1>1. fresh \in Nat /\ fresh' = fresh
    BY DEF RunInv, TypeOK
  <1>2. /\ journal' \in Seq(Record)
        /\ JournalFacts(journal', fresh)
        /\ DOMAIN journal \subseteq DOMAIN journal'
    <2>1. CASE torn
      <3>1. journal' = journal \o <<e>>
        BY <2>1 DEF Recovered
      <3>2. Allowed(journal, e, fresh)
        BY RecoveredAllowed
      <3> HIDE DEF e
      <3> QED
        BY <1>1, <3>1, <3>2, LogOne
    <2>2. CASE ~torn
      BY <2>2 DEF RunInv, TypeOK
    <2> QED
      BY <2>1, <2>2
  <1>3. TypeOK'
    BY <1>2 DEF RunInv, TypeOK, Phase, Actions
  <1> QED
    BY <1>1, <1>2, <1>3 DEF RunInv, AttemptInHand, OthersResolved, FinishedIsSkipped

LEMMA ReconcileKeeps ==
  ASSUME RunInv, Reconcile
  PROVE  RunInv'
  <1> DEFINE e == Marker(journal[First(Unresolved)])
  <1> USE DEF Reconcile, Remember, Log
  <1>1. fresh \in Nat /\ fresh' = fresh
    BY DEF RunInv, TypeOK
  <1>2. journal' = journal \o <<e>> /\ Allowed(journal, e, fresh)
    BY MarkerAllowed DEF MarkerBlock
  <1> HIDE DEF e
  <1>3. /\ journal' \in Seq(Record)
        /\ JournalFacts(journal', fresh)
        /\ DOMAIN journal \subseteq DOMAIN journal'
    BY <1>1, <1>2, LogOne
  <1>4. TypeOK'
    BY <1>3 DEF RunInv, TypeOK, Phase, Actions
  <1> QED
    BY <1>1, <1>3, <1>4 DEF RunInv, AttemptInHand, OthersResolved, FinishedIsSkipped

LEMMA DisownKeeps ==
  ASSUME RunInv, Disown
  PROVE  RunInv'
  <1> DEFINE old == journal[First(Foreign)]
             e == Entry("journal_disowned", old.name, old.attempt, NoIdentity, Zero)
  <1> USE DEF Disown, Remember, Log
  <1>1. fresh \in Nat /\ fresh' = fresh
    BY DEF RunInv, TypeOK
  <1>2. /\ journal' = journal \o <<e>>
        /\ Allowed(journal, e, fresh)
        /\ First(Foreign) \in DOMAIN journal
    BY DisownAllowed DEF DisownBlock
  <1>3. e.kind = "journal_disowned"
    BY DEF Entry
  <1> HIDE DEF e
  <1>4. /\ journal' \in Seq(Record)
        /\ JournalFacts(journal', fresh)
        /\ Len(journal) \in Nat
        /\ DOMAIN journal = 1 .. Len(journal)
        /\ DOMAIN journal' = 1 .. Len(journal) + 1
        /\ \A i \in 1 .. Len(journal) : journal'[i] = journal[i]
        /\ journal'[Len(journal) + 1] = e
        /\ \A kind, id : HasIn(journal', kind, id)
             <=> HasIn(journal, kind, id) \/ (e.kind = kind /\ e.attempt = id)
    BY <1>1, <1>2, LogOne
  <1>5. TypeOK'
    <2>1. DOMAIN journal \subseteq DOMAIN journal'
      BY <1>4
    <2> QED
      BY <1>2, <1>4, <2>1 DEF RunInv, TypeOK, Phase, Actions
  <1>6. OthersResolved'
    <2> SUFFICES ASSUME NEW i \in DOMAIN journal', journal'[i].kind = "action_started",
                        Listed(journal'[i].name)
                 PROVE  ResolvedIn(journal', journal'[i].attempt)
      BY DEF OthersResolved, Listed, Actions
    <2>1. i \in DOMAIN journal /\ journal'[i] = journal[i]
      BY <1>3, <1>4
    <2>2. ResolvedIn(journal, journal[i].attempt)
      BY <2>1 DEF RunInv, OthersResolved
    <2> QED
      BY <1>4, <2>1, <2>2 DEF ResolvedIn, MarkedIn
  <1> QED
    BY <1>1, <1>4, <1>5, <1>6 DEF RunInv, AttemptInHand, FinishedIsSkipped

LEMMA RefuseKeeps ==
  ASSUME RunInv, Refuse
  PROVE  RunInv'
  <1> DEFINE e == Entry("budget_refused", Current, 0, NoIdentity, Zero)
  <1> USE DEF Refuse, Remember, Log
  <1>1. fresh \in Nat /\ fresh' = fresh
    BY DEF RunInv, TypeOK
  <1>2. Current \in Name
    BY CurrentIsName DEF RunInv, AtAction
  <1>3. journal' = journal \o <<e>> /\ Allowed(journal, e, fresh)
    BY <1>2, NoteAllowed DEF RefuseBlock, RunInv
  <1> HIDE DEF e
  <1>4. /\ journal' \in Seq(Record)
        /\ JournalFacts(journal', fresh)
        /\ DOMAIN journal \subseteq DOMAIN journal'
    BY <1>1, <1>3, LogOne
  <1>5. TypeOK'
    BY <1>4 DEF RunInv, TypeOK, Phase, Actions
  <1> QED
    BY <1>1, <1>4, <1>5 DEF RunInv, AttemptInHand, OthersResolved, FinishedIsSkipped

LEMMA CloseKeeps ==
  ASSUME RunInv, Close
  PROVE  RunInv'
  <1> DEFINE e == Entry("experiment_done", NoName, 0, NoIdentity, Zero)
  <1> USE DEF Close, Remember, Log, fileVars
  <1>1. fresh \in Nat /\ fresh' = fresh
    BY DEF RunInv, TypeOK
  <1>2. /\ journal' \in Seq(Record)
        /\ JournalFacts(journal', fresh)
        /\ DOMAIN journal \subseteq DOMAIN journal'
        /\ torn' = torn
    <2>1. CASE Completes /\ ~AlreadyDone
      <3>1. journal' = journal \o <<e>> /\ torn' = torn
        BY <2>1 DEF DoneBlock
      <3>2. Allowed(journal, e, fresh)
        BY NoteAllowed DEF RunInv
      <3> HIDE DEF e
      <3> QED
        BY <1>1, <3>1, <3>2, LogOne
    <2>2. CASE ~(Completes /\ ~AlreadyDone)
      BY <2>2 DEF RunInv, TypeOK
    <2> QED
      BY <2>1, <2>2
  <1>3. TypeOK'
    BY <1>2 DEF RunInv, TypeOK, Phase, Actions
  <1> QED
    BY <1>1, <1>2, <1>3 DEF RunInv, AttemptInHand, OthersResolved, FinishedIsSkipped

-----------------------------------------------------------------------------
(* The steps of one attempt.                                               *)

LEMMA ReserveKeeps ==
  ASSUME RunInv, Reserve
  PROVE  RunInv'
  <1> DEFINE e == Entry("budget_reserved", Current, fresh + 1, NoIdentity, Estimate[Current])
  <1> USE DEF Reserve, Remember, Log
  <1>1. /\ fresh \in Nat /\ fresh' = fresh + 1 /\ attempt' = fresh + 1
        /\ Current' = Current /\ Actions' = Actions
    BY DEF RunInv, TypeOK, Current, Actions
  <1>2. journal' = journal \o <<e>> /\ Allowed(journal, e, fresh + 1)
    BY ReserveAllowed DEF ReserveBlock
  <1>3. e.kind = "budget_reserved" /\ e.attempt = fresh + 1 /\ e.name = Current
    BY DEF Entry
  <1> HIDE DEF e
  <1>4. /\ journal' \in Seq(Record)
        /\ JournalFacts(journal', fresh + 1)
        /\ Len(journal) \in Nat
        /\ DOMAIN journal = 1 .. Len(journal)
        /\ DOMAIN journal' = 1 .. Len(journal) + 1
        /\ \A i \in 1 .. Len(journal) : journal'[i] = journal[i]
        /\ journal'[Len(journal) + 1] = e
        /\ \A kind, id : HasIn(journal', kind, id)
             <=> HasIn(journal, kind, id) \/ (e.kind = kind /\ e.attempt = id)
    BY <1>1, <1>2, LogOne
  <1>5. TypeOK'
    <2>1. DOMAIN journal \subseteq DOMAIN journal'
      BY <1>4
    <2>2. attempt' \in 0 .. fresh' /\ fresh' \in Nat
      BY <1>1
    <2> QED
      BY <1>1, <1>4, <2>1, <2>2 DEF RunInv, TypeOK, Phase
  <1>6. AttemptInHand'
    <2>1. HasOf(journal', "budget_reserved", attempt', Current')
      <3>1. HasOf(journal', "budget_reserved", fresh + 1, Current)
        BY <1>3, <1>4 DEF HasOf
      <3> QED
        BY <1>1, <3>1, Zenon
    <2>2. ASSUME NEW kind, kind # "budget_reserved"
          PROVE  ~HasIn(journal', kind, attempt')
      <3>1. ~HasIn(journal, kind, fresh + 1)
        <4> SUFFICES ASSUME NEW i \in DOMAIN journal, journal[i].attempt = fresh + 1
                     PROVE  FALSE
          BY DEF HasIn
        <4>1. journal[i].attempt <= fresh
          BY DEF RunInv, JournalFacts, HandedOutIn
        <4> QED
          BY <1>1, <4>1
      <3> QED
        BY <1>1, <1>3, <1>4, <2>2, <3>1
    <2>3. /\ ~HasIn(journal', "budget_settled", attempt')
          /\ ~HasIn(journal', "action_started", attempt')
          /\ ~ResolvedIn(journal', attempt')
      BY <2>2 DEF ResolvedIn, MarkedIn
    <2>4. attempt' # 0 /\ (pos <= Len(Actions))' /\ (Current \notin done)'
      BY <1>1 DEF AtAction
    <2> QED
      BY <2>1, <2>3, <2>4 DEF AttemptInHand, Has
  <1>7. OthersResolved'
    <2> SUFFICES ASSUME NEW i \in DOMAIN journal', journal'[i].kind = "action_started",
                        Listed(journal'[i].name)
                 PROVE  ResolvedIn(journal', journal'[i].attempt)
      BY <1>1 DEF OthersResolved, Listed
    <2>1. i \in DOMAIN journal /\ journal'[i] = journal[i]
      BY <1>3, <1>4
    <2>2. ResolvedIn(journal, journal[i].attempt)
      BY <2>1 DEF RunInv, OthersResolved, AtAction
    <2> QED
      BY <1>4, <2>1, <2>2 DEF ResolvedIn, MarkedIn
  <1>8. FinishedIsSkipped'
    <2>1. Trusted' = Trusted
      <3>1. Finishes' = Finishes
        BY <1>1, <1>3, <1>4 DEF Finishes, Listed
      <3>2. Finishes \subseteq DOMAIN journal
        BY DEF Finishes
      <3> QED
        BY <1>4, <3>1, <3>2 DEF Trusted
    <2> QED
      BY <1>1, <2>1 DEF RunInv, FinishedIsSkipped, AtAction
  <1> QED
    BY <1>1, <1>4, <1>5, <1>6, <1>7, <1>8 DEF RunInv

LEMMA StartKeeps ==
  ASSUME RunInv, Start
  PROVE  RunInv'
  <1> DEFINE e == Entry("action_started", Current, attempt, identity, Zero)
  <1> USE DEF Start, Remember, Log
  <1>1. /\ fresh \in Nat /\ fresh' = fresh /\ attempt' = attempt
        /\ Current' = Current /\ Actions' = Actions
    BY DEF RunInv, TypeOK, Current, Actions
  <1>2. journal' = journal \o <<e>> /\ Allowed(journal, e, fresh)
    BY StartAllowed DEF StartBlock
  <1>3. e.kind = "action_started" /\ e.attempt = attempt /\ e.name = Current
    BY DEF Entry
  <1> HIDE DEF e
  <1>4. /\ journal' \in Seq(Record)
        /\ JournalFacts(journal', fresh)
        /\ Len(journal) \in Nat
        /\ DOMAIN journal = 1 .. Len(journal)
        /\ DOMAIN journal' = 1 .. Len(journal) + 1
        /\ \A i \in 1 .. Len(journal) : journal'[i] = journal[i]
        /\ journal'[Len(journal) + 1] = e
        /\ \A kind, id : HasIn(journal', kind, id)
             <=> HasIn(journal, kind, id) \/ (e.kind = kind /\ e.attempt = id)
    BY <1>1, <1>2, LogOne
  <1>5. TypeOK'
    <2>1. DOMAIN journal \subseteq DOMAIN journal'
      BY <1>4
    <2> QED
      BY <1>1, <1>4, <2>1 DEF RunInv, TypeOK, Phase
  <1>6. AttemptInHand'
    <2>1. HasOf(journal', "budget_reserved", attempt, Current)
      BY <1>4 DEF HasOf, RunInv, AttemptInHand
    <2>2. HasOf(journal', "action_started", attempt, Current)
      BY <1>3, <1>4 DEF HasOf
    <2>3. ~HasIn(journal', "budget_settled", attempt) /\ ~ResolvedIn(journal', attempt)
      BY <1>3, <1>4 DEF RunInv, AttemptInHand, Has, ResolvedIn, MarkedIn
    <2>4. attempt # 0 /\ pos <= Len(Actions) /\ Current \notin done
      BY DEF RunInv, AttemptInHand
    <2> QED
      BY <1>1, <2>1, <2>2, <2>3, <2>4 DEF AttemptInHand, Has
  <1>7. OthersResolved'
    <2> SUFFICES ASSUME NEW i \in DOMAIN journal', journal'[i].kind = "action_started",
                        Listed(journal'[i].name)
                 PROVE  \/ ResolvedIn(journal', journal'[i].attempt)
                        \/ journal'[i].attempt = attempt
      BY <1>1 DEF OthersResolved, Listed
    <2>1. CASE i \in DOMAIN journal
      <3>1. journal'[i] = journal[i]
        BY <1>4, <2>1
      <3>2. ResolvedIn(journal, journal[i].attempt)
        BY <2>1, <3>1 DEF RunInv, OthersResolved
      <3> QED
        BY <1>4, <3>1, <3>2 DEF ResolvedIn, MarkedIn
    <2>2. CASE i = Len(journal) + 1
      BY <1>3, <1>4, <2>2
    <2> QED
      BY <1>4, <2>1, <2>2
  <1>8. FinishedIsSkipped'
    <2>1. Trusted' = Trusted
      <3>1. Finishes' = Finishes
        BY <1>1, <1>3, <1>4 DEF Finishes, Listed
      <3>2. Finishes \subseteq DOMAIN journal
        BY DEF Finishes
      <3> QED
        BY <1>4, <3>1, <3>2 DEF Trusted
    <2> QED
      BY <1>1, <2>1 DEF RunInv, FinishedIsSkipped
  <1> QED
    BY <1>1, <1>4, <1>5, <1>6, <1>7, <1>8 DEF RunInv

LEMMA FinishKeeps ==
  ASSUME RunInv, Finish
  PROVE  RunInv'
  <1> USE DEF Finish, Remember, Log
  <1>1. PICK cost \in Results : journal' = journal \o CommitBlock(cost)
    OBVIOUS
  <1> DEFINE e == Entry("budget_settled", Current, attempt, NoIdentity, cost)
             f == Entry("action_finished", Current, attempt, identity, Zero)
  <1>2. /\ fresh \in Nat /\ fresh' = fresh /\ attempt' = attempt
        /\ Actions' = Actions /\ torn' = torn /\ identity' = identity
        /\ pos \in Nat /\ pos' = pos + 1 /\ pos <= Len(Actions)
        /\ pc' = "looping" /\ done' = done
    BY CallsAreLists DEF RunInv, TypeOK, Actions, AttemptInHand
  <1>3. /\ journal' \in Seq(Record)
        /\ JournalFacts(journal', fresh)
        /\ Len(journal) \in Nat
        /\ DOMAIN journal = 1 .. Len(journal)
        /\ DOMAIN journal' = 1 .. Len(journal) + 2
        /\ \A i \in 1 .. Len(journal) : journal'[i] = journal[i]
        /\ journal'[Len(journal) + 1] = e
        /\ journal'[Len(journal) + 2] = f
        /\ \A kind, id : HasIn(journal, kind, id) => HasIn(journal', kind, id)
        /\ HasIn(journal', "action_finished", attempt)
    BY <1>1, LogCommit
  <1>4. /\ e.kind = "budget_settled" /\ f.kind = "action_finished"
        /\ f.name = Current
    BY DEF Entry
  <1> HIDE DEF e, f
  <1>5. \A i \in DOMAIN journal' : \/ i \in DOMAIN journal /\ journal'[i] = journal[i]
                                   \/ journal'[i] = e
                                   \/ journal'[i] = f
    <2> TAKE i \in DOMAIN journal'
    <2>1. i \in 1 .. Len(journal) \/ i = Len(journal) + 1 \/ i = Len(journal) + 2
      BY <1>3
    <2> QED
      BY <1>3, <2>1
  <1>6. TypeOK'
    <2>1. DOMAIN journal \subseteq DOMAIN journal'
      BY <1>3
    <2>2. pos' \in 1 .. Len(Actions') + 1
      BY <1>2, CallsAreLists DEF Actions, RunInv, TypeOK
    <2> QED
      BY <1>2, <1>3, <2>1, <2>2 DEF RunInv, TypeOK, Phase
  <1>7. OthersResolved'
    <2> SUFFICES ASSUME NEW i \in DOMAIN journal', journal'[i].kind = "action_started",
                        Listed(journal'[i].name)
                 PROVE  ResolvedIn(journal', journal'[i].attempt)
      BY <1>2 DEF OthersResolved, Listed
    <2>1. i \in DOMAIN journal /\ journal'[i] = journal[i]
      BY <1>4, <1>5
    <2>2. ResolvedIn(journal, journal[i].attempt) \/ journal[i].attempt = attempt
      BY <2>1 DEF RunInv, OthersResolved
    <2> QED
      BY <1>3, <2>1, <2>2 DEF ResolvedIn, MarkedIn
  <1>8. FinishedIsSkipped'
    <2>1. \A n \in Trusted : n \in done \/ \E q \in 1 .. pos - 1 : Actions[q] = n
      BY DEF RunInv, FinishedIsSkipped
    <2>2. Trusted' \subseteq Trusted \cup {Current}
      BY <1>2, <1>4, <1>5 DEF Trusted, Finishes, Listed
    <2>3. pos \in 1 .. pos' - 1 /\ Actions[pos] = Current /\ 1 .. pos - 1 \subseteq 1 .. pos' - 1
      BY <1>2, CallsAreLists DEF Current, RunInv, TypeOK
    <2> QED
      BY <1>2, <2>1, <2>2, <2>3 DEF FinishedIsSkipped
  <1> QED
    BY <1>2, <1>3, <1>6, <1>7, <1>8 DEF RunInv, AttemptInHand

(* A write cut short leaves nothing, or the settlement of a commit block   *)
(* without its finish.                                                     *)
LEMMA TornWriteLeaves ==
  ASSUME RunInv, TornWrite
  PROVE  /\ Forget
         /\ torn' \in BOOLEAN
         /\ \/ journal' = journal
            \/ /\ pc = "running"
               /\ \E cost \in Results :
                    LET e == Entry("budget_settled", Current, attempt, NoIdentity, cost)
                    IN  Allowed(journal, e, fresh) /\ journal' = journal \o <<e>>
  <1>0. PICK block \in Pending : \E n \in 0 .. Len(block) - 1 :
          /\ journal' = journal \o SubSeq(block, 1, n)
          /\ torn' \in IF n = 0 THEN {TRUE} ELSE BOOLEAN
    BY DEF TornWrite
  <1>1. PICK n \in 0 .. Len(block) - 1 :
          /\ journal' = journal \o SubSeq(block, 1, n)
          /\ torn' \in IF n = 0 THEN {TRUE} ELSE BOOLEAN
    BY <1>0
  <1>2. Forget /\ torn' \in BOOLEAN
    <2>1. CASE n = 0
      BY <1>1, <2>1, Zenon DEF TornWrite
    <2>2. CASE n # 0
      BY <1>1, <2>2, Zenon DEF TornWrite
    <2> QED
      BY <2>1, <2>2
  <1>3. journal \in Seq(Record)
    BY DEF RunInv, TypeOK
  <1>4. CASE n = 0
    <2>1. SubSeq(block, 1, n) = << >>
      BY <1>4, SubSeqEmpty
    <2>2. journal' = journal
      BY <1>1, <1>3, <2>1, ConcatEmptySeq
    <2> QED
      BY <1>2, <2>2
  <1>5. CASE n # 0
    <2>1. Len(block) # 1
      BY <1>1, <1>5
    <2>2. pc = "running" /\ \E cost \in Results : block = CommitBlock(cost)
      BY <2>1 DEF Pending, Recovered, MarkerBlock, DisownBlock, ReserveBlock,
                  RefuseBlock, StartBlock, DoneBlock, AtAction
    <2>3. PICK cost \in Results : block = CommitBlock(cost)
      BY <2>2
    <2> DEFINE e == Entry("budget_settled", Current, attempt, NoIdentity, cost)
               f == Entry("action_finished", Current, attempt, identity, Zero)
    <2>4. Allowed(journal, e, fresh) /\ block = <<e, f>>
      BY <2>2, <2>3, CommitAllowed DEF CommitBlock
    <2>5. n = 1 /\ SubSeq(block, 1, n) = <<e>>
      <3> HIDE DEF e, f
      <3>1. Len(block) = 2
        BY <2>4
      <3>2. n = 1
        BY <1>1, <1>5, <3>1
      <3>3. SubSeq(<<e, f>>, 1, 1) = <<e>>
        BY <2>4, FirstOfTwo DEF Allowed
      <3> QED
        BY <2>4, <3>2, <3>3
    <2>6. journal' = journal \o <<e>>
      BY <1>1, <2>5
    <2> QED
      BY <1>2, <2>2, <2>4, <2>6
  <1> QED
    BY <1>4, <1>5

LEMMA TornWriteKeeps ==
  ASSUME RunInv, TornWrite
  PROVE  RunInv'
  <1>1. journal \in Seq(Record) /\ fresh \in Nat /\ JournalFacts(journal, fresh)
    BY DEF RunInv, TypeOK
  <1>2. CASE journal' = journal
    BY <1>1, <1>2, TornWriteLeaves, ForgetKeeps
  <1>3. ASSUME NEW e, Allowed(journal, e, fresh), journal' = journal \o <<e>>
        PROVE  RunInv'
    BY <1>1, <1>3, LogOne, TornWriteLeaves, ForgetKeeps
  <1> QED
    BY <1>2, <1>3, TornWriteLeaves

LEMMA EndKeeps ==
  ASSUME RunInv, Raise \/ Exit
  PROVE  RunInv'
  <1>1. journal' = journal /\ torn' = torn /\ Forget
    BY DEF Raise, Exit, fileVars
  <1> QED
    BY <1>1, ForgetKeeps DEF RunInv, TypeOK

-----------------------------------------------------------------------------

LEMMA RunInvInit == Init => RunInv
  <1> SUFFICES ASSUME Init
               PROVE  RunInv
    OBVIOUS
  <1> USE DEF Init
  <1>1. journal \in Seq(Record) /\ DOMAIN journal = {}
    BY EmptySeq
  <1>2. TypeOK
    <2>1. call \in DOMAIN Calls /\ Len(Actions) \in Nat
      BY CallsAreLists DEF Actions
    <2>2. pos \in 1 .. Len(Actions) + 1 /\ starts \in Nat /\ attempt \in 0 .. fresh /\ fresh \in Nat
      BY <2>1
    <2>3. torn \in BOOLEAN /\ resume \in BOOLEAN
      BY Zenon
    <2>4. pc \in Phase /\ state \in {"running", "completed", "cancelled", "budget_exhausted"}
      BY DEF Phase
    <2>5. /\ identity \in Identity \cup {NoIdentity}
          /\ done \subseteq Name /\ disowned \subseteq DOMAIN journal
      OBVIOUS
    <2> QED
      BY <1>1, <2>1, <2>2, <2>3, <2>4, <2>5, Zenon DEF TypeOK
  <1>3. JournalFacts(journal, fresh)
    BY <1>1 DEF JournalFacts, HandedOutIn, OnceIn, OrderedIn, FinalIn, RerunsIn
  <1> QED
    BY <1>2, <1>3 DEF RunInv, AttemptInHand, OthersResolved, FinishedIsSkipped

LEMMA RunInvStep == RunInv /\ [Next]_vars => RunInv'
  <1> SUFFICES ASSUME RunInv, [Next]_vars
               PROVE  RunInv'
    OBVIOUS
  <1>1. CASE UNCHANGED vars
    BY <1>1 DEF vars, RunInv, TypeOK, JournalFacts, AttemptInHand, OthersResolved,
                FinishedIsSkipped, Actions, Current, Trusted, Finishes, Listed, Has
  <1>2. CASE Next
    BY <1>2, QuietKeeps, LoadKeeps, ReconcileKeeps, DisownKeeps, RefuseKeeps, CloseKeeps,
       ReserveKeeps, StartKeeps, FinishKeeps, TornWriteKeeps, EndKeeps
    DEF Next, RunStep
  <1> QED
    BY <1>1, <1>2

(* The inductive invariant holds of every run directory, whatever processes *)
(* work on it and wherever they die.                                       *)
THEOREM RunInvariant == Spec => []RunInv
  BY RunInvInit, RunInvStep, PTL DEF Spec

(* Type correctness.                                                       *)
THEOREM RunTypeOK == Spec => []TypeOK
  <1>1. RunInv => TypeOK
    BY DEF RunInv
  <1> QED
    BY <1>1, RunInvariant, PTL

(* Billing is exactly once per attempt, and so is every recovery marker,   *)
(* for any number of processes, actions and crashes.                       *)
THEOREM BilledAtMostOnce == Spec => []OncePerAttempt
  <1>1. RunInv => OncePerAttempt
    BY DEF RunInv, JournalFacts, OncePerAttempt
  <1> QED
    BY <1>1, RunInvariant, PTL

(* No attempt is started unreserved, billed unstarted or finished unbilled. *)
THEOREM FinishesArePaid == Spec => []StepsInOrder
  <1>1. RunInv => StepsInOrder
    BY DEF RunInv, JournalFacts, StepsInOrder
  <1> QED
    BY <1>1, RunInvariant, PTL

(* Work that recovery declared interrupted or uncertain never completes.   *)
THEOREM VerdictsStand == Spec => []VerdictIsFinal
  <1>1. RunInv => VerdictIsFinal
    BY DEF RunInv, JournalFacts, VerdictIsFinal
  <1> QED
    BY <1>1, RunInvariant, PTL

(* The history that the journal tells of an attempt, as a whole.           *)
THEOREM AttemptsTellOneStory == Spec => []AttemptHistory
  BY BilledAtMostOnce, FinishesArePaid, VerdictsStand, PTL DEF AttemptHistory

(* Every execution of an action but its last has an outcome in the journal. *)
THEOREM NoAttemptForgotten == Spec => []RerunsAreMarked
  <1>1. RunInv => RerunsAreMarked
    BY DEF RunInv, JournalFacts, RerunsAreMarked
  <1> QED
    BY <1>1, RunInvariant, PTL

-----------------------------------------------------------------------------
(* Only Start adds an action_started record, about the action in hand.     *)

LEMMA OnlyStartStarts ==
  ASSUME RunInv, Next, NEW i \in Added("action_started")
  PROVE  /\ pc = "starting" /\ journal' = journal \o StartBlock
         /\ journal'[i].name = Current /\ journal'[i].input = identity
  <1> USE DEF Added
  <1>1. ASSUME NEW e, NEW m \in Nat, fresh <= m, Allowed(journal, e, m),
               journal' = journal \o <<e>>
        PROVE  journal'[i] = e /\ e.kind = "action_started"
    <2>1. /\ DOMAIN journal = 1 .. Len(journal)
          /\ DOMAIN journal' = 1 .. Len(journal) + 1
          /\ journal'[Len(journal) + 1] = e
          /\ Len(journal) \in Nat
      BY <1>1, LogOne
    <2> QED
      BY <2>1
  <1>2. journal' # journal
    OBVIOUS
  <1>3. fresh \in Nat /\ fresh + 1 \in Nat /\ fresh <= fresh + 1
    BY DEF RunInv, TypeOK
  <1>4. CASE Start
    <2> DEFINE e == Entry("action_started", Current, attempt, identity, Zero)
    <2>1. pc = "starting" /\ journal' = journal \o <<e>>
      BY <1>4 DEF Start, Log, StartBlock
    <2>2. Allowed(journal, e, fresh)
      BY <2>1, StartAllowed
    <2>3. e.name = Current /\ e.input = identity
      BY DEF Entry
    <2> HIDE DEF e
    <2>4. journal'[i] = e
      BY <1>1, <1>3, <2>1, <2>2
    <2> QED
      BY <1>4, <2>1, <2>3, <2>4 DEF Start, Log
  <1>5. CASE Load
    BY <1>1, <1>2, <1>3, <1>5, RecoveredAllowed DEF Load, Recovered, Entry
  <1>6. CASE Reconcile
    <2>1. Unresolved # {} /\ journal' = journal \o MarkerBlock
      BY <1>6 DEF Reconcile, Log
    <2> QED
      BY <1>1, <1>3, <2>1, MarkerAllowed DEF MarkerBlock
  <1>7. CASE Disown
    <2>1. Foreign # {} /\ journal' = journal \o DisownBlock
      BY <1>7 DEF Disown, Log
    <2> QED
      BY <1>1, <1>3, <2>1, DisownAllowed DEF DisownBlock, Entry
  <1>8. CASE Refuse
    <2>1. journal' = journal \o RefuseBlock /\ Current \in Name
      BY <1>8, CurrentIsName DEF Refuse, Log, AtAction, RunInv
    <2> QED
      BY <1>1, <1>3, <2>1, NoteAllowed DEF RefuseBlock, Entry, RunInv
  <1>9. CASE Close
    <2>1. journal' = journal \o DoneBlock
      BY <1>2, <1>9 DEF Close, Log, fileVars
    <2> QED
      BY <1>1, <1>3, <2>1, NoteAllowed DEF DoneBlock, Entry, RunInv
  <1>10. CASE Reserve
    <2>1. AtAction /\ journal' = journal \o ReserveBlock
      BY <1>10 DEF Reserve, Log
    <2> QED
      BY <1>1, <1>3, <2>1, ReserveAllowed DEF ReserveBlock, Entry
  <1>11. CASE Finish
    <2>1. PICK cost \in Results : pc = "running" /\ journal' = journal \o CommitBlock(cost)
      BY <1>11 DEF Finish, Log
    <2> DEFINE e == Entry("budget_settled", Current, attempt, NoIdentity, cost)
               f == Entry("action_finished", Current, attempt, identity, Zero)
    <2>4. e.kind = "budget_settled" /\ f.kind = "action_finished"
      BY DEF Entry
    <2>5. /\ DOMAIN journal = 1 .. Len(journal)
          /\ DOMAIN journal' = 1 .. Len(journal) + 2
          /\ journal'[Len(journal) + 1] = e
          /\ journal'[Len(journal) + 2] = f
          /\ Len(journal) \in Nat
      BY <2>1, LogCommit
    <2> HIDE DEF e, f
    <2>2. /\ DOMAIN journal = 1 .. Len(journal)
          /\ DOMAIN journal' = 1 .. Len(journal) + 2
          /\ journal'[Len(journal) + 1].kind = "budget_settled"
          /\ journal'[Len(journal) + 2].kind = "action_finished"
          /\ Len(journal) \in Nat
      BY <2>4, <2>5
    <2>3. i = Len(journal) + 1 \/ i = Len(journal) + 2
      BY <2>2
    <2> QED
      BY <2>2, <2>3
  <1>12. CASE TornWrite
    <2>1. PICK cost \in Results :
            LET e == Entry("budget_settled", Current, attempt, NoIdentity, cost)
            IN  Allowed(journal, e, fresh) /\ journal' = journal \o <<e>>
      BY <1>2, <1>12, TornWriteLeaves
    <2> DEFINE e == Entry("budget_settled", Current, attempt, NoIdentity, cost)
    <2>2. e.kind # "action_started"
      BY DEF Entry
    <2> HIDE DEF e
    <2> QED
      BY <1>1, <1>3, <2>1, <2>2 DEF e
  <1>13. CASE \/ Spawn \/ Enter \/ Reconciled \/ Trust \/ Skip \/ Cancel
               \/ EndOfList \/ NextCall \/ Raise \/ Exit
    <2>1. journal' = journal
      BY <1>13 DEF Spawn, Enter, Reconciled, Trust, Skip, Cancel, EndOfList, NextCall,
                   Raise, Exit, fileVars, Remember
    <2> QED
      BY <1>2, <2>1
  <1> QED
    BY <1>4, <1>5, <1>6, <1>7, <1>8, <1>9, <1>10, <1>11, <1>12, <1>13, Zenon
    DEF Next, RunStep

(* An action that is finished under the declared identity never runs       *)
(* again.                                                                  *)
THEOREM FinishedNeverReruns == Spec => NoRerun
  <1>1. RunInv /\ [Next]_vars =>
          [ \A i \in Added("action_started") : \A j \in DOMAIN journal :
              ~ /\ journal[j].kind = "action_finished"
                /\ journal[j].name = journal'[i].name
                /\ journal[j].input = journal'[i].input ]_vars
    <2> SUFFICES ASSUME RunInv, Next, NEW i \in Added("action_started"),
                        NEW j \in DOMAIN journal,
                        journal[j].kind = "action_finished",
                        journal[j].name = journal'[i].name,
                        journal[j].input = journal'[i].input
                 PROVE  FALSE
      OBVIOUS
    <2>1. /\ pc = "starting"
          /\ journal[j].name = Current /\ journal[j].input = identity
      BY OnlyStartStarts
    <2>2. pos <= Len(Actions) /\ Current \notin done
      BY <2>1 DEF RunInv, AttemptInHand
    <2>3. Listed(Current) /\ pos \in DOMAIN Actions
      BY <2>2, CurrentIsName DEF RunInv
    <2>4. Current \in Trusted
      BY <2>1, <2>3 DEF Trusted, Finishes
    <2>5. PICK q \in 1 .. pos - 1 : Actions[q] = Current
      BY <2>1, <2>2, <2>4 DEF RunInv, FinishedIsSkipped
    <2>6. Actions \in Seq(Name) /\ pos \in 1 .. Len(Actions)
      BY <2>3, CallsAreLists DEF RunInv, TypeOK, Actions
    <2>7. q \in DOMAIN Actions /\ q # pos
      BY <2>5, <2>6
    <2>8. IsInjective(Actions)
      BY CallsAssumption DEF RunInv, TypeOK, Actions
    <2> QED
      BY <2>3, <2>5, <2>7, <2>8 DEF IsInjective, Current
  <1> QED
    BY <1>1, RunInvariant, PTL DEF Spec, NoRerun

-----------------------------------------------------------------------------
(* The budget. Replay is a recursive function of the journal: what it      *)
(* gives after one more record (ReplayOneMore) is proved by induction over *)
(* the journal's length, and the rest is an invariant like the others.     *)

(* A set of naturals with 0, and with n + 1 whenever it has n, has them all. *)
LEMMA Induction ==
  ASSUME NEW S \in SUBSET Nat, 0 \in S, \A n \in S : n + 1 \in S
  PROVE  S = Nat
  <1> DEFINE T == Nat \ S
  <1> SUFFICES ASSUME T # {} PROVE FALSE
    OBVIOUS
  <1>1. PICK x \in T : \A y \in T : ~ (<<y, x>> \in Less)
    <2>1. T \subseteq Nat
      OBVIOUS
    <2> HIDE DEF T
    <2> QED
      BY <2>1, LessIsWellFounded, WFMin, Zenon
  <1>2. x # 0 /\ x - 1 \in Nat
    BY <1>1
  <1>3. <<x - 1, x>> \in Less
    BY <1>2 DEF Less
  <1>4. x - 1 \notin T
    <2> HIDE DEF T
    <2> QED
      BY <1>1, <1>3
  <1> QED
    BY <1>1, <1>2, <1>4

(* The running balance of a journal, whose last value is the replay.       *)
Balances(s, f, k) ==
  f = [n \in 0 .. k |-> IF n = 0 THEN NewBudget ELSE Account(f[n - 1], s[n])]

Balance(s) == CHOOSE f : Balances(s, f, Len(s))

LEMMA ReplayIsBalance ==
  ASSUME NEW s
  PROVE  Replay(s) = Balance(s)[Len(s)]
  BY DEF Replay, Balance, Balances

LEMMA BalanceExists ==
  ASSUME NEW s, NEW k \in Nat
  PROVE  \E f : Balances(s, f, k)
  <1> DEFINE S == {n \in Nat : \E f : Balances(s, f, n)}
  <1>1. 0 \in S
    <2> DEFINE f == [n \in 0 .. 0 |-> NewBudget]
    <2>1. Balances(s, f, 0)
      BY DEF Balances
    <2> QED
      BY <2>1
  <1>2. ASSUME NEW n \in S PROVE n + 1 \in S
    <2>1. PICK f : Balances(s, f, n)
      OBVIOUS
    <2> DEFINE g == [i \in 0 .. n + 1 |-> IF i = n + 1 THEN Account(f[n], s[n + 1]) ELSE f[i]]
    <2>2. ASSUME NEW i \in 0 .. n + 1
          PROVE  g[i] = IF i = 0 THEN NewBudget ELSE Account(g[i - 1], s[i])
      <3>1. CASE i = n + 1
        BY <3>1
      <3>2. CASE i \in 0 .. n
        <4>1. f[i] = IF i = 0 THEN NewBudget ELSE Account(f[i - 1], s[i])
          BY <2>1, <3>2 DEF Balances
        <4>2. i # 0 => g[i - 1] = f[i - 1]
          BY <3>2
        <4>3. g[i] = f[i]
          BY <3>2
        <4> QED
          BY <4>1, <4>2, <4>3
      <3> QED
        BY <3>1, <3>2
    <2>3. g = [i \in 0 .. n + 1 |-> g[i]]
      OBVIOUS
    <2> HIDE DEF g
    <2>4. Balances(s, g, n + 1)
      BY <2>2, <2>3 DEF Balances
    <2> QED
      BY <2>4
  <1>3. S = Nat
    <2> HIDE DEF S
    <2> QED
      BY <1>1, <1>2, Induction DEF S
  <1> QED
    BY <1>3

LEMMA BalanceUnfolds ==
  ASSUME NEW s \in Seq(Record)
  PROVE  /\ Balance(s)[0] = NewBudget
         /\ \A n \in 1 .. Len(s) : Balance(s)[n] = Account(Balance(s)[n - 1], s[n])
  <1>1. Len(s) \in Nat
    OBVIOUS
  <1>2. Balances(s, Balance(s), Len(s))
    BY <1>1, BalanceExists DEF Balance
  <1> QED
    BY <1>1, <1>2 DEF Balances

(* The balance of a journal is what it was, up to where it was.            *)
LEMMA BalanceStands ==
  ASSUME NEW s \in Seq(Record), NEW e \in Record
  PROVE  \A n \in 0 .. Len(s) : Balance(s \o <<e>>)[n] = Balance(s)[n]
  <1> DEFINE t == s \o <<e>>
  <1>1. /\ t \in Seq(Record) /\ Len(s) \in Nat /\ Len(t) = Len(s) + 1
        /\ \A i \in 1 .. Len(s) : t[i] = s[i]
    BY OneMore
  <1> HIDE DEF t
  <1> DEFINE S == {n \in Nat : n <= Len(s) => Balance(t)[n] = Balance(s)[n]}
  <1>2. 0 \in S
    BY <1>1, BalanceUnfolds
  <1>3. ASSUME NEW n \in S PROVE n + 1 \in S
    <2> SUFFICES ASSUME n + 1 <= Len(s)
                 PROVE  Balance(t)[n + 1] = Balance(s)[n + 1]
      OBVIOUS
    <2>1. n + 1 \in 1 .. Len(s) /\ n + 1 \in 1 .. Len(t) /\ (n + 1) - 1 = n
      BY <1>1
    <2>2. Balance(s)[n + 1] = Account(Balance(s)[n], s[n + 1])
      BY <2>1, BalanceUnfolds
    <2>3. Balance(t)[n + 1] = Account(Balance(t)[n], t[n + 1])
      BY <1>1, <2>1, BalanceUnfolds
    <2>4. t[n + 1] = s[n + 1] /\ Balance(t)[n] = Balance(s)[n]
      BY <1>1, <2>1
    <2> QED
      BY <2>2, <2>3, <2>4
  <1>4. S = Nat
    <2> HIDE DEF S
    <2> QED
      BY <1>2, <1>3, Induction DEF S
  <1> QED
    BY <1>1, <1>4 DEF t

(* Reading a journal again is reading it up to its last record, then that. *)
LEMMA ReplayOneMore ==
  ASSUME NEW s \in Seq(Record), NEW e \in Record
  PROVE  Replay(s \o <<e>>) = Account(Replay(s), e)
  <1> DEFINE t == s \o <<e>>
  <1>1. /\ t \in Seq(Record) /\ Len(s) \in Nat /\ Len(t) = Len(s) + 1
        /\ t[Len(s) + 1] = e
    BY OneMore
  <1>2. Balance(t)[Len(s)] = Balance(s)[Len(s)]
    BY <1>1, BalanceStands
  <1> HIDE DEF t
  <1>3. Balance(t)[Len(t)] = Account(Balance(t)[Len(t) - 1], t[Len(t)])
    BY <1>1, BalanceUnfolds
  <1>4. Len(t) - 1 = Len(s)
    BY <1>1
  <1>5. Balance(t)[Len(t)] = Account(Balance(s)[Len(s)], e)
    BY <1>1, <1>2, <1>3, <1>4
  <1> QED
    BY <1>5, ReplayIsBalance DEF t

LEMMA ReplayOfNothing == Replay(<< >>) = NewBudget
  <1>1. << >> \in Seq(Record) /\ Len(<< >>) = 0
    BY EmptySeq
  <1> QED
    BY <1>1, BalanceUnfolds, ReplayIsBalance

-----------------------------------------------------------------------------
(* The budget's arithmetic yields budgets.                                 *)

LEMMA SumsAreCosts ==
  ASSUME NEW a \in Cost, NEW b \in Cost, NEW c \in [Resource -> Int]
  PROVE  /\ Plus(a, b) \in Cost
         /\ Plus(c, b) \in [Resource -> Int]
         /\ Minus(c, b) \in [Resource -> Int]
  BY DEF Plus, Minus, Cost

LEMMA NewIsBudget == IsBudget(NewBudget) /\ DOMAIN NewBudget.open = {}
  <1>1. DOMAIN << >> = {}
    BY EmptySeq
  <1>2. Zero \in [Resource -> Int]
    BY DEF Zero
  <1> QED
    BY <1>1, <1>2, ZeroIsCost DEF NewBudget, IsBudget

LEMMA HoldIsBudget ==
  ASSUME NEW b, IsBudget(b), NEW id, NEW cost \in Cost
  PROVE  LET h == Hold(b, id, cost)
         IN  /\ IsBudget(h)
             /\ h.settled = b.settled
             /\ h.reserved = Plus(b.reserved, cost)
             /\ DOMAIN h.open = DOMAIN b.open \cup {id}
             /\ \A x \in DOMAIN b.open \cup {id} :
                  h.open[x] = IF x = id THEN cost ELSE b.open[x]
  <1> DEFINE h == Hold(b, id, cost)
             o == [x \in DOMAIN b.open \cup {id} |-> IF x = id THEN cost ELSE b.open[x]]
  <1>2. h = [settled |-> b.settled, reserved |-> Plus(b.reserved, cost), open |-> o]
    BY DEF Hold
  <1>3. \A x \in DOMAIN o : o[x] \in Cost
    BY DEF IsBudget
  <1>4. Plus(b.reserved, cost) \in [Resource -> Int]
    BY SumsAreCosts DEF IsBudget
  <1>5. b.settled \in Cost
    BY DEF IsBudget
  <1>6. DOMAIN o = DOMAIN b.open \cup {id}
    OBVIOUS
  <1>7. \A x \in DOMAIN b.open \cup {id} : o[x] = IF x = id THEN cost ELSE b.open[x]
    OBVIOUS
  <1> HIDE DEF h, o
  <1>8. IsBudget(h)
    BY <1>2, <1>3, <1>4, <1>5 DEF IsBudget
  <1> QED
    BY <1>2, <1>6, <1>7, <1>8 DEF h

LEMMA SettleIsBudget ==
  ASSUME NEW b, IsBudget(b), NEW id, NEW cost \in Cost
  PROVE  LET s == Settle(b, id, cost)
         IN  /\ IsBudget(s)
             /\ DOMAIN s.open = DOMAIN b.open \ {id}
             /\ \A x \in DOMAIN b.open \ {id} : s.open[x] = b.open[x]
  <1> DEFINE s == Settle(b, id, cost)
             o == Restrict(b.open, DOMAIN b.open \ {id})
             r == IF id \in DOMAIN b.open THEN Minus(b.reserved, b.open[id]) ELSE b.reserved
  <1>1. s = [settled |-> Plus(b.settled, cost), reserved |-> r, open |-> o]
    BY DEF Settle
  <1>2. /\ DOMAIN o = DOMAIN b.open \ {id}
        /\ \A x \in DOMAIN b.open \ {id} : o[x] = b.open[x]
    BY DEF Restrict
  <1>3. Plus(b.settled, cost) \in Cost
    BY SumsAreCosts DEF IsBudget
  <1>4. r \in [Resource -> Int]
    BY SumsAreCosts DEF IsBudget
  <1> HIDE DEF s, o, r
  <1>5. IsBudget(s)
    BY <1>1, <1>2, <1>3, <1>4 DEF IsBudget
  <1> QED
    BY <1>1, <1>2, <1>5 DEF s

-----------------------------------------------------------------------------
(* What the budget needs of an appended record, beyond Allowed.            *)
Priced(s, e) ==
  /\ e.kind = "budget_reserved" => e.cost = Estimate[e.name]
  /\ e.kind = "action_interrupted" => ReservedAs(s, e)

LEMMA GrowHolds ==
  ASSUME NEW s \in Seq(Record), NEW n, NEW e,
         JournalHolds(s), Allowed(s, e, n), Priced(s, e)
  PROVE  JournalHolds(s \o <<e>>)
  <1> DEFINE t == s \o <<e>>
             last == Len(s) + 1
             b == Replay(s)
             c == Replay(t)
  <1>1. e \in Record /\ e.cost \in Cost
    BY DEF Allowed, Record
  <1>2. /\ Len(s) \in Nat
        /\ DOMAIN s = 1 .. Len(s)
        /\ DOMAIN t = 1 .. last
        /\ \A i \in 1 .. Len(s) : t[i] = s[i]
        /\ t[last] = e
    BY <1>1, OneMore
  <1>3. \A kind, id : HasIn(t, kind, id)
           <=> HasIn(s, kind, id) \/ (e.kind = kind /\ e.attempt = id)
    BY <1>1, HasGrows
  <1>4. c = Account(b, e)
    BY <1>1, ReplayOneMore
  <1>5. IsBudget(b) /\ HeldIn(s, b.open) /\ QuotedIn(s)
    BY DEF JournalHolds
  <1> HIDE DEF t, b, c
  <1>6. \A i \in DOMAIN t : i \in DOMAIN s \/ i = last
    BY <1>2
  <1>7. QuotedIn(t)
    <2>1. \A f : ReservedAs(s, f) => ReservedAs(t, f)
      BY <1>2 DEF ReservedAs
    <2> SUFFICES ASSUME NEW i \in DOMAIN t, t[i].kind = "action_interrupted"
                 PROVE  ReservedAs(t, t[i])
      BY DEF QuotedIn
    <2>2. CASE i \in DOMAIN s
      BY <1>2, <1>5, <2>1, <2>2 DEF QuotedIn
    <2>3. CASE i = last
      BY <1>2, <2>1, <2>3 DEF Priced
    <2> QED
      BY <1>6, <2>2, <2>3
  <1>8. CASE e.kind = "budget_reserved"
    <2>1. c = Hold(b, e.attempt, e.cost)
      BY <1>4, <1>8 DEF Account
    <2>2. /\ IsBudget(c)
          /\ DOMAIN c.open = DOMAIN b.open \cup {e.attempt}
          /\ \A x \in DOMAIN b.open \cup {e.attempt} :
               c.open[x] = IF x = e.attempt THEN e.cost ELSE b.open[x]
      BY <1>1, <1>5, <2>1, HoldIsBudget
    <2>3. ~HasIn(s, "budget_reserved", e.attempt)
      BY <1>8 DEF Allowed, AboutAttempts
    <2>4. HeldIn(t, c.open)
      <3> SUFFICES ASSUME NEW i \in DOMAIN t, t[i].kind = "budget_reserved"
                   PROVE  /\ t[i].cost = Estimate[t[i].name]
                          /\ \/ HasIn(t, "budget_settled", t[i].attempt)
                             \/ /\ t[i].attempt \in DOMAIN c.open
                                /\ c.open[t[i].attempt] = t[i].cost
        BY DEF HeldIn
      <3>1. CASE i \in DOMAIN s
        <4>1. t[i] = s[i] /\ s[i].attempt # e.attempt
          BY <1>2, <2>3, <3>1 DEF HasIn
        <4> QED
          BY <1>3, <1>5, <2>2, <3>1, <4>1 DEF HeldIn
      <3>2. CASE i = last
        BY <1>2, <1>8, <2>2, <3>2 DEF Priced
      <3> QED
        BY <1>6, <3>1, <3>2
    <2> QED
      BY <1>7, <2>2, <2>4 DEF JournalHolds, c, t
  <1>9. ASSUME e.kind # "budget_reserved", IsBudget(c),
               \A x \in DOMAIN b.open :
                 \/ e.kind = "budget_settled" /\ x = e.attempt
                 \/ x \in DOMAIN c.open /\ c.open[x] = b.open[x]
        PROVE  JournalHolds(t)
    <2>1. HeldIn(t, c.open)
      <3> SUFFICES ASSUME NEW i \in DOMAIN t, t[i].kind = "budget_reserved"
                   PROVE  /\ t[i].cost = Estimate[t[i].name]
                          /\ \/ HasIn(t, "budget_settled", t[i].attempt)
                             \/ /\ t[i].attempt \in DOMAIN c.open
                                /\ c.open[t[i].attempt] = t[i].cost
        BY DEF HeldIn
      <3>1. i \in DOMAIN s /\ t[i] = s[i]
        BY <1>2, <1>6, <1>9
      <3>2. /\ s[i].cost = Estimate[s[i].name]
            /\ \/ HasIn(s, "budget_settled", s[i].attempt)
               \/ s[i].attempt \in DOMAIN b.open /\ b.open[s[i].attempt] = s[i].cost
        BY <1>5, <3>1 DEF HeldIn
      <3> QED
        BY <1>3, <1>9, <3>1, <3>2
    <2> QED
      BY <1>7, <1>9, <2>1 DEF JournalHolds, c
  <1>10. CASE e.kind = "budget_settled"
    <2>1. c = Settle(b, e.attempt, e.cost)
      BY <1>4, <1>10 DEF Account
    <2>2. /\ IsBudget(c)
          /\ DOMAIN c.open = DOMAIN b.open \ {e.attempt}
          /\ \A x \in DOMAIN b.open \ {e.attempt} : c.open[x] = b.open[x]
      BY <1>1, <1>5, <2>1, SettleIsBudget
    <2> QED
      BY <1>9, <1>10, <2>2 DEF t
  <1>11. CASE e.kind \notin {"budget_reserved", "budget_settled"}
    <2>1. c = b
      BY <1>4, <1>11 DEF Account
    <2> QED
      BY <1>5, <1>9, <1>11, <2>1 DEF t
  <1> QED
    BY <1>8, <1>10, <1>11 DEF t

LEMMA MarkerPriced ==
  ASSUME RunInv, Unresolved # {}
  PROVE  Priced(journal, Marker(journal[First(Unresolved)]))
  <1> DEFINE i == First(Unresolved)
             e == Marker(journal[i])
  <1>1. i \in Unresolved
    <2>1. journal \in Seq(Record)
      BY DEF RunInv, TypeOK
    <2>2. Unresolved \subseteq Nat
      BY <2>1 DEF Unresolved
    <2> QED
      BY <2>2, FirstIsMember
  <1> HIDE DEF i
  <1>2. /\ i \in DOMAIN journal
        /\ journal[i].kind = "action_started"
        /\ journal[i].attempt # 0
    BY <1>1 DEF Unresolved, RunInv, JournalFacts, HandedOutIn, AboutAttempts
  <1>3. PICK j \in DOMAIN journal : /\ journal[j].kind = "budget_reserved"
                                    /\ journal[j].attempt = journal[i].attempt
                                    /\ journal[j].name = journal[i].name
    <2>1. \E j \in 1 .. i - 1 : /\ journal[j].kind = "budget_reserved"
                               /\ journal[j].attempt = journal[i].attempt
                               /\ journal[j].name = journal[i].name
      BY <1>2 DEF RunInv, JournalFacts, OrderedIn, Before
    <2> QED
      BY <2>1, <1>2 DEF RunInv, TypeOK
  <1>4. CostIn("budget_reserved", journal[i].attempt) = journal[j].cost
    <2> DEFINE k == CHOOSE k \in DOMAIN journal :
                      /\ journal[k].kind = "budget_reserved"
                      /\ journal[k].attempt = journal[i].attempt
    <2>1. /\ k \in DOMAIN journal
          /\ journal[k].kind = "budget_reserved"
          /\ journal[k].attempt = journal[i].attempt
      BY <1>3
    <2>2. CostIn("budget_reserved", journal[i].attempt) = journal[k].cost
      BY DEF CostIn
    <2> HIDE DEF k
    <2>3. k = j
      BY <1>2, <1>3, <2>1 DEF RunInv, JournalFacts, OnceIn
    <2> QED
      BY <2>2, <2>3
  <1>5. CASE Has("budget_settled", journal[i].attempt)
    BY <1>5 DEF Marker, Entry, Priced, i
  <1>6. CASE ~Has("budget_settled", journal[i].attempt)
    <2>1. e = Entry("action_interrupted", journal[i].name, journal[i].attempt,
                    NoIdentity, CostIn("budget_reserved", journal[i].attempt))
      BY <1>6 DEF Marker
    <2>2. /\ e.kind = "action_interrupted" /\ e.name = journal[i].name
          /\ e.attempt = journal[i].attempt /\ e.cost = journal[j].cost
      BY <1>4, <2>1 DEF Entry
    <2> HIDE DEF e
    <2>3. Priced(journal, e)
      BY <1>3, <2>2 DEF Priced, ReservedAs
    <2> QED
      BY <2>3 DEF e, i
  <1> QED
    BY <1>5, <1>6

-----------------------------------------------------------------------------
(* What each step does to the journal and to its replay.                   *)

(* The journal holds after one more record, and is worth that much more.   *)
LEMMA OneHolds ==
  ASSUME BudgetInv, NEW e, NEW m, Allowed(journal, e, m), Priced(journal, e),
         journal' = journal \o <<e>>
  PROVE  JournalHolds(journal') /\ Replay(journal') = Account(Replay(journal), e)
  <1>1. journal \in Seq(Record) /\ e \in Record /\ JournalHolds(journal)
    BY DEF BudgetInv, RunInv, TypeOK, Allowed
  <1> QED
    BY <1>1, GrowHolds, ReplayOneMore

(* Records that move no money.                                             *)
Note(e) ==
  /\ e.kind \notin {"budget_reserved", "budget_settled"}
  /\ Priced(journal, e)

LEMMA NotesAreFree ==
  ASSUME BudgetInv,
         \/ Load \/ Reconcile \/ Disown \/ Refuse \/ Start \/ Close
  PROVE  \/ journal' = journal
         \/ \E e, m : Allowed(journal, e, m) /\ Note(e) /\ journal' = journal \o <<e>>
  <1>0. RunInv
    BY DEF BudgetInv
  <1>1. CASE Load
    BY <1>0, <1>1, RecoveredAllowed DEF Load, Recovered, Entry, Note, Priced
  <1>2. CASE Reconcile
    <2>1. Unresolved # {} /\ journal' = journal \o MarkerBlock
      BY <1>2 DEF Reconcile, Log
    <2> QED
      BY <1>0, <2>1, MarkerAllowed, MarkerPriced DEF MarkerBlock, Note
  <1>3. CASE Disown
    <2>1. Foreign # {} /\ journal' = journal \o DisownBlock
      BY <1>3 DEF Disown, Log
    <2> QED
      BY <1>0, <2>1, DisownAllowed DEF DisownBlock, Entry, Note, Priced
  <1>4. CASE Refuse
    <2>1. journal' = journal \o RefuseBlock /\ Current \in Name
      BY <1>0, <1>4, CurrentIsName DEF Refuse, Log, AtAction, RunInv
    <2> QED
      BY <1>0, <2>1, NoteAllowed DEF RefuseBlock, Entry, RunInv, Note, Priced
  <1>5. CASE Start
    <2>1. pc = "starting" /\ journal' = journal \o StartBlock
      BY <1>5 DEF Start, Log
    <2> QED
      BY <1>0, <2>1, StartAllowed DEF StartBlock, Entry, Note, Priced
  <1>6. CASE Close
    <2>1. journal' = journal \/ journal' = journal \o DoneBlock
      BY <1>6 DEF Close, Log, fileVars
    <2> QED
      BY <1>0, <2>1, NoteAllowed DEF DoneBlock, Entry, RunInv, Note, Priced
  <1> QED
    BY <1>1, <1>2, <1>3, <1>4, <1>5, <1>6

LEMMA NoteLeavesBudget ==
  ASSUME BudgetInv,
         \/ Load \/ Reconcile \/ Disown \/ Refuse \/ Start \/ Close
  PROVE  JournalHolds(journal') /\ Replay(journal') = Replay(journal)
  <1>1. CASE journal' = journal
    BY <1>1 DEF BudgetInv
  <1>2. ASSUME NEW e, NEW m, Allowed(journal, e, m), Note(e), journal' = journal \o <<e>>
        PROVE  JournalHolds(journal') /\ Replay(journal') = Replay(journal)
    <2>1. /\ JournalHolds(journal')
          /\ Replay(journal') = Account(Replay(journal), e)
      BY <1>2, OneHolds DEF Note
    <2> QED
      BY <1>2, <2>1 DEF Note, Account
  <1> QED
    BY <1>1, <1>2, NotesAreFree

LEMMA ReserveHolds ==
  ASSUME BudgetInv, Reserve
  PROVE  /\ JournalHolds(journal')
         /\ Estimate[Current] \in Cost
         /\ Replay(journal') = Hold(Replay(journal), attempt', Estimate[Current])
  <1> DEFINE e == Entry("budget_reserved", Current, fresh + 1, NoIdentity, Estimate[Current])
  <1>1. RunInv /\ AtAction /\ journal' = journal \o <<e>> /\ attempt' = fresh + 1
    BY DEF BudgetInv, Reserve, Log, ReserveBlock
  <1>2. Allowed(journal, e, fresh + 1)
    BY <1>1, ReserveAllowed
  <1>3. Priced(journal, e)
    BY DEF Priced, Entry
  <1>4. Account(Replay(journal), e) = Hold(Replay(journal), fresh + 1, Estimate[Current])
    BY DEF Account, Entry
  <1>5. Estimate[Current] \in Cost
    BY <1>1, CurrentIsName, CostAssumption DEF RunInv, AtAction
  <1> HIDE DEF e
  <1> QED
    BY <1>1, <1>2, <1>3, <1>4, <1>5, OneHolds

(* A settlement, with or without its finish.                               *)
LEMMA SettleHolds ==
  ASSUME BudgetInv, pc = "running", NEW cost \in Results
  PROVE  LET e == Entry("budget_settled", Current, attempt, NoIdentity, cost)
             t == journal \o <<e>>
         IN  /\ t \in Seq(Record)
             /\ JournalHolds(t)
             /\ Replay(t) = Settle(Replay(journal), attempt, cost)
  <1> DEFINE e == Entry("budget_settled", Current, attempt, NoIdentity, cost)
  <1>1. RunInv /\ journal \in Seq(Record) /\ JournalHolds(journal)
    BY DEF BudgetInv, RunInv, TypeOK
  <1>2. Allowed(journal, e, fresh) /\ e \in Record
    BY <1>1, CommitAllowed DEF Allowed
  <1>3. Priced(journal, e)
    BY DEF Priced, Entry
  <1>4. Account(Replay(journal), e) = Settle(Replay(journal), attempt, cost)
    BY DEF Account, Entry
  <1> HIDE DEF e
  <1>5. /\ JournalHolds(journal \o <<e>>)
        /\ Replay(journal \o <<e>>) = Settle(Replay(journal), attempt, cost)
        /\ journal \o <<e>> \in Seq(Record)
    BY <1>1, <1>2, <1>3, <1>4, GrowHolds, ReplayOneMore, OneMore
  <1> QED
    BY <1>5 DEF e

LEMMA CommitHolds ==
  ASSUME BudgetInv, pc = "running", NEW cost \in Results,
         journal' = journal \o CommitBlock(cost)
  PROVE  /\ JournalHolds(journal')
         /\ Replay(journal') = Settle(Replay(journal), attempt, cost)
  <1> DEFINE e == Entry("budget_settled", Current, attempt, NoIdentity, cost)
             f == Entry("action_finished", Current, attempt, identity, Zero)
             t == journal \o <<e>>
  <1>1. RunInv /\ journal \in Seq(Record)
    BY DEF BudgetInv, RunInv, TypeOK
  <1>2. /\ Allowed(journal, e, fresh) /\ Allowed(t, f, fresh)
        /\ e \in Record /\ f \in Record
    BY <1>1, CommitAllowed DEF Allowed
  <1>3. journal' = t \o <<f>>
    BY <1>1, <1>2, OneThenOther DEF CommitBlock
  <1>4. /\ t \in Seq(Record) /\ JournalHolds(t)
        /\ Replay(t) = Settle(Replay(journal), attempt, cost)
    BY SettleHolds
  <1>5. Priced(t, f) /\ f.kind \notin {"budget_reserved", "budget_settled"}
    BY DEF Priced, Entry
  <1> HIDE DEF t, e, f
  <1>6. JournalHolds(t \o <<f>>) /\ Replay(t \o <<f>>) = Account(Replay(t), f)
    BY <1>2, <1>4, <1>5, GrowHolds, ReplayOneMore
  <1>7. Account(Replay(t), f) = Replay(t)
    BY <1>5 DEF Account
  <1> QED
    BY <1>3, <1>4, <1>6, <1>7

LEMMA TornWriteHolds ==
  ASSUME BudgetInv, TornWrite
  PROVE  JournalHolds(journal')
  <1>1. RunInv
    BY DEF BudgetInv
  <1>2. CASE journal' = journal
    BY <1>2 DEF BudgetInv
  <1>3. CASE /\ pc = "running"
             /\ \E cost \in Results :
                  LET e == Entry("budget_settled", Current, attempt, NoIdentity, cost)
                  IN  Allowed(journal, e, fresh) /\ journal' = journal \o <<e>>
    BY <1>3, SettleHolds
  <1> QED
    BY <1>1, <1>2, <1>3, TornWriteLeaves

-----------------------------------------------------------------------------

LEMMA BudgetInvInit == Init => BudgetInv
  <1> SUFFICES ASSUME Init
               PROVE  BudgetInv
    OBVIOUS
  <1>1. journal = << >> /\ DOMAIN journal = {} /\ budget = NewBudget /\ pc = "down"
    BY EmptySeq DEF Init
  <1>2. JournalHolds(journal)
    BY <1>1, ReplayOfNothing, NewIsBudget DEF JournalHolds, HeldIn, QuotedIn
  <1> QED
    BY <1>1, <1>2, RunInvInit DEF BudgetInv, StartsUnspent, MemoryIsReplay

LEMMA BudgetInvStep == BudgetInv /\ [Next]_vars => BudgetInv'
  <1> SUFFICES ASSUME BudgetInv, [Next]_vars
               PROVE  BudgetInv'
    OBVIOUS
  <1>1. RunInv' /\ RunInv
    BY RunInvStep DEF BudgetInv
  <1>2. /\ JournalHolds(journal)
        /\ (pc = "down" \/ (pc \in {"loading", "entering"} /\ ~resume)) => budget = NewBudget
        /\ pc \in {"reconciling", "trusting", "looping", "starting", "running",
                  "closing", "returned"} => budget = Replay(journal)
    BY DEF BudgetInv, StartsUnspent, MemoryIsReplay
  <1>3. CASE UNCHANGED vars
    BY <1>1, <1>2, <1>3 DEF vars, BudgetInv, StartsUnspent, MemoryIsReplay
  <1>4. CASE Raise \/ Exit \/ TornWrite
    <2>1. JournalHolds(journal')
      BY <1>2, <1>4, TornWriteHolds DEF Raise, Exit, fileVars
    <2>2. pc' = "down" /\ budget' = NewBudget
      BY <1>4 DEF Raise, Exit, TornWrite, Forget
    <2> QED
      BY <1>1, <2>1, <2>2 DEF BudgetInv, StartsUnspent, MemoryIsReplay
  <1>5. CASE Reconcile \/ Disown \/ Refuse \/ Start \/ Close
    <2>1. JournalHolds(journal') /\ Replay(journal') = Replay(journal)
      BY <1>5, NoteLeavesBudget
    <2>2. /\ budget' = budget
          /\ pc \in {"reconciling", "trusting", "looping", "starting", "closing"}
          /\ pc' \in {"reconciling", "trusting", "closing", "running", "returned"}
      BY <1>5 DEF Reconcile, Disown, Refuse, Start, Close, AtAction, Remember
    <2> QED
      BY <1>1, <1>2, <2>1, <2>2 DEF BudgetInv, StartsUnspent, MemoryIsReplay
  <1>6. CASE Load
    <2>1. JournalHolds(journal')
      BY <1>6, NoteLeavesBudget
    <2>2. budget' = budget /\ resume' = resume /\ pc = "loading" /\ pc' = "entering"
      BY <1>6 DEF Load, Remember
    <2> QED
      BY <1>1, <1>2, <2>1, <2>2 DEF BudgetInv, StartsUnspent, MemoryIsReplay
  <1>7. CASE Reserve
    <2>1. /\ budget' = Hold(budget, attempt', Estimate[Current])
          /\ pc = "looping" /\ pc' = "starting"
      BY <1>7 DEF Reserve, AtAction
    <2>2. /\ JournalHolds(journal')
          /\ Replay(journal') = Hold(Replay(journal), attempt', Estimate[Current])
      BY <1>7, ReserveHolds
    <2> QED
      BY <1>1, <1>2, <2>1, <2>2 DEF BudgetInv, StartsUnspent, MemoryIsReplay
  <1>8. CASE Finish
    <2>1. PICK cost \in Results : /\ journal' = journal \o CommitBlock(cost)
                                 /\ budget' = Settle(budget, attempt, cost)
      BY <1>8 DEF Finish, Log
    <2>2. pc = "running" /\ pc' = "looping"
      BY <1>8 DEF Finish
    <2>3. /\ JournalHolds(journal')
          /\ Replay(journal') = Settle(Replay(journal), attempt, cost)
      BY <2>1, <2>2, CommitHolds
    <2> QED
      BY <1>1, <1>2, <2>1, <2>2, <2>3 DEF BudgetInv, StartsUnspent, MemoryIsReplay
  <1>9. CASE \/ Spawn \/ Enter \/ Reconciled \/ Trust \/ Skip \/ Cancel
             \/ EndOfList \/ NextCall
    <2>1. journal' = journal
      BY <1>9 DEF Spawn, Enter, Reconciled, Trust, Skip, Cancel, EndOfList, NextCall,
                  fileVars, Remember
    <2>2. StartsUnspent' /\ MemoryIsReplay'
      <3>1. CASE Spawn
        BY <1>2, <3>1 DEF Spawn, StartsUnspent, MemoryIsReplay
      <3>2. CASE Enter
        <4>1. ~resume => journal = << >> /\ budget = NewBudget
          BY <1>2, <3>2 DEF Enter
        <4>2. budget' = Replay(journal)
          BY <3>2, <4>1, ReplayOfNothing DEF Enter
        <4> QED
          BY <2>1, <3>2, <4>2 DEF Enter, StartsUnspent, MemoryIsReplay
      <3>3. CASE Reconciled \/ Trust \/ Skip \/ Cancel \/ EndOfList
        BY <1>2, <2>1, <3>3
        DEF Reconciled, Trust, Skip, Cancel, EndOfList, AtAction, Remember,
            StartsUnspent, MemoryIsReplay
      <3>4. CASE NextCall
        BY <3>4 DEF NextCall, StartsUnspent, MemoryIsReplay
      <3> QED
        BY <1>9, <3>1, <3>2, <3>3, <3>4
    <2> QED
      BY <1>1, <1>2, <2>1, <2>2 DEF BudgetInv
  <1> QED
    BY <1>3, <1>4, <1>5, <1>6, <1>7, <1>8, <1>9 DEF Next, RunStep

THEOREM BudgetInvariant == Spec => []BudgetInv
  BY BudgetInvInit, BudgetInvStep, PTL DEF Spec

(* At every action boundary of every process the live budget is what a     *)
(* replay of the journal gives, and no crash is ever forgiven: what an     *)
(* interrupted attempt held, its whole estimate, is held for good.         *)
THEOREM BudgetIsNeverForgiven == Spec => []BudgetIsReplay
  <1>1. BudgetInv => BudgetIsReplay
    <2> SUFFICES ASSUME BudgetInv
                 PROVE  InterruptedStaysHeld
      BY DEF BudgetInv, BudgetIsReplay
    <2> DEFINE held == Replay(journal).open
    <2> SUFFICES ASSUME NEW i \in DOMAIN journal, journal[i].kind = "action_interrupted"
                 PROVE  /\ journal[i].attempt \in DOMAIN held
                        /\ held[journal[i].attempt] = journal[i].cost
                        /\ journal[i].cost = Estimate[journal[i].name]
      BY DEF InterruptedStaysHeld
    <2> HIDE DEF held
    <2>1. HeldIn(journal, held) /\ QuotedIn(journal)
      BY DEF BudgetInv, JournalHolds, held
    <2>2. PICK j \in DOMAIN journal : /\ journal[j].kind = "budget_reserved"
                                      /\ journal[j].attempt = journal[i].attempt
                                      /\ journal[j].name = journal[i].name
                                      /\ journal[j].cost = journal[i].cost
      BY <2>1 DEF QuotedIn, ReservedAs
    <2>3. ~HasIn(journal, "budget_settled", journal[i].attempt)
      BY DEF BudgetInv, RunInv, JournalFacts, FinalIn
    <2> QED
      BY <2>1, <2>2, <2>3 DEF HeldIn
  <1> QED
    BY <1>1, BudgetInvariant, PTL

(* Only Reserve adds a budget_reserved record.                             *)
LEMMA OnlyReserveReserves ==
  ASSUME BudgetInv, Next, NEW i \in Added("budget_reserved")
  PROVE  Reserve
  <1> USE DEF Added
  <1>0. RunInv /\ fresh \in Nat /\ fresh + 1 \in Nat
    BY DEF BudgetInv, RunInv, TypeOK
  <1>1. journal' # journal
    OBVIOUS
  <1>2. ASSUME NEW e, NEW m, Allowed(journal, e, m), e.kind # "budget_reserved",
               journal' = journal \o <<e>>
        PROVE  FALSE
    <2>1. /\ DOMAIN journal = 1 .. Len(journal)
          /\ DOMAIN journal' = 1 .. Len(journal) + 1
          /\ journal'[Len(journal) + 1] = e
          /\ Len(journal) \in Nat
      BY <1>0, <1>2, OneMore DEF RunInv, TypeOK, Allowed
    <2> QED
      BY <1>2, <2>1
  <1>3. CASE Load \/ Reconcile \/ Disown \/ Refuse \/ Start \/ Close
    <2>1. PICK e, m : Allowed(journal, e, m) /\ Note(e) /\ journal' = journal \o <<e>>
      BY <1>1, <1>3, NotesAreFree
    <2> QED
      BY <1>2, <2>1 DEF Note
  <1>4. CASE Finish
    <2>1. PICK cost \in Results : pc = "running" /\ journal' = journal \o CommitBlock(cost)
      BY <1>4 DEF Finish, Log
    <2> DEFINE e == Entry("budget_settled", Current, attempt, NoIdentity, cost)
               f == Entry("action_finished", Current, attempt, identity, Zero)
    <2>2. e.kind = "budget_settled" /\ f.kind = "action_finished"
      BY DEF Entry
    <2>3. /\ DOMAIN journal = 1 .. Len(journal)
          /\ DOMAIN journal' = 1 .. Len(journal) + 2
          /\ journal'[Len(journal) + 1] = e
          /\ journal'[Len(journal) + 2] = f
          /\ Len(journal) \in Nat
      BY <1>0, <2>1, LogCommit
    <2> HIDE DEF e, f
    <2>4. i = Len(journal) + 1 \/ i = Len(journal) + 2
      BY <2>3
    <2> QED
      BY <2>2, <2>3, <2>4
  <1>5. CASE TornWrite
    <2>1. PICK cost \in Results :
            LET e == Entry("budget_settled", Current, attempt, NoIdentity, cost)
            IN  Allowed(journal, e, fresh) /\ journal' = journal \o <<e>>
      BY <1>0, <1>1, <1>5, TornWriteLeaves
    <2> DEFINE e == Entry("budget_settled", Current, attempt, NoIdentity, cost)
    <2>2. e.kind # "budget_reserved"
      BY DEF Entry
    <2> HIDE DEF e
    <2> QED
      BY <1>2, <2>1, <2>2 DEF e
  <1>6. CASE \/ Spawn \/ Enter \/ Reconciled \/ Trust \/ Skip \/ Cancel
             \/ EndOfList \/ NextCall \/ Raise \/ Exit
    <2>1. journal' = journal
      BY <1>6 DEF Spawn, Enter, Reconciled, Trust, Skip, Cancel, EndOfList, NextCall,
                  Raise, Exit, fileVars, Remember
    <2> QED
      BY <1>1, <2>1
  <1> QED
    BY <1>3, <1>4, <1>5, <1>6 DEF Next, RunStep

(* A reservation never takes the durable total past the limit, whatever    *)
(* crashed before it.                                                      *)
THEOREM NothingRunsUnfunded == Spec => SpendingGate
  <1>1. BudgetInv /\ [Next]_vars =>
          [ Added("budget_reserved") # {} =>
              LET b == Replay(journal')
              IN  \A r \in Resource : b.settled[r] + b.reserved[r] <= Limit[r] ]_vars
    <2> DEFINE a == Replay(journal)
               b == Replay(journal')
    <2> SUFFICES ASSUME BudgetInv, Next, Added("budget_reserved") # {},
                        NEW r \in Resource
                 PROVE  b.settled[r] + b.reserved[r] <= Limit[r]
      OBVIOUS
    <2>1. Reserve
      BY OnlyReserveReserves
    <2> DEFINE cost == Estimate[Current]
    <2>2. cost \in Cost /\ b = Hold(a, attempt', cost)
      BY <2>1, ReserveHolds
    <2>3. IsBudget(a) /\ budget = a /\ Affordable(budget, cost)
      BY <2>1 DEF BudgetInv, JournalHolds, MemoryIsReplay, Reserve, AtAction
    <2> HIDE DEF a, b, cost
    <2>4. b.settled = a.settled /\ b.reserved = Plus(a.reserved, cost)
      BY <2>2, <2>3, HoldIsBudget
    <2>5. a.settled[r] \in Int /\ a.reserved[r] \in Int /\ cost[r] \in Int /\ Limit[r] \in Int
      BY <2>2, <2>3, CostAssumption DEF IsBudget, Cost
    <2>6. a.settled[r] + a.reserved[r] + cost[r] <= Limit[r]
      BY <2>3 DEF Affordable
    <2>7. b.reserved[r] = a.reserved[r] + cost[r]
      BY <2>4 DEF Plus
    <2> QED
      BY <2>4, <2>5, <2>6, <2>7
  <1> QED
    BY <1>1, BudgetInvariant, PTL DEF Spec, SpendingGate

=============================================================================
