---------------------------- MODULE MastersQuorum ----------------------------
(***************************************************************************)
(* What Sentinel.Masters promises (spec section 4.5, acceptance check 5): *)
(* given what each sentinel would report, one call answers once, and a    *)
(* successful answer gives, for every group, the address of the entry     *)
(* with the highest config-epoch among the reports of some majority       *)
(* (floor(n/2)+1) of the sentinels.  The call may instead fail with       *)
(* "lost majority" (too few replies before the deadline) or be canceled.   *)
(***************************************************************************)
EXTENDS Integers, FiniteSets

CONSTANTS Sentinels, Groups, Addrs, Epochs, None, NoAnswer, LostMajority, Canceled

VARIABLES reports, answer

Entry   == [addr : Addrs, epoch : Epochs]
Reports == [Sentinels -> [Groups -> Entry \cup {None}]]

QuorumSize == Cardinality(Sentinels) \div 2 + 1

\* the entries of group g with the highest epoch among the reports of R
Freshest(R, g) ==
  LET es == {reports[s][g] : s \in R} \ {None}
  IN {e \in es : \A f \in es : f.epoch <= e.epoch}

\* the answers the reports of R allow
AnswersOf(R) ==
  {m \in [Groups -> Addrs \cup {None}] :
     \A g \in Groups : IF Freshest(R, g) = {} THEN m[g] = None
                       ELSE \E e \in Freshest(R, g) : m[g] = e.addr}

Init == reports \in Reports /\ answer = NoAnswer

Answer ==
  /\ answer = NoAnswer
  /\ \/ answer' \in {LostMajority, Canceled}
     \/ \E R \in SUBSET Sentinels :
          Cardinality(R) >= QuorumSize /\ answer' \in AnswersOf(R)
  /\ UNCHANGED reports

Spec == Init /\ [][Answer]_<<reports, answer>> /\ WF_<<reports, answer>>(Answer)
=============================================================================
