--------------------------- MODULE SentinelMasters ---------------------------
(***************************************************************************)
(* Sentinel.Masters (topom/client/redis/sentinel.go): one goroutine per   *)
(* sentinel runs mastersDispatch and sends its map, or nil on an error or  *)
(* a cancel, on a buffered channel; the caller folds the maps in arrival  *)
(* order, keeping per group the master with the higher config-epoch, and  *)
(* counts the replies ("voted").  The call ends when every worker has     *)
(* answered or the context is done (deadline or cancel of s.Context).     *)
(*                                                                         *)
(* A worker's send and the caller's receive are one step: the channel is  *)
(* FIFO and the caller reads nothing else, so only the order of the       *)
(* replies matters.  reports[s] is what sentinel s would answer; entries  *)
(* mastersDispatch skips (unparsable epoch, empty ip/port, another        *)
(* product) are None.                                                      *)
(***************************************************************************)
EXTENDS Integers, FiniteSets

CONSTANTS Sentinels, Groups, Addrs, Epochs, None, NoAnswer, LostMajority, Canceled

VARIABLES
  reports,   \* [Sentinels -> [Groups -> entry or None]]
  ctxErr,    \* cntx.Err(): "nil", "deadline" or "canceled"
  received,  \* sentinels whose reply the caller has taken from results
  voted,     \* replies that were maps
  current,   \* current[g]: the *SentinelMaster kept for g, or None
  result     \* what Masters returned, or NoAnswer while it runs

vars == <<reports, ctxErr, received, voted, current, result>>

Entry == [addr : Addrs, epoch : Epochs]

\* mutant: majority is half of the sentinels
MajorityHalf == Cardinality(Sentinels) \div 2

\* var majority = 1 + len(sentinels)/2
Majority == 1 + Cardinality(Sentinels) \div 2

\* the masters map: masters[g] = current[g].Addr for every kept entry
MastersOf(cur) == [g \in Groups |-> IF cur[g] = None THEN None ELSE cur[g].addr]

\* keep the reported master if none is kept or its epoch is higher
Fold(cur, m) ==
  [g \in Groups |-> IF m[g] # None /\ (cur[g] = None \/ cur[g].epoch < m[g].epoch)
                      THEN m[g] ELSE cur[g]]

\* what the caller returns once it stops waiting
Outcome ==
  CASE ctxErr = "canceled" -> Canceled
    [] voted < Majority    -> LostMajority
    [] OTHER               -> MastersOf(current)

Running == result = NoAnswer

\* dispatch: a worker sends its masters map, or nil when the client cannot
\* connect, mastersCommand fails, or cntx is done before the command answers
\* (<<>> stands for nil, <<m>> for the map m)
Replies(s) == {<<>>, <<reports[s]>>}

\* mutant: voted counts the groups of a reply instead of the reply
ReceiveCountingEntries(s) ==
  /\ Running /\ s \notin received
  /\ received' = received \cup {s}
  /\ \E r \in Replies(s) :
       \/ r = <<>> /\ UNCHANGED <<voted, current>>
       \/ /\ r # <<>>
          /\ current' = Fold(current, r[1])
          /\ voted' = voted + Cardinality({g \in Groups : r[1][g] # None})
  /\ UNCHANGED <<reports, ctxErr, result>>

\* case m := <-results: a nil reply (error or cancel) is skipped, a map is
\* folded in and counted; the reply may still arrive after the deadline,
\* when select picks among ready cases at random
Receive(s) ==
  /\ Running /\ s \notin received
  /\ received' = received \cup {s}
  /\ \E r \in Replies(s) :
       \/ r = <<>> /\ UNCHANGED <<voted, current>>
       \/ r # <<>> /\ current' = Fold(current, r[1]) /\ voted' = voted + 1
  /\ UNCHANGED <<reports, ctxErr, result>>

\* context.WithTimeout expires, or s.Context is canceled (reWatchSentinels)
Expire == ctxErr = "nil" /\ ctxErr' = "deadline" /\ UNCHANGED <<reports, received, voted, current, result>>
Cancel == ctxErr = "nil" /\ ctxErr' = "canceled" /\ UNCHANGED <<reports, received, voted, current, result>>

\* case <-cntx.Done() while some worker has not answered
ContextDone ==
  /\ Running /\ received # Sentinels /\ ctxErr # "nil"
  /\ result' = Outcome
  /\ UNCHANGED <<reports, ctxErr, received, voted, current>>

\* alive == 0: every worker answered
AllAnswered ==
  /\ Running /\ received = Sentinels
  /\ result' = Outcome
  /\ UNCHANGED <<reports, ctxErr, received, voted, current>>

Init ==
  /\ reports \in [Sentinels -> [Groups -> Entry \cup {None}]]
  /\ ctxErr = "nil"
  /\ received = {}
  /\ voted = 0
  /\ current = [g \in Groups |-> None]
  /\ result = NoAnswer

Next ==
  \/ \E s \in Sentinels : Receive(s)
  \/ Expire \/ Cancel \/ ContextDone \/ AllAnswered

\* The caller's loop runs until it returns and the deadline of
\* context.WithTimeout always comes; a sentinel need never answer.
Fairness == WF_vars(Expire) /\ WF_vars(ContextDone) /\ WF_vars(AllAnswered)

Spec == Init /\ [][Next]_vars /\ Fairness

(***************************************************************************)
(* Properties                                                              *)
(***************************************************************************)
TypeOK ==
  /\ ctxErr \in {"nil", "deadline", "canceled"}
  /\ received \subseteq Sentinels
  /\ voted \in 0..Cardinality(received)
  /\ current \in [Groups -> Entry \cup {None}]
  /\ result \in {NoAnswer, LostMajority, Canceled} \cup [Groups -> Addrs \cup {None}]

\* Masters implements MastersQuorum: it answers once, and every answer it
\* returns is, per group, the freshest master among the reports of some
\* majority of the sentinels, whatever the order of the replies, how many
\* fail, and whether the deadline or a cancel cuts the wait short.
Quorum == INSTANCE MastersQuorum WITH answer <- result

MastersRefinesQuorum == Quorum!Spec
=============================================================================
