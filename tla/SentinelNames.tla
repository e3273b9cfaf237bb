---------------------------- MODULE SentinelNames ----------------------------
(***************************************************************************)
(* The product namespace of the sentinel client (client/redis/sentinel.go) *)
(* on sentinels shared by several products.  A group is monitored under   *)
(* NodeName = <product>-<group>; the client reads back the entries of      *)
(* SENTINEL masters whose name isSameProduct accepts.  Names are modelled  *)
(* as sequences of characters, so prefix tests and concatenation are the   *)
(* code's.                                                                 *)
(*                                                                         *)
(* monitors[n] is the product whose MonitorGroups put the monitor named n  *)
(* on the sentinel, or None.  actor is the product of the last call, a     *)
(* history variable for the isolation property.                           *)
(***************************************************************************)
EXTENDS Naturals, Sequences

CONSTANTS
  Products,   \* product names, as sequences of characters
  GroupsOf,   \* GroupsOf[p]: the group names of product p
  Dash,       \* the character '-'
  None

\* fmt.Sprintf("%s-%s", s.Product, groupName)
NodeName(p, g) == p \o <<Dash>> \o g

Names == UNION {{NodeName(p, g) : g \in GroupsOf[p]} : p \in Products}

\* strings.HasPrefix(name, s.Product) and suffix = "-" + a non-empty name
IsSameProduct(p, n) ==
  /\ Len(n) >= Len(p) /\ SubSeq(n, 1, Len(p)) = p
  /\ Len(n) - Len(p) > 1
  /\ n[Len(p) + 1] = Dash

\* the group name isSameProduct returns, suffix[1:]
GroupOf(p, n) == SubSeq(n, Len(p) + 2, Len(n))

VARIABLES monitors, actor

vars == <<monitors, actor>>

Monitored == {n \in Names : monitors[n] # None}

\* SENTINEL remove of every name in R, then SENTINEL monitor of every name
\* in M on behalf of product p
Apply(R, M, p) ==
  monitors' = [n \in Names |-> IF n \in M THEN p
                               ELSE IF n \in R THEN None ELSE monitors[n]]

\* MonitorGroups(p, masters of the groups G): removeCommand of their
\* NodeNames, then monitor each
MonitorGroups(p, G) ==
  /\ Apply({NodeName(p, g) : g \in G}, {NodeName(p, g) : g \in G}, p)
  /\ actor' = p

\* RemoveGroups(p, {g}) as GroupPromoteServer calls it
RemoveGroups(p, g) ==
  /\ Apply({NodeName(p, g)}, {}, p)
  /\ actor' = p

\* RemoveGroupsAll(p): mastersCommand keeps the names isSameProduct accepts,
\* and removeCommand removes NodeName(p, groupName) of each, the same name
RemoveGroupsAll(p) ==
  /\ Apply({NodeName(p, GroupOf(p, n)) : n \in {m \in Monitored : IsSameProduct(p, m)}}, {}, p)
  /\ actor' = p

Init ==
  /\ monitors = [n \in Names |-> None]
  /\ actor = None

\* ResyncSentinels calls RemoveGroupsAll then MonitorGroups; a promotion
\* calls RemoveGroups; each product's dashboard does so at any time
Next ==
  \E p \in Products :
    \/ \E G \in SUBSET GroupsOf[p] : MonitorGroups(p, G)
    \/ \E g \in GroupsOf[p] : RemoveGroups(p, g)
    \/ RemoveGroupsAll(p)

Spec == Init /\ [][Next]_vars

TypeOK ==
  /\ monitors \in [Names -> Products \cup {None}]
  /\ actor \in Products \cup {None}

\* Spec: the client "rejects any entries that do not belong to its
\* product".  A call of one product's dashboard (MonitorGroups,
\* RemoveGroups, RemoveGroupsAll) never removes or takes over a monitor
\* another product put on the shared sentinel.
ProductIsolation ==
  [][\A n \in Names :
       monitors[n] \notin {None, actor'} => monitors'[n] = monitors[n]]_vars
=============================================================================
