------------------------ MODULE MCBattlegroundQueue ------------------------
(* Two players of each team, who may join alone or as a party.              *)
EXTENDS BattlegroundQueue, TLC

CONSTANTS a1, a2, h1, h2,
  MaxAway \* players not in the world at a time

TeamOf == [p \in Players |-> IF p \in {a1, a2} THEN "alliance" ELSE "horde"]
BothParties == {{a1, a2}, {h1, h2}}

\* Few players are away at a time, those of the horde only on the way to or from the
\* battleground or offline in it.  After a counter has been decreased for somebody
\* never counted, fewer joins and no wrapped counter are followed.
Small ==
  /\ Cardinality({p \in Players : place[p] # "world"}) <= MaxAway
  /\ \A p \in {h1, h2} :
       place[p] # "world" => bgInstanceID[p] # 0 \/ (place[p] = "loading" /\ p \notin slots)
  /\ \A b \in undercounted, t \in Teams : joins < MaxJoins /\ invited[b][t] <= MaxPlayersPerTeam

StaysSmall == Small'

\* Players of a team differ in nothing but their names.
Symmetric == {f @@ g : f \in Permutations({a1, a2}), g \in Permutations({h1, h2})}
============================================================================
