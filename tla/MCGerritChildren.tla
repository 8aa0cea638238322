-------------------------- MODULE MCGerritChildren --------------------------
(* Instances of GerritChildren for TLC. *)
EXTENDS GerritChildren

\* One CR of each kind.
MCNames == {"group", "access", "member"}
MCKindOf == [n \in MCNames |-> n]
TheGerrit == {"gerrit"}
OfTheGerrit == [n \in MCNames |-> "gerrit"]

\* Two Gerrits with a member CR each, and two CRs of one Gerrit.
Pair == {"member", "member2"}
KindOfPair == [n \in Pair |-> "member"]
TwoGerrits == {"gerrit", "gerrit2"}
OneEach == [n \in Pair |-> IF n = "member" THEN "gerrit" ELSE "gerrit2"]
BothOfTheGerrit == [n \in Pair |-> "gerrit"]

\* The first spec is edited to the second: another account and description, a parent,
\* and rights of which one replaces one of the first spec's, which lists one in vain.
MCSpecs == {"s1", "s2"}
MCEdits == {<<"s1", "s2">>}
MCReferences == [s \in MCSpecs |->
    IF s = "s1" THEN <<<<"heads", "allow">>, <<"heads", "block">>, <<"tags", "allow">>>>
    ELSE <<<<"heads", "deny">>>>]
MCParentless == {"s1"}

\* The backoff from a TimeOut of 1: the third failure is beyond a width of 5 bits.
MCExponential == <<2, 7, 20>>

Present == {n \in Names : crs[n].phase # "absent"}

\* While calls fail and people act one CR is there, with what it needs of Gerrit to
\* come or be there; when they do not from the start, a group and a member of it.
ChildrenInit ==
    /\ Init
    /\ \A n \in Present : crs[n] = NewCr("s1")
    /\ \/ /\ ~calm /\ busy
          /\ \/ Present = {"group"} /\ projects = Gerrits
             \/ Present = {"member"} /\ projects = Gerrits
             \/ Present = {"access"} /\ groups["gerrit"] = "s1"
       \/ /\ calm /\ ~busy
          /\ Present = {"group", "member"} /\ projects = {}

\* Nothing fails; the groups are there, with what the CRs say.
PairInit ==
    /\ Init
    /\ \A n \in Names : crs[n] = NewCr("s1")
    /\ \A g \in Gerrits : groups[g] = "s1"
    /\ calm

PairSpec == PairInit /\ [][Next]_vars

\* A group CR alone, while calls fail and people act.
GroupInit == Init /\ Present = {"group"} /\ crs["group"] = NewCr("s1") /\ projects = {}
GroupSpec == GroupInit /\ [][Next]_vars

ChildrenSpec == ChildrenInit /\ [][Next]_vars /\ Fairness
=============================================================================
