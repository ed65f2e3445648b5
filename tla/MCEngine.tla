------------------------------ MODULE MCEngine ------------------------------
\* Engine on small instances (bounds: README, "Engine").
EXTENDS EngineRefinement, TLC

CONSTANTS k1, k2, k3, h1, h2, o1, o2, w1, w2, t1, t2, a, b, app

\* Two paths of one hostname, and another hostname.
HostsOfKeys == k1 :> h1 @@ k2 :> h1 @@ k3 :> h2
OwnHosts    == k1 :> h1 @@ k3 :> h2
OneProcess  == [t \in Tasks |-> app]

\* Every intent about k1 that asks for w1's login or none: hostnames, paths and people
\* are alike, so other intents are these under another name.
OfK1 ==
  {i \in AllIntents : i.kind = "RemoveTunnel" \/ (i.key = k1 /\ (i.kind = "RemoveRoute" \/ i.who # w2))}
Adding   == {i \in OfK1 : i.kind = "AddRoute"}
Removing == {RemoveRoute(k1)}
\* One change of each kind, for tasks that meet.
AFew == {AddRoute(k1, o1, w1), AddRoute(k3, o1, None), UpdateRoute(k1, k3, o1, None),
         RemoveRoute(k1), RemoveMyTunnel}

Record(n, to, owned) == [id |-> n, to |-> to, owned |-> owned, noted |-> FALSE]
Noted(r) == [r EXCEPT !.noted = TRUE]
App(n, who, owned) == [id |-> n, who |-> who, owned |-> owned]

\* A record to the tunnel (Teitunnel's, or made by hand), elsewhere (with a comment of its
\* own or without, or of another kind), or none.
RecordsOf(n) ==
  {None, Record(n, t1, TRUE), Record(n, t1, FALSE), Record(n, Elsewhere, FALSE),
   Noted(Record(n, Elsewhere, FALSE)), Record(n, Address, FALSE)}
AppsOf(n) == {None} \cup {App(n, w, own) : w \in People, own \in BOOLEAN}
RuleChoices == {Unset} \cup [Keys -> {{}, {o1}}]
TunnelChoices == {None} \cup {[version |-> 0, rules |-> r] : r \in RuleChoices}

\* The accounts with this machine's tunnel in T, a record of h1 in D and of h2 in E, a
\* login for k1 in L and for the other keys in M, and the connector running or not.
Holding(T, D, E, L, M, R) ==
  {[tunnels |-> t1 :> c @@ t2 :> None,
    machine |-> IF c = None THEN None ELSE t1,
    running |-> IF c # None /\ r THEN {t1} ELSE {},
    dns     |-> h1 :> d @@ h2 :> e,
    login   |-> [k \in Keys |-> IF k = k1 THEN l ELSE IF m = None THEN None
                                ELSE [m EXCEPT !.id = IF k = k2 THEN 4 ELSE 5]],
    made    |-> 5,
    used    |-> {x \in {t1} : \/ c # None
                              \/ \E y \in {d, e} : y # None /\ y.to = x}] :
     c \in T, d \in D, e \in E, l \in L, m \in M, r \in R}

\* Anything for k1's route, and what the others may hold.
Anything ==
  Holding(TunnelChoices, RecordsOf(1),
          {None, Record(2, t1, TRUE), Record(2, Elsewhere, FALSE)},
          AppsOf(3), {None, App(4, w1, TRUE)}, BOOLEAN)

\* Every route, one of them with a login perhaps, or with a record that leads elsewhere; or
\* nothing yet.
AnyTwo ==
  Holding({[version |-> 0, rules |-> [k \in Keys |-> {o1}]]},
          {Record(1, t1, TRUE), Record(1, Elsewhere, FALSE)}, {Record(2, t1, TRUE)},
          {None, App(3, w1, TRUE)}, {None}, {TRUE})
  \cup Holding({None}, {None}, {None}, {None}, {None}, {FALSE})
=============================================================================
