------------------------------ MODULE Planner ------------------------------
(***************************************************************************)
(* plan(intent, snapshot) of crates/core/src/engine/planner.rs for the     *)
(* intents that add, change and remove routes and that remove the tunnel,  *)
(* with the observation (observe.rs) they plan against. Pure: no variable. *)
(***************************************************************************)
EXTENDS Account, SequencesExt

AddRoute(k, origin, who) == [kind |-> "AddRoute", key |-> k, origin |-> origin, who |-> who]
UpdateRoute(k, to, origin, who) ==
  [kind |-> "UpdateRoute", key |-> k, to |-> to, origin |-> origin, who |-> who]
RemoveRoute(k) == [kind |-> "RemoveRoute", key |-> k]
RemoveMyTunnel == [kind |-> "RemoveTunnel"]

AllIntents ==
  {AddRoute(k, o, w) : k \in Keys, o \in Origins, w \in People \cup {None}}
  \cup {UpdateRoute(k, j, o, w) : k \in Keys, j \in Keys, o \in Origins, w \in People \cup {None}}
  \cup {RemoveRoute(k) : k \in Keys}
  \cup {RemoveMyTunnel}

-----------------------------------------------------------------------------
(* The snapshot                                                            *)

\* This machine's tunnel, if Cloudflare still has it (observe_tunnel).
MyTunnel(c) == IF c.machine = None \/ c.tunnels[c.machine] = None THEN None ELSE c.machine

\* Intent::hostnames; RemoveTunnel looks at every routed hostname.
HostsOf(i, c) ==
  CASE i.kind = "UpdateRoute" -> {HostOf[i.key], HostOf[i.to]}
    [] i.kind = "RemoveTunnel" ->
         {HostOf[k] : k \in {j \in Keys : RulesOf(c, MyTunnel(c))[j] # {}}}
    [] OTHER -> {HostOf[i.key]}

\* AccessNeed::of: the application asked for, and those Teitunnel made for the hostnames.
Asked(i) ==
  CASE i.kind = "AddRoute" /\ i.who # None -> {i.key}
    [] i.kind = "UpdateRoute" /\ i.who # None -> {i.to}
    [] OTHER -> {}
Domains(i, c) ==
  Asked(i) \cup {k \in Keys : /\ i.kind # "AddRoute" /\ HostOf[k] \in HostsOf(i, c)
                              /\ c.login[k] # None /\ c.login[k].owned}

\* Everything the plan depends on: what fingerprint() hashes.
Observe(i, c) ==
  [tunnel  |-> MyTunnel(c),
   version |-> IF MyTunnel(c) = None THEN 0 ELSE c.tunnels[MyTunnel(c)].version,
   rules   |-> IF MyTunnel(c) = None THEN Unset ELSE c.tunnels[MyTunnel(c)].rules,
   dns     |-> [h \in Hosts |-> IF h \in HostsOf(i, c) THEN c.dns[h] ELSE None],
   login   |-> [k \in Keys |-> IF k \in Domains(i, c) THEN c.login[k] ELSE None]]

Snapshots ==
  [tunnel : Tunnels \cup {None}, version : Nat, rules : Rules \cup {Unset},
   dns : [Hosts -> Records \cup {None}], login : [Keys -> Apps \cup {None}]]

\* Snapshot::routes: the configured rules.
Routes(s) == IF s.rules = Unset THEN NoRules ELSE s.rules

-----------------------------------------------------------------------------
(* The builder                                                             *)

EnsureTunnel(s) == IF s.tunnel = None THEN <<CreateTunnel>> ELSE <<>>
TunnelRef(s) == IF s.tunnel = None THEN Created ELSE s.tunnel

WriteRules(s, desired) ==
  IF desired = s.rules THEN <<>>
  ELSE <<PutConfig(TunnelRef(s), desired, IF s.tunnel = None THEN None ELSE s.version, s.rules)>>

PointsHere(s, h) == s.tunnel # None /\ s.dns[h] # None /\ s.dns[h].to = s.tunnel

EnsureDns(s, h) ==
  IF PointsHere(s, h) THEN <<>>
  ELSE IF s.dns[h] = None THEN <<CreateRecord(h, TunnelRef(s))>>
  ELSE <<UpdateRecord(h, TunnelRef(s), s.dns[h])>>

\* MUTANT of TakesForeign: only a record that points elsewhere is asked about.
TakesForeignElsewhere(s, h) ==
  ~PointsHere(s, h) /\ s.dns[h] # None /\ ~s.dns[h].owned /\ s.dns[h].to # Elsewhere

\* flag_foreign: replacing a record Teitunnel does not own needs a confirmation.
TakesForeign(s, h) == ~PointsHere(s, h) /\ s.dns[h] # None /\ ~s.dns[h].owned

Releases(s, h) == PointsHere(s, h) /\ s.dns[h].owned
ReleaseDns(s, h) == IF Releases(s, h) THEN <<DeleteRecord(h, s.dns[h])>> ELSE <<>>

LoginRefused(s, k, who) ==
  who # None /\ s.login[k] # None /\ ~s.login[k].owned /\ s.login[k].who # who

Protect(s, k, who) ==
  IF who = None THEN <<>>
  ELSE IF s.login[k] = None THEN <<CreateApp(k, who)>>
  ELSE IF s.login[k].who = who THEN <<>>
  ELSE <<UpdateApp(k, who, s.login[k])>>

Owns(s, k) == s.login[k] # None /\ s.login[k].owned
Unprotect(s, k) == IF Owns(s, k) THEN <<DeleteApp(k, s.login[k])>> ELSE <<>>

\* The other routes of a key's hostname.
Siblings(k) == {j \in Keys \ {k} : HostOf[j] = HostOf[k]}
\* MUTANT of LastOfHost: the other routes of the hostname are not looked at.
LastOfHostAlways(s, k) == TRUE

LastOfHost(s, k) == \A j \in Siblings(k) : Routes(s)[j] = {}

Refused == [refused |-> TRUE, steps |-> <<>>, confirm |-> FALSE]
Planned(steps, confirm) == [refused |-> FALSE, steps |-> steps, confirm |-> confirm]

-----------------------------------------------------------------------------
(* One operator per intent                                                 *)

\* Already configured: only the login or the record may be missing.
PlanAddRoute(i, s) ==
  LET k == i.key
      others == Routes(s)[k]
  IN  IF LoginRefused(s, k, i.who) \/ (others # {} /\ i.origin \notin others) THEN Refused
      ELSE Planned(EnsureTunnel(s) \o Protect(s, k, i.who)
                     \o (IF others = {}
                         THEN WriteRules(s, [Routes(s) EXCEPT ![k] = {i.origin}])
                         ELSE <<>>)
                     \o EnsureDns(s, HostOf[k]),
                   TakesForeign(s, HostOf[k]))

\* The rule is swapped before the new name resolves and the old one is released.
\* Only a change of the hostname is refused when the new route exists.
PlanUpdateRoute(i, s) ==
  LET old     == HostOf[i.key]
      new     == HostOf[i.to]
      renamed == old # new
      desired == [Routes(s) EXCEPT ![i.key] = {}, ![i.to] = @ \cup {i.origin}]
  IN  IF \/ s.tunnel = None \/ Routes(s)[i.key] = {}
         \/ renamed /\ Routes(s)[i.to] # {}
         \/ LoginRefused(s, i.to, i.who)
      THEN Refused
      ELSE Planned(Protect(s, i.to, i.who)
                     \o WriteRules(s, desired)
                     \o EnsureDns(s, new)
                     \o (IF renamed /\ LastOfHost(s, i.key) THEN ReleaseDns(s, old) ELSE <<>>)
                     \o (IF i.who # None /\ i.to = i.key THEN <<>> ELSE Unprotect(s, i.key)),
                   TakesForeign(s, new))

\* MUTANT of PlanRemoveRoute: the login goes first.
PlanRemoveRouteOpen(i, s) ==
  IF s.tunnel = None \/ Routes(s)[i.key] = {} THEN Refused
  ELSE Planned(Unprotect(s, i.key) \o WriteRules(s, [Routes(s) EXCEPT ![i.key] = {}])
                 \o (IF LastOfHost(s, i.key) THEN ReleaseDns(s, HostOf[i.key]) ELSE <<>>),
               FALSE)

\* The rule goes first, then the record, then the login.
PlanRemoveRoute(i, s) ==
  IF s.tunnel = None \/ Routes(s)[i.key] = {} THEN Refused
  ELSE Planned(WriteRules(s, [Routes(s) EXCEPT ![i.key] = {}])
                 \o (IF LastOfHost(s, i.key) THEN ReleaseDns(s, HostOf[i.key]) ELSE <<>>)
                 \o Unprotect(s, i.key),
               FALSE)

\* Deleting the tunnel cannot be undone, so it is the last step. The records, and the
\* logins, go one after another in some order.
PlanRemoveTunnel(s) ==
  LET routed == {HostOf[k] : k \in {j \in Keys : Routes(s)[j] # {}}}
      records == {DeleteRecord(h, s.dns[h]) : h \in {g \in routed : Releases(s, g)}}
      logins == {DeleteApp(k, s.login[k]) : k \in {j \in Keys : Owns(s, j)}}
  IN  IF s.tunnel = None THEN Refused
      ELSE Planned((IF routed = {} THEN <<>> ELSE WriteRules(s, NoRules))
                     \o SetToSeq(records) \o SetToSeq(logins)
                     \o <<StopConnector(s.tunnel), DeleteTunnel(s.tunnel)>>,
                   FALSE)

Plan(i, s) ==
  CASE i.kind = "AddRoute" -> PlanAddRoute(i, s)
    [] i.kind = "UpdateRoute" -> PlanUpdateRoute(i, s)
    [] i.kind = "RemoveRoute" -> PlanRemoveRoute(i, s)
    [] i.kind = "RemoveTunnel" -> PlanRemoveTunnel(s)

-----------------------------------------------------------------------------
(* What a change from account a to account b promises                      *)

\* A route is reachable: its rule is in place and its name resolves to the tunnel.
LiveIn(c, k) ==
  LET me == MyTunnel(c)
      r  == c.dns[HostOf[k]]
  IN  me # None /\ RulesOf(c, me)[k] # {} /\ r # None /\ r.to = me

\* The route an intent asks for.
Target(i) == IF i.kind = "UpdateRoute" THEN i.to ELSE i.key

\* The routes an intent is about.
Named(i) ==
  CASE i.kind = "RemoveTunnel" -> Keys
    [] i.kind = "UpdateRoute" -> {i.key, i.to}
    [] OTHER -> {i.key}

\* The other routes keep their rules and logins and answer as before, those of the same
\* hostname too (planner.rs:892-896, 920-922).
OthersStay(i, a, b) ==
  \A k \in Keys \ Named(i) :
    /\ Routes(Observe(i, b))[k] = Routes(Observe(i, a))[k] /\ b.login[k] = a.login[k]
    /\ LiveIn(a, k) => LiveIn(b, k)

\* But for the hostname it asks for, the records that changed were Teitunnel's.
RecordsSpared(i, a, b) ==
  \A h \in Hosts : b.dns[h] # a.dns[h] =>
    \/ i.kind \in {"AddRoute", "UpdateRoute"} /\ h = HostOf[Target(i)]
    \/ a.dns[h] # None /\ a.dns[h].owned

\* The change is there, with nothing of the old one left; asking for it again
\* changes nothing (ARCHITECTURE 4.3, "Idempotent"); and nothing else has changed.
Reached(i, a, b) ==
  LET s == Observe(i, a)
      d == Observe(i, b)
      Guarded(k) == i.who # None => b.login[k] # None /\ b.login[k].who = i.who
      Gone(k) == Routes(d)[k] = {} /\ (b.login[k] = None \/ ~b.login[k].owned)
      Released(h) == \/ b.dns[h] = None \/ b.dns[h].to # s.tunnel
                     \/ ~b.dns[h].owned
                     \/ \E k \in Keys : HostOf[k] = h /\ Routes(s)[k] # {} /\ Routes(d)[k] # {}
  IN  /\ Plan(i, d).steps = <<>>
      /\ OthersStay(i, a, b) /\ RecordsSpared(i, a, b)
      /\ CASE i.kind = "AddRoute" ->
               i.origin \in Routes(d)[i.key] /\ PointsHere(d, HostOf[i.key]) /\ Guarded(i.key)
           [] i.kind = "UpdateRoute" ->
               /\ i.origin \in Routes(d)[i.to] /\ PointsHere(d, HostOf[i.to]) /\ Guarded(i.to)
               /\ i.key # i.to => Gone(i.key)
               /\ HostOf[i.key] # HostOf[i.to] => Released(HostOf[i.key])
           [] i.kind = "RemoveRoute" -> Gone(i.key) /\ Released(HostOf[i.key])
           [] i.kind = "RemoveTunnel" ->
               /\ b.tunnels[s.tunnel] = None
               /\ \A k \in Keys : Routes(s)[k] # {} => Gone(k) /\ Released(HostOf[k])

\* The keys a change must not leave open: the one it wants a login for, unless that was
\* open before, and those that had one, unless it was asked to take it off.
MeantGuarded(i, a, k) ==
  \/ /\ ~LiveIn(a, k)
     /\ \/ i.kind = "AddRoute" /\ i.who # None /\ i.key = k
        \/ i.kind = "UpdateRoute" /\ i.who # None /\ i.to = k
  \/ /\ a.login[k] # None
     /\ ~(i.kind = "UpdateRoute" /\ i.who = None /\ i.key = k /\ i.to = k)

Exposed(i, a, b, k) == MeantGuarded(i, a, k) /\ LiveIn(b, k) /\ b.login[k] = None

\* What a failed change may leave without listing it: a configuration written over an
\* empty one, a connector that was not running, and Teitunnel's comment on a record that had
\* none.
Unlisted(a) ==
  {Item("config", x) : x \in {y \in Tunnels : MyTunnel(a) = y /\ a.tunnels[y].rules = Unset}}
  \cup {Item("connector", x) : x \in Tunnels \ a.running}
  \cup {Item("mark", h) : h \in Hosts}
=============================================================================
