------------------------------- MODULE Account -------------------------------
(***************************************************************************)
(* What a plan's steps do to an account: crates/core/src/engine/executor.rs*)
(* (Run::step, Run::undo) over the Cloudflare objects a route is made of.  *)
(* An account is a value; the engine's state machine (Engine) holds one.   *)
(*                                                                         *)
(* A route is a rule of a tunnel's configuration, keyed by hostname and    *)
(* path; the rules are a set because sort_ingress fixes their order. A     *)
(* hostname has one DNS record at most, a key one Access application.      *)
(***************************************************************************)
EXTENDS Naturals, Sequences, FiniteSets

CONSTANTS
  Keys,       \* routes' hostname-and-path pairs (Access domains too)
  Hosts,      \* hostnames
  HostOf,     \* the hostname of each key
  Origins,    \* services a rule may point at
  People,     \* whom a login lets in
  Tunnels,    \* tunnel ids
  None,
  Unset,      \* the configuration of a tunnel that was never given one
  Elsewhere,  \* the content of a CNAME that is not a tunnel's
  Address,    \* the content of a record that is no CNAME
  Created     \* TunnelRef::Created: the tunnel this plan creates

Rules   == [Keys -> SUBSET Origins]
Configs == [version : Nat, rules : Rules \cup {Unset}]
Targets == Tunnels \cup {Elsewhere, Address}
\* owned is is_owned (observe.rs:737): Teitunnel's comment, or an entry in its index.
\* noted: the record has a comment, and that is not Teitunnel's.
Records == [id : Nat, to : Targets, owned : BOOLEAN, noted : BOOLEAN]
Apps    == [id : Nat, who : People, owned : BOOLEAN]

ASSUME AccountAssumption ==
  /\ IsFiniteSet(Keys) /\ IsFiniteSet(Hosts)
  /\ HostOf \in [Keys -> Hosts]
  /\ None \notin Tunnels \cup People \cup {Unset, Elsewhere, Address, Created}
  /\ None \notin Configs \cup Records \cup Apps
  /\ Unset \notin Rules
  /\ {Elsewhere, Address, Created} \cap Tunnels = {} /\ Address # Elsewhere

\* made counts the ids handed out and used are the tunnels there have ever been, for no
\* id is given twice; machine is this machine's tunnel (local.rs).
Accounts ==
  {c \in [tunnels : [Tunnels -> Configs \cup {None}],
          machine : Tunnels \cup {None},
          running : SUBSET Tunnels,
          dns     : [Hosts -> Records \cup {None}],
          login   : [Keys -> Apps \cup {None}],
          made    : Nat,
          used    : SUBSET Tunnels] :
     /\ \A t \in Tunnels : c.tunnels[t] # None => t \in c.used
     /\ \A t \in c.running : c.tunnels[t] # None
     /\ \A h \in Hosts : c.dns[h] # None => c.dns[h].to \in c.used \cup {Elsewhere, Address}}

NoRules == [k \in Keys |-> {}]
RulesOf(c, t) ==
  IF t = None \/ c.tunnels[t] = None \/ c.tunnels[t].rules = Unset THEN NoRules
  ELSE c.tunnels[t].rules

-----------------------------------------------------------------------------
(* Steps (types.rs Step) and the undos, which are steps of the same kind.  *)

Step(op) == [op |-> op]
CreateTunnel == Step("CreateTunnel")
DeleteTunnel(t) == [op |-> "DeleteTunnel", tunnel |-> t]
PutConfig(t, rules, expected, previous) ==
  [op |-> "PutConfig", tunnel |-> t, rules |-> rules, expected |-> expected,
   previous |-> previous]
CreateRecord(h, t) == [op |-> "CreateRecord", host |-> h, tunnel |-> t]
UpdateRecord(h, t, previous) ==
  [op |-> "UpdateRecord", host |-> h, tunnel |-> t, previous |-> previous]
DeleteRecord(h, record) == [op |-> "DeleteRecord", host |-> h, record |-> record]
RestoreRecord(h, current, previous) ==
  [op |-> "RestoreRecord", host |-> h, current |-> current, previous |-> previous]
RecreateRecord(h, record) == [op |-> "RecreateRecord", host |-> h, record |-> record]
CreateApp(k, who) == [op |-> "CreateApp", key |-> k, who |-> who]
UpdateApp(k, who, previous) ==
  [op |-> "UpdateApp", key |-> k, who |-> who, previous |-> previous]
DeleteApp(k, app) == [op |-> "DeleteApp", key |-> k, app |-> app]
StartConnector(t) == [op |-> "StartConnector", tunnel |-> t]
StopConnector(t) == [op |-> "StopConnector", tunnel |-> t]

HasRecord(c, h, id) == c.dns[h] # None /\ c.dns[h].id = id
HasApp(c, k, id) == c.login[k] # None /\ c.login[k].id = id

\* Whether Cloudflare accepts a step's call. A delete of what is already gone
\* counts as done (client.rs:236); a tunnel with connections is not deleted
\* (tunnels.rs:193); a name has one record or, here, one application.
Accepts(c, s) ==
  CASE s.op = "DeleteTunnel" -> s.tunnel \notin c.running
    [] s.op = "PutConfig" -> c.tunnels[s.tunnel] # None
    [] s.op \in {"CreateRecord", "RecreateRecord"} -> c.dns[s.host] = None
    [] s.op = "UpdateRecord" -> HasRecord(c, s.host, s.previous.id)
    [] s.op = "RestoreRecord" -> HasRecord(c, s.host, s.current)
    [] s.op = "CreateApp" -> c.login[s.key] = None
    [] s.op = "UpdateApp" -> HasApp(c, s.key, s.previous.id)
    [] s.op = "StartConnector" -> c.tunnels[s.tunnel] # None
    [] OTHER -> TRUE

NextId(c) == c.made + 1
PutRecord(c, h, r) ==
  [c EXCEPT !.dns[h] = r, !.made = IF r.id > @ THEN r.id ELSE @]
PutApp(c, k, id, who, owned) ==
  [c EXCEPT !.login[k] = [id |-> id, who |-> who, owned |-> owned],
            !.made = IF id > @ THEN id ELSE @]

\* A record as Teitunnel writes it.
OurRecord(id, t) == [id |-> id, to |-> t, owned |-> TRUE, noted |-> FALSE]

\* A record that is no CNAME is replaced by one, with a new id; a CNAME is updated in place.
IdAfter(c, from) == IF from.to = Address THEN NextId(c) ELSE from.id

\* to_new() of the record from before, sent for the one that is there now. The PATCH of a
\* record in place has no comment if there was none (cf-api dns.rs:63), so Teitunnel's stays,
\* and by that the record is Teitunnel's.
GiveBack(c, s) ==
  LET r == s.previous
      inPlace == s.current = r.id
  IN  PutRecord(c, s.host, [r EXCEPT !.id = IF inPlace THEN s.current ELSE NextId(c),
                                     !.owned = @ \/ (inPlace /\ ~r.noted)])

\* MUTANT of AddTunnel: the tunnel exists without a configuration to read.
AddTunnelBare(c, t) ==
  [c EXCEPT !.tunnels[t] = Unset, !.machine = t, !.used = @ \cup {t}]

AddTunnel(c, t) ==
  [c EXCEPT !.tunnels[t] = [version |-> 0, rules |-> Unset], !.machine = t,
            !.used = @ \cup {t}]
\* The call before it, clean_connections, changes nothing that is modelled.
RemoveTunnel(c, t) ==
  [c EXCEPT !.tunnels[t] = None, !.machine = IF @ = t THEN None ELSE @,
            !.running = @ \ {t}]
WriteConfig(c, t, rules) ==
  [c EXCEPT !.tunnels[t] = [version |-> @.version + 1, rules |-> rules]]
DropRecord(c, h, id) ==
  IF HasRecord(c, h, id) THEN [c EXCEPT !.dns[h] = None] ELSE c
DropApp(c, k, id) ==
  IF HasApp(c, k, id) THEN [c EXCEPT !.login[k] = None] ELSE c

\* The account after an accepted call. fresh is the id Cloudflare gives a tunnel.
Perform(c, s, fresh) ==
  CASE s.op = "CreateTunnel" -> AddTunnel(c, fresh)
    [] s.op = "DeleteTunnel" -> RemoveTunnel(c, s.tunnel)
    [] s.op = "PutConfig" -> WriteConfig(c, s.tunnel, s.rules)
    [] s.op = "CreateRecord" -> PutRecord(c, s.host, OurRecord(NextId(c), s.tunnel))
    [] s.op = "UpdateRecord" ->
         PutRecord(c, s.host, OurRecord(IdAfter(c, s.previous), s.tunnel))
    [] s.op = "DeleteRecord" -> DropRecord(c, s.host, s.record.id)
    [] s.op = "RestoreRecord" -> GiveBack(c, s)
    [] s.op = "RecreateRecord" ->
         PutRecord(c, s.host, [s.record EXCEPT !.id = NextId(c)])
    [] s.op = "CreateApp" -> PutApp(c, s.key, NextId(c), s.who, TRUE)
    [] s.op = "UpdateApp" -> PutApp(c, s.key, s.previous.id, s.who, TRUE)
    [] s.op = "DeleteApp" -> DropApp(c, s.key, s.app.id)
    [] s.op = "StartConnector" -> [c EXCEPT !.running = @ \cup {s.tunnel}]
    [] s.op = "StopConnector" -> [c EXCEPT !.running = @ \ {s.tunnel}]

\* The same when the answer is lost, and the local index is not touched: a login it made is
\* not Teitunnel's, a record it made anew only if Teitunnel's comment is on it, and one it
\* gave back in place still is, as the step before had it.
PerformUnheard(c, s) ==
  CASE s.op = "CreateApp" -> PutApp(c, s.key, NextId(c), s.who, FALSE)
    [] s.op = "RecreateRecord" ->
         PutRecord(c, s.host, [s.record EXCEPT !.id = NextId(c),
                                               !.owned = @ /\ ~s.record.noted])
    [] s.op = "RestoreRecord" ->
         IF s.current = s.previous.id
         THEN PutRecord(c, s.host, [s.previous EXCEPT !.owned = TRUE])
         ELSE PutRecord(c, s.host, [s.previous EXCEPT !.id = NextId(c),
                                                      !.owned = @ /\ ~s.previous.noted])
    [] OTHER -> [Perform(c, s, None) EXCEPT !.machine = c.machine]

\* The undo Run::step keeps for a step that took the account to d, in a list: none for
\* a deleted tunnel, nor for a configuration written over an empty one.
UndoOf(d, s, fresh) ==
  CASE s.op = "CreateTunnel" -> <<DeleteTunnel(fresh)>>
    [] s.op = "PutConfig" ->
         IF s.previous = Unset THEN <<>>
         ELSE <<PutConfig(s.tunnel, s.previous, None, Unset)>>
    [] s.op = "CreateRecord" -> <<DeleteRecord(s.host, d.dns[s.host])>>
    [] s.op = "UpdateRecord" -> <<RestoreRecord(s.host, d.dns[s.host].id, s.previous)>>
    [] s.op = "DeleteRecord" -> <<RecreateRecord(s.host, s.record)>>
    [] s.op = "CreateApp" -> <<DeleteApp(s.key, d.login[s.key])>>
    [] s.op = "UpdateApp" -> <<UpdateApp(s.key, s.previous.who, s.previous)>>
    [] s.op = "DeleteApp" -> <<CreateApp(s.key, s.app.who)>>
    [] s.op = "StopConnector" -> <<StartConnector(s.tunnel)>>
    [] OTHER -> <<>>

-----------------------------------------------------------------------------
(* What a reader of the account can tell apart.                            *)

\* Ids and versions aside, what there is.
Look(x) == IF x = None THEN None ELSE [x EXCEPT !.id = 0]
TunnelLook(c, t) == IF c.tunnels[t] = None THEN None ELSE c.tunnels[t].rules

\* Record r had no comment and was not Teitunnel's, and q is r with Teitunnel's comment.
Marked(r, q) ==
  /\ r # None /\ ~r.owned /\ ~r.noted
  /\ q # None /\ Look(q) = [Look(r) EXCEPT !.owned = TRUE]

\* The things in which two accounts differ, as an Undo::leftover would name them; none
\* names a mark.
Item(what, of) == [what |-> what, of |-> of]
Changes(c, d) ==
  {Item("tunnel", t) : t \in {u \in Tunnels : c.tunnels[u] = None <=> d.tunnels[u] # None}}
  \cup {Item("config", t) :
          t \in {u \in Tunnels : /\ c.tunnels[u] # None /\ d.tunnels[u] # None
                                 /\ TunnelLook(c, u) # TunnelLook(d, u)}}
  \cup {Item("mark", h) : h \in {g \in Hosts : Marked(c.dns[g], d.dns[g])}}
  \cup {Item("dns", h) :
          h \in {g \in Hosts : /\ Look(c.dns[g]) # Look(d.dns[g])
                               /\ ~Marked(c.dns[g], d.dns[g])}}
  \cup {Item("login", k) : k \in {j \in Keys : Look(c.login[j]) # Look(d.login[j])}}
  \cup {Item("connector", t) :
          t \in {u \in Tunnels : u \in c.running <=> u \notin d.running}}

ItemOf(s) ==
  CASE s.op \in {"CreateTunnel", "DeleteTunnel"} -> Item("tunnel", s.tunnel)
    [] s.op = "PutConfig" -> Item("config", s.tunnel)
    [] s.op \in {"CreateApp", "UpdateApp", "DeleteApp"} -> Item("login", s.key)
    [] s.op \in {"StartConnector", "StopConnector"} -> Item("connector", s.tunnel)
    [] OTHER -> Item("dns", s.host)
=============================================================================
