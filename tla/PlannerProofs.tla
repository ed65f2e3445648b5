---------------------------- MODULE PlannerProofs -----------------------------
(***************************************************************************)
(* What is proved of Account and Planner for every account and intent: what*)
(* a step changes, what a plan is made of, where an account may be while   *)
(* one is made or taken back, that no route lacks its login in between, and*)
(* what is there at the end. Engine's proofs rest on it.                   *)
(***************************************************************************)
EXTENDS Planner, FiniteSetTheorems, TLAPS

-----------------------------------------------------------------------------
(* An account and its steps                                                *)

\* What an account is made of.
LEMMA AccountTypes ==
  ASSUME NEW a \in Accounts
  PROVE  /\ a.tunnels \in [Tunnels -> Configs \cup {None}]
         /\ a.machine \in Tunnels \cup {None}
         /\ a.running \in SUBSET Tunnels
         /\ a.dns \in [Hosts -> Records \cup {None}]
         /\ a.login \in [Keys -> Apps \cup {None}]
         /\ a.made \in Nat
         /\ a.used \in SUBSET Tunnels
         /\ \A t \in Tunnels : a.tunnels[t] # None => t \in a.used
         /\ \A t \in a.running : a.tunnels[t] # None
         /\ \A h \in Hosts : a.dns[h] # None => a.dns[h].to \in a.used \cup {Elsewhere, Address}
  BY DEF Accounts

-----------------------------------------------------------------------------
(* Calls keep an account an account                                        *)

\* The steps and undos that may be called once these tunnels have been made.
TypedStep(st, used) ==
  \/ st = CreateTunnel
  \/ \E x \in used : st = DeleteTunnel(x)
  \/ \E x \in used : st = StartConnector(x)
  \/ \E x \in used : st = StopConnector(x)
  \/ \E x \in used, r \in Rules, v \in Nat \cup {None}, q \in Rules \cup {Unset} :
       st = PutConfig(x, r, v, q)
  \/ \E h \in Hosts, x \in used : st = CreateRecord(h, x)
  \/ \E h \in Hosts, r \in Records :
       /\ r.to \in used \cup {Elsewhere, Address}
       /\ \/ \E x \in used : st = UpdateRecord(h, x, r)
          \/ st = DeleteRecord(h, r)
          \/ st = RecreateRecord(h, r)
          \/ \E n \in Nat : st = RestoreRecord(h, n, r)
  \/ \E k \in Keys, w \in People : st = CreateApp(k, w)
  \/ \E k \in Keys, w \in People, p \in Apps : st = UpdateApp(k, w, p)
  \/ \E k \in Keys, p \in Apps : st = DeleteApp(k, p)

\* Writing a record changes that hostname's record and nothing else.
LEMMA PutRecordIs ==
  ASSUME NEW c \in Accounts, NEW h \in Hosts, NEW r \in Records,
         r.to \in c.used \cup {Elsewhere, Address}
  PROVE  LET d == PutRecord(c, h, r)
         IN  /\ d.dns = [c.dns EXCEPT ![h] = r]
             /\ d.tunnels = c.tunnels /\ d.machine = c.machine /\ d.running = c.running
             /\ d.login = c.login /\ d.used = c.used
             /\ d \in Accounts
<1> DEFINE d == PutRecord(c, h, r)
<1>1. r.id \in Nat
  BY DEF Records
<1>2. d = [c EXCEPT !.dns = [c.dns EXCEPT ![h] = r], !.made = IF r.id > c.made THEN r.id ELSE c.made]
  BY DEF PutRecord
<1> HIDE DEF d
<1>3. /\ d.dns = [c.dns EXCEPT ![h] = r] /\ d.tunnels = c.tunnels /\ d.machine = c.machine
      /\ d.running = c.running /\ d.login = c.login /\ d.used = c.used
  BY <1>2 DEF Accounts
<1>4. /\ [c.dns EXCEPT ![h] = r] \in [Hosts -> Records \cup {None}]
      /\ (IF r.id > c.made THEN r.id ELSE c.made) \in Nat
  BY <1>1, AccountTypes
<1>5. \A g \in Hosts : d.dns[g] # None => d.dns[g].to \in d.used \cup {Elsewhere, Address}
  BY <1>3, AccountTypes
<1>6. d \in Accounts
  BY <1>2, <1>3, <1>4, <1>5 DEF Accounts
<1> QED
  BY <1>3, <1>6 DEF d

\* Writing a login changes that route's login and nothing else.
LEMMA PutAppIs ==
  ASSUME NEW c \in Accounts, NEW k \in Keys, NEW n \in Nat, NEW w \in People,
         NEW owned \in BOOLEAN
  PROVE  LET d == PutApp(c, k, n, w, owned)
         IN  /\ d.login = [c.login EXCEPT ![k] = [id |-> n, who |-> w, owned |-> owned]]
             /\ d.tunnels = c.tunnels /\ d.machine = c.machine /\ d.running = c.running
             /\ d.dns = c.dns /\ d.used = c.used
             /\ d \in Accounts
<1> DEFINE d == PutApp(c, k, n, w, owned)
           r == [id |-> n, who |-> w, owned |-> owned]
<1>1. r \in Apps
  BY DEF Apps
<1>2. d = [c EXCEPT !.login = [c.login EXCEPT ![k] = r], !.made = IF n > c.made THEN n ELSE c.made]
  BY DEF PutApp
<1> HIDE DEF d
<1>3. /\ d.login = [c.login EXCEPT ![k] = r] /\ d.tunnels = c.tunnels /\ d.machine = c.machine
      /\ d.running = c.running /\ d.dns = c.dns /\ d.used = c.used
  BY <1>2 DEF Accounts
<1>4. /\ [c.login EXCEPT ![k] = r] \in [Keys -> Apps \cup {None}]
      /\ (IF n > c.made THEN n ELSE c.made) \in Nat
  BY <1>1, AccountTypes
<1>6. d \in Accounts
  BY <1>2, <1>3, <1>4 DEF Accounts
<1> QED
  BY <1>3, <1>6 DEF d

\* Deleting a record takes it away where it is, and nothing else.
LEMMA DropRecordIs ==
  ASSUME NEW c \in Accounts, NEW h \in Hosts, NEW n
  PROVE  LET d == DropRecord(c, h, n)
         IN  /\ d.dns = IF HasRecord(c, h, n) THEN [c.dns EXCEPT ![h] = None] ELSE c.dns
             /\ d.tunnels = c.tunnels /\ d.machine = c.machine /\ d.running = c.running
             /\ d.login = c.login /\ d.used = c.used
             /\ d \in Accounts
<1> DEFINE d == [c EXCEPT !.dns = [c.dns EXCEPT ![h] = None]]
<1>1. CASE HasRecord(c, h, n)
  <2>1. DropRecord(c, h, n) = d
    BY <1>1 DEF DropRecord
  <2>2. /\ d.dns = [c.dns EXCEPT ![h] = None] /\ d.tunnels = c.tunnels /\ d.machine = c.machine
        /\ d.running = c.running /\ d.login = c.login /\ d.used = c.used
    BY DEF Accounts
  <2>3. [c.dns EXCEPT ![h] = None] \in [Hosts -> Records \cup {None}]
    BY AccountTypes
  <2>4. d \in Accounts
    <3>1. \A g \in Hosts : d.dns[g] # None => d.dns[g].to \in d.used \cup {Elsewhere, Address}
      BY <2>2, AccountTypes
    <3> QED
      BY <2>2, <2>3, <3>1 DEF Accounts
  <2> QED
    BY <1>1, <2>1, <2>2, <2>4
<1>2. CASE ~HasRecord(c, h, n)
  BY <1>2 DEF DropRecord
<1> QED
  BY <1>1, <1>2

\* Deleting a login takes it away where it is, and nothing else.
LEMMA DropAppIs ==
  ASSUME NEW c \in Accounts, NEW k \in Keys, NEW n
  PROVE  LET d == DropApp(c, k, n)
         IN  /\ d.login = IF HasApp(c, k, n) THEN [c.login EXCEPT ![k] = None] ELSE c.login
             /\ d.tunnels = c.tunnels /\ d.machine = c.machine /\ d.running = c.running
             /\ d.dns = c.dns /\ d.used = c.used
             /\ d \in Accounts
<1> DEFINE d == [c EXCEPT !.login = [c.login EXCEPT ![k] = None]]
<1>1. CASE HasApp(c, k, n)
  <2>1. DropApp(c, k, n) = d
    BY <1>1 DEF DropApp
  <2>2. /\ d.login = [c.login EXCEPT ![k] = None] /\ d.tunnels = c.tunnels /\ d.machine = c.machine
        /\ d.running = c.running /\ d.dns = c.dns /\ d.used = c.used
    BY DEF Accounts
  <2>3. [c.login EXCEPT ![k] = None] \in [Keys -> Apps \cup {None}]
    BY AccountTypes
  <2>4. d \in Accounts
    BY <2>2, <2>3 DEF Accounts
  <2> QED
    BY <1>1, <2>1, <2>2, <2>4
<1>2. CASE ~HasApp(c, k, n)
  BY <1>2 DEF DropApp
<1> QED
  BY <1>1, <1>2

\* A new tunnel is this machine's, and has no configuration yet.
LEMMA AddTunnelIs ==
  ASSUME NEW c \in Accounts, NEW x \in Tunnels
  PROVE  LET d == AddTunnel(c, x)
         IN  /\ d.tunnels = [c.tunnels EXCEPT ![x] = [version |-> 0, rules |-> Unset]]
             /\ d.tunnels[x] # None /\ d.tunnels[x].rules = Unset
             /\ d.machine = x /\ d.used = c.used \cup {x}
             /\ d.running = c.running /\ d.dns = c.dns /\ d.login = c.login
             /\ d \in Accounts
<1> DEFINE new == [version |-> 0, rules |-> Unset]
           d == [c EXCEPT !.tunnels = [c.tunnels EXCEPT ![x] = new], !.machine = x,
                          !.used = c.used \cup {x}]
<1>1. AddTunnel(c, x) = d
  BY DEF AddTunnel
<1>2. new \in Configs /\ new # None
  <2>1. new \in Configs
    BY DEF Configs
  <2> QED
    BY <2>1, AccountAssumption
<1>3. /\ d.tunnels = [c.tunnels EXCEPT ![x] = new] /\ d.machine = x /\ d.used = c.used \cup {x}
      /\ d.running = c.running /\ d.dns = c.dns /\ d.login = c.login /\ d.made = c.made
  BY DEF Accounts
<1>4. c.tunnels \in [Tunnels -> Configs \cup {None}]
  BY AccountTypes
<1>5. d.tunnels[x] = new
  BY <1>3, <1>4
<1>6. new.rules = Unset
  OBVIOUS
<1>7. d \in Accounts
  <2>1. [c.tunnels EXCEPT ![x] = new] \in [Tunnels -> Configs \cup {None}]
    BY <1>2, <1>4
  <2>2. \A y \in Tunnels : d.tunnels[y] # None => y \in d.used
    BY <1>3, AccountTypes
  <2>3. \A y \in d.running : d.tunnels[y] # None
    BY <1>2, <1>3, AccountTypes
  <2>4. \A h \in Hosts : d.dns[h] # None => d.dns[h].to \in d.used \cup {Elsewhere, Address}
    BY <1>3, AccountTypes
  <2>5. d.used \in SUBSET Tunnels
    BY <1>3, AccountTypes
  <2> HIDE DEF new
  <2> QED
    BY <2>1, <2>2, <2>3, <2>4, <2>5 DEF Accounts
<1> HIDE DEF d
<1> QED
  BY <1>1, <1>2, <1>3, <1>5, <1>6, <1>7

\* A tunnel that is deleted is no longer this machine's, and does not run.
LEMMA RemoveTunnelIs ==
  ASSUME NEW c \in Accounts, NEW x \in Tunnels
  PROVE  LET d == RemoveTunnel(c, x)
         IN  /\ d.tunnels = [c.tunnels EXCEPT ![x] = None]
             /\ d.machine = IF c.machine = x THEN None ELSE c.machine
             /\ d.running = c.running \ {x}
             /\ d.used = c.used /\ d.dns = c.dns /\ d.login = c.login
             /\ d \in Accounts
<1> DEFINE d == [c EXCEPT !.tunnels = [c.tunnels EXCEPT ![x] = None],
                          !.machine = IF c.machine = x THEN None ELSE c.machine,
                          !.running = c.running \ {x}]
<1>1. RemoveTunnel(c, x) = d
  BY DEF RemoveTunnel
<1>2. /\ d.tunnels = [c.tunnels EXCEPT ![x] = None]
      /\ d.machine = IF c.machine = x THEN None ELSE c.machine
      /\ d.running = c.running \ {x}
      /\ d.used = c.used /\ d.dns = c.dns /\ d.login = c.login /\ d.made = c.made
  BY DEF Accounts
<1>3. d \in Accounts
  <2>1. [c.tunnels EXCEPT ![x] = None] \in [Tunnels -> Configs \cup {None}]
    BY AccountTypes
  <2>2. \A y \in Tunnels : d.tunnels[y] # None => y \in d.used
    BY <1>2, AccountTypes
  <2>3. \A y \in d.running : d.tunnels[y] # None
    BY <1>2, AccountTypes
  <2>4. \A h \in Hosts : d.dns[h] # None => d.dns[h].to \in d.used \cup {Elsewhere, Address}
    BY <1>2, AccountTypes
  <2>5. d.running \in SUBSET Tunnels /\ d.machine \in Tunnels \cup {None}
    BY <1>2, AccountTypes
  <2> QED
    BY <2>1, <2>2, <2>3, <2>4, <2>5 DEF Accounts
<1> HIDE DEF d
<1> QED
  BY <1>1, <1>2, <1>3

\* Writing a configuration sets the rules of that tunnel and nothing else.
LEMMA WriteConfigIs ==
  ASSUME NEW c \in Accounts, NEW x \in Tunnels, c.tunnels[x] # None, NEW r \in Rules
  PROVE  LET d == WriteConfig(c, x, r)
         IN  /\ \A y \in Tunnels \ {x} : d.tunnels[y] = c.tunnels[y]
             /\ d.tunnels[x] # None /\ d.tunnels[x].rules = r
             /\ d.machine = c.machine /\ d.running = c.running
             /\ d.used = c.used /\ d.dns = c.dns /\ d.login = c.login
             /\ d \in Accounts
<1> DEFINE new == [version |-> c.tunnels[x].version + 1, rules |-> r]
           d == [c EXCEPT !.tunnels = [c.tunnels EXCEPT ![x] = new]]
<1>1. WriteConfig(c, x, r) = d
  BY DEF WriteConfig
<1>2. new \in Configs /\ new # None /\ new.rules = r
  <2>1. c.tunnels[x] \in Configs
    BY AccountTypes
  <2>2. new \in Configs
    BY <2>1 DEF Configs
  <2> QED
    BY <2>2, AccountAssumption
<1>3. /\ d.tunnels = [c.tunnels EXCEPT ![x] = new] /\ d.machine = c.machine /\ d.used = c.used
      /\ d.running = c.running /\ d.dns = c.dns /\ d.login = c.login /\ d.made = c.made
  BY DEF Accounts
<1>4. c.tunnels \in [Tunnels -> Configs \cup {None}]
  BY AccountTypes
<1> HIDE DEF new
<1>5. d.tunnels[x] = new /\ \A y \in Tunnels \ {x} : d.tunnels[y] = c.tunnels[y]
  BY <1>3, <1>4
<1>6. d \in Accounts
  <2>1. [c.tunnels EXCEPT ![x] = new] \in [Tunnels -> Configs \cup {None}]
    BY <1>2, <1>4
  <2>2. \A y \in Tunnels : d.tunnels[y] # None => y \in d.used
    BY <1>3, <1>5, AccountTypes
  <2>3. \A y \in d.running : d.tunnels[y] # None
    BY <1>2, <1>3, <1>5, AccountTypes
  <2>4. \A h \in Hosts : d.dns[h] # None => d.dns[h].to \in d.used \cup {Elsewhere, Address}
    BY <1>3, AccountTypes
  <2> QED
    BY <2>1, <2>2, <2>3, <2>4 DEF Accounts
<1> HIDE DEF d
<1> QED
  BY <1>1, <1>2, <1>3, <1>5, <1>6

\* Starting or stopping connectors changes nothing at Cloudflare.
LEMMA RunningIs ==
  ASSUME NEW c \in Accounts, NEW R \in SUBSET Tunnels, \A y \in R : c.tunnels[y] # None
  PROVE  LET d == [c EXCEPT !.running = R]
         IN  /\ d.tunnels = c.tunnels /\ d.machine = c.machine /\ d.running = R
             /\ d.used = c.used /\ d.dns = c.dns /\ d.login = c.login
             /\ d \in Accounts
<1> DEFINE d == [c EXCEPT !.running = R]
<1>1. /\ d.tunnels = c.tunnels /\ d.machine = c.machine /\ d.running = R
      /\ d.used = c.used /\ d.dns = c.dns /\ d.login = c.login
  BY DEF Accounts
<1>2. \A h \in Hosts : d.dns[h] # None => d.dns[h].to \in d.used \cup {Elsewhere, Address}
  BY <1>1, AccountTypes
<1>3. \A y \in Tunnels : d.tunnels[y] # None => y \in d.used
  BY <1>1, AccountTypes
<1>4. d \in Accounts
  BY <1>1, <1>2, <1>3 DEF Accounts
<1> QED
  BY <1>1, <1>4

-----------------------------------------------------------------------------
(* What a call changes                                                     *)

\* Two accounts that differ in one thing at most; a tunnel that differs is gone.
SameBut(c, d, it) ==
  /\ \A y \in Tunnels : it \notin {Item("tunnel", y), Item("config", y)} => d.tunnels[y] = c.tunnels[y]
  /\ \A y \in Tunnels : it = Item("tunnel", y) => d.tunnels[y] = None
  /\ \A y \in Tunnels : it = Item("config", y) => c.tunnels[y] # None /\ d.tunnels[y] # None
  /\ \A y \in Tunnels : it # Item("connector", y) => (y \in d.running <=> y \in c.running)
  /\ \A h \in Hosts : it # Item("dns", h) => d.dns[h] = c.dns[h]
  /\ \A k \in Keys : it # Item("login", k) => d.login[k] = c.login[k]
  /\ d.machine = c.machine \/ (d.machine = None /\ it = Item("tunnel", c.machine))

\* A call changes the one thing it is about, and leaves an account.
PerformsWell(c, s, d) == d \in Accounts /\ d.used = c.used /\ SameBut(c, d, ItemOf(s))

\* A write of a record stays with the record.
LEMMA PerformRecord ==
  ASSUME NEW c \in Accounts, NEW h \in Hosts, NEW r \in Records,
         r.to \in c.used \cup {Elsewhere, Address}, NEW s, ItemOf(s) = Item("dns", h)
  PROVE  PerformsWell(c, s, PutRecord(c, h, r))
<1> DEFINE d == PutRecord(c, h, r)
<1>1. /\ d.dns = [c.dns EXCEPT ![h] = r]
      /\ d.tunnels = c.tunnels /\ d.machine = c.machine /\ d.running = c.running
      /\ d.login = c.login /\ d.used = c.used
      /\ d \in Accounts
  BY PutRecordIs
<1> HIDE DEF d
<1>2. c.dns \in [Hosts -> Records \cup {None}]
  BY AccountTypes
<1>3. SameBut(c, d, Item("dns", h))
  BY <1>1, <1>2 DEF SameBut, Item
<1> QED
  BY <1>1, <1>3 DEF PerformsWell, d

\* A write of a login stays with the login.
LEMMA PerformApp ==
  ASSUME NEW c \in Accounts, NEW k \in Keys, NEW n \in Nat, NEW w \in People,
         NEW owned \in BOOLEAN, NEW s, ItemOf(s) = Item("login", k)
  PROVE  PerformsWell(c, s, PutApp(c, k, n, w, owned))
<1> DEFINE d == PutApp(c, k, n, w, owned)
<1>1. /\ d.login = [c.login EXCEPT ![k] = [id |-> n, who |-> w, owned |-> owned]]
      /\ d.tunnels = c.tunnels /\ d.machine = c.machine /\ d.running = c.running
      /\ d.dns = c.dns /\ d.used = c.used
      /\ d \in Accounts
  BY PutAppIs
<1> HIDE DEF d
<1>2. c.login \in [Keys -> Apps \cup {None}]
  BY AccountTypes
<1>3. SameBut(c, d, Item("login", k))
  BY <1>1, <1>2 DEF SameBut, Item
<1> QED
  BY <1>1, <1>3 DEF PerformsWell, d

\* A record, or a login, looks like another of the same content.
LEMMA SameLook ==
  /\ \A r, q \in Records : r.to = q.to /\ (r.owned <=> q.owned) /\ (r.noted <=> q.noted)
                              => Look(r) = Look(q)
  /\ \A r, q \in Apps : r.who = q.who /\ (r.owned <=> q.owned) => Look(r) = Look(q)
<1>0. None \notin Records /\ None \notin Apps
  BY AccountAssumption
<1>1. ASSUME NEW r \in Records, NEW q \in Records, r.to = q.to, r.owned <=> q.owned,
      r.noted <=> q.noted
      PROVE  Look(r) = Look(q)
  <2>1. Look(r) = [r EXCEPT !.id = 0] /\ Look(q) = [q EXCEPT !.id = 0]
    BY <1>0 DEF Look
  <2>2. r.owned = q.owned /\ r.noted = q.noted
    BY <1>1 DEF Records
  <2> QED
    BY <1>1, <2>1, <2>2 DEF Records
<1>2. ASSUME NEW r \in Apps, NEW q \in Apps, r.who = q.who, r.owned <=> q.owned
      PROVE  Look(r) = Look(q)
  <2>1. Look(r) = [r EXCEPT !.id = 0] /\ Look(q) = [q EXCEPT !.id = 0]
    BY <1>0 DEF Look
  <2>2. r.owned = q.owned
    BY <1>2 DEF Apps
  <2> QED
    BY <1>2, <2>1, <2>2 DEF Apps
<1> QED
  BY <1>1, <1>2

\* A record is there again, Teitunnel's comment on it aside.
Back(r, q) == Look(q) = Look(r) \/ Marked(r, q)

\* A record given back, in place or not, is there again.
LEMMA GivenBack ==
  ASSUME NEW c \in Accounts, NEW h \in Hosts, NEW n \in Nat, NEW r \in Records
  PROVE  \E q \in Records : /\ GiveBack(c, RestoreRecord(h, n, r)) = PutRecord(c, h, q)
                            /\ q.to = r.to /\ (r.owned => q.owned) /\ Back(r, q)
<1> DEFINE q == [r EXCEPT !.id = IF n = r.id THEN n ELSE NextId(c),
                          !.owned = r.owned \/ (n = r.id /\ ~r.noted)]
<1>1. /\ r.owned \in BOOLEAN /\ r.noted \in BOOLEAN /\ NextId(c) \in Nat
      /\ r = [id |-> r.id, to |-> r.to, owned |-> r.owned, noted |-> r.noted]
  BY AccountTypes DEF Records, NextId
<1>2. /\ q \in Records /\ q.to = r.to /\ q.noted = r.noted
      /\ q.owned = (r.owned \/ (n = r.id /\ ~r.noted))
  BY <1>1 DEF Records
<1>3. GiveBack(c, RestoreRecord(h, n, r)) = PutRecord(c, h, q)
  BY DEF GiveBack, RestoreRecord
<1> HIDE DEF q
<1>4. CASE q.owned = r.owned
  BY <1>2, <1>3, <1>4, SameLook DEF Back
<1>5. CASE q.owned # r.owned
  <2>1. q.owned = TRUE /\ r.owned = FALSE /\ r.noted = FALSE
    BY <1>1, <1>2, <1>5
  <2>2. r # None /\ q # None
    BY <1>2, AccountAssumption
  <2>3. Look(r) = [r EXCEPT !.id = 0] /\ Look(q) = [q EXCEPT !.id = 0]
    BY <2>2 DEF Look
  <2>4. Look(q) = [Look(r) EXCEPT !.owned = TRUE]
    BY <1>2, <2>1, <2>3 DEF Records
  <2> QED
    BY <1>2, <1>3, <2>1, <2>2, <2>4 DEF Back, Marked
<1> QED
  BY <1>4, <1>5

\* A record put back as it was, with another id.
LEMMA Recreated ==
  ASSUME NEW c \in Accounts, NEW r \in Records
  PROVE  LET q == [r EXCEPT !.id = NextId(c)]
         IN  /\ q \in Records /\ q.to = r.to /\ q.owned = r.owned /\ Look(q) = Look(r)
             /\ q.id = NextId(c)
<1>1. NextId(c) \in Nat
  BY AccountTypes DEF NextId
<1>2. [r EXCEPT !.id = NextId(c)] \in Records
  BY <1>1 DEF Records
<1>3. /\ [r EXCEPT !.id = NextId(c)].to = r.to /\ [r EXCEPT !.id = NextId(c)].owned = r.owned
      /\ [r EXCEPT !.id = NextId(c)].noted = r.noted /\ [r EXCEPT !.id = NextId(c)].id = NextId(c)
  BY DEF Records
<1> QED
  BY <1>2, <1>3, SameLook

\* A record that is there again leads where it led.
LEMMA BackThere ==
  ASSUME NEW r \in Records \cup {None}, NEW q \in Records, Back(r, q)
  PROVE  r # None /\ r.to = q.to
<1>0. None \notin Records
  BY AccountAssumption
<1>1. ASSUME NEW y \in Records PROVE Look(y) \in Records /\ Look(y).to = y.to
  BY <1>0, <1>1 DEF Look, Records
<1>2. r # None
  BY <1>0, <1>1 DEF Back, Marked, Look
<1>3. ASSUME Marked(r, q) PROVE Look(q).to = Look(r).to
  BY <1>1, <1>2, <1>3 DEF Marked, Records
<1>4. Look(q).to = Look(r).to
  BY <1>3 DEF Back
<1> QED
  BY <1>1, <1>2, <1>4

\* What Teitunnel writes is a record.
LEMMA OurRecordIs ==
  ASSUME NEW n \in Nat, NEW x \in Tunnels
  PROVE  OurRecord(n, x) \in Records /\ OurRecord(n, x).to = x /\ OurRecord(n, x).id = n
         /\ OurRecord(n, x).owned
  BY DEF OurRecord, Records, Targets

\* An accepted step changes the thing it is about, and nothing else.
LEMMA PerformIs ==
  ASSUME NEW c \in Accounts, NEW s, TypedStep(s, c.used), Accepts(c, s), s.op # "CreateTunnel"
  PROVE  PerformsWell(c, s, Perform(c, s, None))
<1> DEFINE d == Perform(c, s, None)
<1>0. c.used \subseteq Tunnels /\ NextId(c) \in Nat
  BY AccountTypes DEF NextId
<1>1. CASE \E x \in c.used : s = DeleteTunnel(x)
  <2>1. PICK x \in c.used : s = DeleteTunnel(x)
    BY <1>1
  <2>2. d = RemoveTunnel(c, x) /\ ItemOf(s) = Item("tunnel", x) /\ x \in Tunnels /\ x \notin c.running
    BY <2>1, <1>0 DEF DeleteTunnel, Perform, ItemOf, Accepts
  <2>3. /\ d.tunnels = [c.tunnels EXCEPT ![x] = None]
        /\ d.machine = IF c.machine = x THEN None ELSE c.machine
        /\ d.running = c.running \ {x}
        /\ d.used = c.used /\ d.dns = c.dns /\ d.login = c.login
        /\ d \in Accounts
    BY <2>2, RemoveTunnelIs
  <2> HIDE DEF d
  <2>4. c.tunnels \in [Tunnels -> Configs \cup {None}]
    BY AccountTypes
  <2>5. SameBut(c, d, Item("tunnel", x))
    BY <2>2, <2>3, <2>4 DEF SameBut, Item
  <2> QED
    BY <2>2, <2>3, <2>5 DEF PerformsWell, d
<1>2. CASE \E x \in c.used : s = StartConnector(x)
  <2>1. PICK x \in c.used : s = StartConnector(x)
    BY <1>2
  <2>2. /\ d = [c EXCEPT !.running = c.running \cup {x}] /\ ItemOf(s) = Item("connector", x)
        /\ x \in Tunnels /\ c.tunnels[x] # None
    BY <2>1, <1>0 DEF StartConnector, Perform, ItemOf, Accepts
  <2>3. c.running \cup {x} \in SUBSET Tunnels /\ \A y \in c.running \cup {x} : c.tunnels[y] # None
    BY <2>2, AccountTypes
  <2>4. /\ d.tunnels = c.tunnels /\ d.machine = c.machine /\ d.running = c.running \cup {x}
        /\ d.used = c.used /\ d.dns = c.dns /\ d.login = c.login
        /\ d \in Accounts
    BY <2>2, <2>3, RunningIs
  <2> HIDE DEF d
  <2>5. SameBut(c, d, Item("connector", x))
    BY <2>2, <2>4 DEF SameBut, Item
  <2> QED
    BY <2>2, <2>4, <2>5 DEF PerformsWell, d
<1>3. CASE \E x \in c.used : s = StopConnector(x)
  <2>1. PICK x \in c.used : s = StopConnector(x)
    BY <1>3
  <2> DEFINE R == c.running \ {x}
  <2>2. /\ d = [c EXCEPT !.running = R] /\ ItemOf(s) = Item("connector", x)
        /\ x \in Tunnels
    BY <2>1, <1>0 DEF StopConnector, Perform, ItemOf
  <2>3. R \in SUBSET Tunnels /\ \A y \in R : c.tunnels[y] # None
    BY <2>2, AccountTypes
  <2> HIDE DEF R
  <2>4. /\ d.tunnels = c.tunnels /\ d.machine = c.machine /\ d.running = R
        /\ d.used = c.used /\ d.dns = c.dns /\ d.login = c.login
        /\ d \in Accounts
    BY <2>2, <2>3, RunningIs
  <2> HIDE DEF d
  <2>5. SameBut(c, d, Item("connector", x))
    BY <2>2, <2>4 DEF SameBut, Item, R
  <2> QED
    BY <2>2, <2>4, <2>5 DEF PerformsWell, d
<1>4. CASE \E x \in c.used, r \in Rules, v \in Nat \cup {None}, q \in Rules \cup {Unset} :
             s = PutConfig(x, r, v, q)
  <2>1. PICK x \in c.used, r \in Rules, v \in Nat \cup {None}, q \in Rules \cup {Unset} :
             s = PutConfig(x, r, v, q)
    BY <1>4
  <2>2. /\ d = WriteConfig(c, x, r) /\ ItemOf(s) = Item("config", x)
        /\ x \in Tunnels /\ c.tunnels[x] # None
    BY <2>1, <1>0 DEF PutConfig, Perform, ItemOf, Accepts
  <2>3. /\ \A y \in Tunnels \ {x} : d.tunnels[y] = c.tunnels[y]
        /\ d.tunnels[x] # None /\ d.tunnels[x].rules = r
        /\ d.machine = c.machine /\ d.running = c.running
        /\ d.used = c.used /\ d.dns = c.dns /\ d.login = c.login
        /\ d \in Accounts
    BY <2>2, WriteConfigIs
  <2> HIDE DEF d
  <2>4. SameBut(c, d, Item("config", x))
    BY <2>2, <2>3 DEF SameBut, Item
  <2> QED
    BY <2>2, <2>3, <2>4 DEF PerformsWell, d
<1>5. CASE \E h \in Hosts, x \in c.used : s = CreateRecord(h, x)
  <2>1. PICK h \in Hosts, x \in c.used : s = CreateRecord(h, x)
    BY <1>5
  <2>2. d = PutRecord(c, h, OurRecord(NextId(c), x)) /\ ItemOf(s) = Item("dns", h)
    BY <2>1 DEF CreateRecord, Perform, ItemOf
  <2>3. OurRecord(NextId(c), x) \in Records /\ OurRecord(NextId(c), x).to = x
    BY <1>0, OurRecordIs
  <2> QED
    BY <2>2, <2>3, PerformRecord
<1>6. CASE \E h \in Hosts, r \in Records :
             /\ r.to \in c.used \cup {Elsewhere, Address}
             /\ \/ \E x \in c.used : s = UpdateRecord(h, x, r)
                \/ s = DeleteRecord(h, r)
                \/ s = RecreateRecord(h, r)
                \/ \E n \in Nat : s = RestoreRecord(h, n, r)
  <2>1. PICK h \in Hosts, r \in Records :
             /\ r.to \in c.used \cup {Elsewhere, Address}
             /\ \/ \E x \in c.used : s = UpdateRecord(h, x, r)
                \/ s = DeleteRecord(h, r)
                \/ s = RecreateRecord(h, r)
                \/ \E n \in Nat : s = RestoreRecord(h, n, r)
    BY <1>6
  <2>2. r.id \in Nat
    BY DEF Records
  <2>3. ASSUME NEW x \in c.used, s = UpdateRecord(h, x, r) PROVE PerformsWell(c, s, d)
    <3>1. d = PutRecord(c, h, OurRecord(IdAfter(c, r), x)) /\ ItemOf(s) = Item("dns", h)
      BY <2>3 DEF UpdateRecord, Perform, ItemOf
    <3>2. IdAfter(c, r) \in Nat
      BY <2>2, <1>0 DEF IdAfter
    <3>3. OurRecord(IdAfter(c, r), x) \in Records /\ OurRecord(IdAfter(c, r), x).to = x
      BY <1>0, <3>2, OurRecordIs
    <3> QED
      BY <3>1, <3>3, PerformRecord
  <2>4. CASE s = DeleteRecord(h, r)
    <3>1. d = DropRecord(c, h, r.id) /\ ItemOf(s) = Item("dns", h)
      BY <2>4 DEF DeleteRecord, Perform, ItemOf
    <3>2. /\ d.dns = IF HasRecord(c, h, r.id) THEN [c.dns EXCEPT ![h] = None] ELSE c.dns
          /\ d.tunnels = c.tunnels /\ d.machine = c.machine /\ d.running = c.running
          /\ d.login = c.login /\ d.used = c.used
          /\ d \in Accounts
      BY <3>1, DropRecordIs
    <3>3. c.dns \in [Hosts -> Records \cup {None}]
      BY AccountTypes
    <3> HIDE DEF d
    <3>4. SameBut(c, d, Item("dns", h))
      BY <3>2, <3>3 DEF SameBut, Item
    <3> QED
      BY <3>1, <3>2, <3>4 DEF PerformsWell, d
  <2>5. CASE s = RecreateRecord(h, r)
    <3>1. d = PutRecord(c, h, [r EXCEPT !.id = NextId(c)]) /\ ItemOf(s) = Item("dns", h)
      BY <2>5 DEF RecreateRecord, Perform, ItemOf
    <3> QED
      BY <3>1, <2>1, Recreated, PerformRecord
  <2>6. ASSUME NEW n \in Nat, s = RestoreRecord(h, n, r) PROVE PerformsWell(c, s, d)
    <3>1. d = GiveBack(c, s) /\ ItemOf(s) = Item("dns", h)
      BY <2>6 DEF RestoreRecord, Perform, ItemOf
    <3>2. \E q \in Records : GiveBack(c, s) = PutRecord(c, h, q) /\ q.to = r.to
      BY <2>6, GivenBack
    <3> QED
      BY <3>1, <3>2, <2>1, PerformRecord
  <2> QED
    BY <2>1, <2>3, <2>4, <2>5, <2>6
<1>7. CASE \E k \in Keys, w \in People : s = CreateApp(k, w)
  <2>1. PICK k \in Keys, w \in People : s = CreateApp(k, w)
    BY <1>7
  <2>2. d = PutApp(c, k, NextId(c), w, TRUE) /\ ItemOf(s) = Item("login", k)
    BY <2>1 DEF CreateApp, Perform, ItemOf
  <2> QED
    BY <2>2, <1>0, PerformApp
<1>8. CASE \E k \in Keys, w \in People, p \in Apps : s = UpdateApp(k, w, p)
  <2>1. PICK k \in Keys, w \in People, p \in Apps : s = UpdateApp(k, w, p)
    BY <1>8
  <2>2. d = PutApp(c, k, p.id, w, TRUE) /\ ItemOf(s) = Item("login", k) /\ p.id \in Nat
    BY <2>1 DEF UpdateApp, Perform, ItemOf, Apps
  <2> QED
    BY <2>2, PerformApp
<1>9. CASE \E k \in Keys, p \in Apps : s = DeleteApp(k, p)
  <2>1. PICK k \in Keys, p \in Apps : s = DeleteApp(k, p)
    BY <1>9
  <2>2. d = DropApp(c, k, p.id) /\ ItemOf(s) = Item("login", k)
    BY <2>1 DEF DeleteApp, Perform, ItemOf
  <2>3. /\ d.login = IF HasApp(c, k, p.id) THEN [c.login EXCEPT ![k] = None] ELSE c.login
        /\ d.tunnels = c.tunnels /\ d.machine = c.machine /\ d.running = c.running
        /\ d.dns = c.dns /\ d.used = c.used
        /\ d \in Accounts
    BY <2>2, DropAppIs
  <2>4. c.login \in [Keys -> Apps \cup {None}]
    BY AccountTypes
  <2> HIDE DEF d
  <2>5. SameBut(c, d, Item("login", k))
    BY <2>3, <2>4 DEF SameBut, Item
  <2> QED
    BY <2>2, <2>3, <2>5 DEF PerformsWell, d
<1>10. s # CreateTunnel
  BY DEF CreateTunnel, Step
<1> QED
  BY <1>1, <1>2, <1>3, <1>4, <1>5, <1>6, <1>7, <1>8, <1>9, <1>10 DEF TypedStep

\* So does one whose answer was lost.
LEMMA PerformUnheardIs ==
  ASSUME NEW c \in Accounts, NEW s, TypedStep(s, c.used), Accepts(c, s), s.op # "CreateTunnel"
  PROVE  PerformsWell(c, s, PerformUnheard(c, s))
<1>1. CASE s.op = "CreateApp"
  <2>1. PICK k \in Keys, w \in People : s = CreateApp(k, w)
    BY <1>1 DEF TypedStep, CreateTunnel, Step, DeleteTunnel, StartConnector, StopConnector, PutConfig,
       CreateRecord, UpdateRecord, DeleteRecord, RecreateRecord, RestoreRecord, UpdateApp, DeleteApp
  <2>2. PerformUnheard(c, s) = PutApp(c, k, NextId(c), w, FALSE) /\ ItemOf(s) = Item("login", k)
    BY <2>1 DEF CreateApp, PerformUnheard, ItemOf
  <2>3. NextId(c) \in Nat
    BY AccountTypes DEF NextId
  <2> QED
    BY <2>2, <2>3, PerformApp
<1>2. CASE s.op \in {"RecreateRecord", "RestoreRecord"}
  <2>1. PICK h \in Hosts, r \in Records :
          /\ r.to \in c.used \cup {Elsewhere, Address}
          /\ s = RecreateRecord(h, r) \/ \E n \in Nat : s = RestoreRecord(h, n, r)
    BY <1>2 DEF TypedStep, CreateTunnel, Step, DeleteTunnel, StartConnector, StopConnector, PutConfig,
       CreateRecord, UpdateRecord, DeleteRecord, CreateApp, UpdateApp, DeleteApp
  <2>2. NextId(c) \in Nat
    BY AccountTypes DEF NextId
  <2>3. /\ ItemOf(s) = Item("dns", h)
        /\ \E q \in Records : PerformUnheard(c, s) = PutRecord(c, h, q) /\ q.to = r.to
    <3>1. CASE s = RecreateRecord(h, r)
      <4> DEFINE q == [r EXCEPT !.id = NextId(c), !.owned = @ /\ ~r.noted]
      <4>1. q \in Records /\ q.to = r.to
        BY <2>2 DEF Records
      <4>2. ItemOf(s) = Item("dns", h) /\ PerformUnheard(c, s) = PutRecord(c, h, q)
        BY <3>1 DEF RecreateRecord, PerformUnheard, ItemOf
      <4> QED
        BY <4>1, <4>2
    <3>2. ASSUME NEW n \in Nat, s = RestoreRecord(h, n, r)
          PROVE  /\ ItemOf(s) = Item("dns", h)
                 /\ \E q \in Records : PerformUnheard(c, s) = PutRecord(c, h, q) /\ q.to = r.to
      <4> DEFINE q == IF n = r.id THEN [r EXCEPT !.owned = TRUE]
                      ELSE [r EXCEPT !.id = NextId(c), !.owned = @ /\ ~r.noted]
      <4>1. q \in Records /\ q.to = r.to
        BY <2>2 DEF Records
      <4>2. ItemOf(s) = Item("dns", h) /\ PerformUnheard(c, s) = PutRecord(c, h, q)
        BY <3>2 DEF RestoreRecord, PerformUnheard, ItemOf
      <4> QED
        BY <4>1, <4>2
    <3> QED
      BY <2>1, <3>1, <3>2
  <2> QED
    BY <2>1, <2>3, PerformRecord
<1>3. CASE s.op \notin {"CreateApp", "RecreateRecord", "RestoreRecord"}
  <2> DEFINE e == Perform(c, s, None)
             d == [e EXCEPT !.machine = c.machine]
  <2>1. PerformUnheard(c, s) = d
    BY <1>3 DEF PerformUnheard
  <2>2. e \in Accounts /\ e.used = c.used /\ SameBut(c, e, ItemOf(s))
    BY PerformIs DEF PerformsWell
  <2> HIDE DEF e
  <2>3. /\ d.tunnels = e.tunnels /\ d.machine = c.machine /\ d.running = e.running
        /\ d.dns = e.dns /\ d.login = e.login /\ d.used = e.used
    BY <2>2 DEF Accounts
  <2>4. d \in Accounts
    <3>1. c.machine \in Tunnels \cup {None}
      BY AccountTypes
    <3>2. /\ \A y \in Tunnels : d.tunnels[y] # None => y \in d.used
          /\ \A y \in d.running : d.tunnels[y] # None
          /\ \A h \in Hosts : d.dns[h] # None => d.dns[h].to \in d.used \cup {Elsewhere, Address}
      BY <2>2, <2>3, AccountTypes
    <3> QED
      BY <2>2, <3>1, <3>2 DEF Accounts
  <2>5. SameBut(c, d, ItemOf(s))
    BY <2>2, <2>3 DEF SameBut
  <2> QED
    BY <2>1, <2>2, <2>3, <2>4, <2>5 DEF PerformsWell
<1> QED
  BY <1>1, <1>2, <1>3

\* A step that may be called stays one, as more tunnels are made.
LEMMA TypedLater ==
  ASSUME NEW s, NEW U, NEW V, TypedStep(s, U), U \subseteq V
  PROVE  TypedStep(s, V)
<1>1. CASE \E h \in Hosts, r \in Records :
             /\ r.to \in U \cup {Elsewhere, Address}
             /\ \/ \E x \in U : s = UpdateRecord(h, x, r)
                \/ s = DeleteRecord(h, r)
                \/ s = RecreateRecord(h, r)
                \/ \E n \in Nat : s = RestoreRecord(h, n, r)
  BY <1>1 DEF TypedStep
<1>2. CASE \E x \in U, r \in Rules, v \in Nat \cup {None}, q \in Rules \cup {Unset} :
             s = PutConfig(x, r, v, q)
  BY <1>2 DEF TypedStep
<1> QED
  BY <1>1, <1>2 DEF TypedStep

\* The record there is after it was put there.
LEMMA RecordThere ==
  ASSUME NEW c \in Accounts, NEW h \in Hosts, NEW r
  PROVE  PutRecord(c, h, r).dns[h] = r
<1> DEFINE f == [c.dns EXCEPT ![h] = r]
           d == PutRecord(c, h, r)
<1>1. c.dns \in [Hosts -> Records \cup {None}]
  BY AccountTypes
<1>2. DOMAIN c = {"tunnels", "machine", "running", "dns", "login", "made", "used"}
  BY DEF Accounts
<1>3. d = [c EXCEPT !.dns = f, !.made = IF r.id > c.made THEN r.id ELSE c.made]
  BY DEF PutRecord
<1>4. f[h] = r
  BY <1>1
<1> HIDE DEF f, d
<1>5. d.dns = f
  BY <1>2, <1>3
<1> QED
  BY <1>4, <1>5 DEF d

\* The login there is after it was put there.
LEMMA AppThere ==
  ASSUME NEW c \in Accounts, NEW k \in Keys, NEW n, NEW v, NEW w \in BOOLEAN
  PROVE  LET d == PutApp(c, k, n, v, w)
         IN  d.login[k].id = n /\ d.login[k].who = v /\ d.login[k].owned = w
             /\ (n \in Nat /\ v \in People /\ w \in BOOLEAN => d.login[k] \in Apps)
<1> DEFINE r == [id |-> n, who |-> v, owned |-> w]
           f == [c.login EXCEPT ![k] = r]
           d == PutApp(c, k, n, v, w)
<1>1. c.login \in [Keys -> Apps \cup {None}]
  BY AccountTypes
<1>2. DOMAIN c = {"tunnels", "machine", "running", "dns", "login", "made", "used"}
  BY DEF Accounts
<1>3. d = [c EXCEPT !.login = f, !.made = IF n > c.made THEN n ELSE c.made]
  BY DEF PutApp
<1>4. r.id = n /\ r.who = v /\ r.owned = w
      /\ (n \in Nat /\ v \in People /\ w \in BOOLEAN => r \in Apps)
  BY DEF Apps
<1> HIDE DEF r
<1>5. f[k] = r
  BY <1>1
<1> HIDE DEF f, d
<1>6. d.login = f
  BY <1>2, <1>3
<1> QED
  BY <1>4, <1>5, <1>6 DEF d

\* A record, and a login, of Teitunnel's.
OwnRecord(c, h, n, v) == PutRecord(c, h, OurRecord(n, v))
OwnApp(c, k, n, w) == PutApp(c, k, n, w, TRUE)

\* The record Teitunnel put there is its own.
LEMMA OwnRecordThere ==
  ASSUME NEW c \in Accounts, NEW h \in Hosts, NEW n \in Nat, NEW v \in Tunnels
  PROVE  LET r == OwnRecord(c, h, n, v).dns[h]
         IN  r \in Records /\ r.id = n /\ r.to = v
<1>1. OwnRecord(c, h, n, v).dns[h] = OurRecord(n, v)
  BY RecordThere DEF OwnRecord
<1> QED
  BY <1>1, OurRecordIs

\* The login Teitunnel put there is its own.
LEMMA OwnAppThere ==
  ASSUME NEW c \in Accounts, NEW k \in Keys, NEW n \in Nat, NEW v \in People
  PROVE  LET r == OwnApp(c, k, n, v).login[k]
         IN  r \in Apps /\ r.id = n /\ r.who = v
<1>1. \A w \in BOOLEAN : LET r == PutApp(c, k, n, v, w).login[k]
                        IN  r \in Apps /\ r.id = n /\ r.who = v /\ r.owned = w
  BY AppThere
<1> QED
  BY <1>1 DEF OwnApp

\* ... and says so.
LEMMA OwnAppOwned ==
  ASSUME NEW c \in Accounts, NEW k \in Keys, NEW n \in Nat, NEW v \in People
  PROVE  OwnApp(c, k, n, v).login[k].owned
<1>1. \A w \in BOOLEAN : PutApp(c, k, n, v, w).login[k].owned = w
  BY AppThere
<1> QED
  BY <1>1 DEF OwnApp

\* The undo of a call is a call: of what is in the account, or was.
LEMMA UndoIs ==
  ASSUME NEW c \in Accounts, NEW s, TypedStep(s, c.used), Accepts(c, s), s.op # "CreateTunnel",
         UndoOf(Perform(c, s, None), s, None) # <<>>
  PROVE  /\ UndoOf(Perform(c, s, None), s, None) = <<UndoOf(Perform(c, s, None), s, None)[1]>>
         /\ TypedStep(UndoOf(Perform(c, s, None), s, None)[1], c.used)
<1> DEFINE d == Perform(c, s, None)
           u == UndoOf(d, s, None)
<1>0. NextId(c) \in Nat /\ d \in Accounts /\ d.used = c.used
  BY AccountTypes, PerformIs DEF NextId, PerformsWell
<1> SUFFICES \E v : u = <<v>> /\ TypedStep(v, c.used)
  OBVIOUS
<1>1. CASE \E x \in c.used : s \in {DeleteTunnel(x), StartConnector(x)}
  BY <1>1 DEF UndoOf, DeleteTunnel, StartConnector
<1>2. CASE \E x \in c.used : s = StopConnector(x)
  <2>1. PICK x \in c.used : s = StopConnector(x)
    BY <1>2
  <2>2. u = <<StartConnector(x)>>
    BY <2>1 DEF UndoOf, StopConnector
  <2> QED
    BY <2>2 DEF TypedStep
<1>3. CASE \E x \in c.used, r \in Rules, v \in Nat \cup {None}, q \in Rules \cup {Unset} :
             s = PutConfig(x, r, v, q)
  <2>1. PICK x \in c.used, r \in Rules, v \in Nat \cup {None}, q \in Rules \cup {Unset} :
             s = PutConfig(x, r, v, q)
    BY <1>3
  <2>2. u = <<PutConfig(x, q, None, Unset)>> /\ q # Unset
    BY <2>1 DEF UndoOf, PutConfig
  <2> QED
    BY <2>2 DEF TypedStep
<1>4. CASE \E h \in Hosts, x \in c.used : s = CreateRecord(h, x)
  <2>1. PICK h \in Hosts, x \in c.used : s = CreateRecord(h, x)
    BY <1>4
  <2>2. d = OwnRecord(c, h, NextId(c), x) /\ u = <<DeleteRecord(h, d.dns[h])>>
    <3>1. d = OwnRecord(c, h, NextId(c), x)
      BY <2>1 DEF CreateRecord, Perform, OwnRecord
    <3> HIDE DEF d
    <3>2. u = <<DeleteRecord(h, d.dns[h])>>
      BY <2>1 DEF UndoOf, CreateRecord
    <3> QED
      BY <3>1, <3>2
  <2>3. d.dns[h] \in Records /\ d.dns[h].to \in c.used
    <3>1. x \in Tunnels
      BY AccountTypes
    <3> HIDE DEF d
    <3> QED
      BY <3>1, <2>2, <1>0, OwnRecordThere
  <2> QED
    BY <2>2, <2>3 DEF TypedStep
<1>5. CASE \E h \in Hosts, r \in Records :
             /\ r.to \in c.used \cup {Elsewhere, Address}
             /\ \/ \E x \in c.used : s = UpdateRecord(h, x, r)
                \/ s = DeleteRecord(h, r)
                \/ s = RecreateRecord(h, r)
                \/ \E n \in Nat : s = RestoreRecord(h, n, r)
  <2>1. PICK h \in Hosts, r \in Records :
             /\ r.to \in c.used \cup {Elsewhere, Address}
             /\ \/ \E x \in c.used : s = UpdateRecord(h, x, r)
                \/ s = DeleteRecord(h, r)
                \/ s = RecreateRecord(h, r)
                \/ \E n \in Nat : s = RestoreRecord(h, n, r)
    BY <1>5
  <2>2. ASSUME NEW x \in c.used, s = UpdateRecord(h, x, r) PROVE \E v : u = <<v>> /\ TypedStep(v, c.used)
    <3>1. d = OwnRecord(c, h, IdAfter(c, r), x) /\ u = <<RestoreRecord(h, d.dns[h].id, r)>>
      <4>1. d = OwnRecord(c, h, IdAfter(c, r), x)
        BY <2>2 DEF UpdateRecord, Perform, OwnRecord
      <4> HIDE DEF d
      <4>2. u = <<RestoreRecord(h, d.dns[h].id, r)>>
        BY <2>2 DEF UndoOf, UpdateRecord
      <4> QED
        BY <4>1, <4>2
    <3>2. d.dns[h].id = IdAfter(c, r)
      <4>1. IdAfter(c, r) \in Nat /\ x \in Tunnels
        BY <1>0, AccountTypes DEF IdAfter, Records
      <4> HIDE DEF d
      <4> QED
        BY <4>1, <3>1, OwnRecordThere
    <3>3. IdAfter(c, r) \in Nat
      BY <1>0 DEF IdAfter, Records
    <3>4. d.dns[h].id \in Nat
      BY <3>2, <3>3
    <3> QED
      BY <2>1, <3>1, <3>4 DEF TypedStep
  <2>3. CASE s = DeleteRecord(h, r)
    <3>1. u = <<RecreateRecord(h, r)>>
      BY <2>3 DEF UndoOf, DeleteRecord
    <3> QED
      BY <2>1, <3>1 DEF TypedStep
  <2>4. CASE s = RecreateRecord(h, r) \/ \E n \in Nat : s = RestoreRecord(h, n, r)
    BY <2>4 DEF UndoOf, RecreateRecord, RestoreRecord
  <2> QED
    BY <2>1, <2>2, <2>3, <2>4
<1>6. CASE \E k \in Keys, w \in People : s = CreateApp(k, w)
  <2>1. PICK k \in Keys, w \in People : s = CreateApp(k, w)
    BY <1>6
  <2>2. d = OwnApp(c, k, NextId(c), w) /\ u = <<DeleteApp(k, d.login[k])>>
    <3>1. d = OwnApp(c, k, NextId(c), w)
      BY <2>1 DEF CreateApp, Perform, OwnApp
    <3> HIDE DEF d
    <3>2. u = <<DeleteApp(k, d.login[k])>>
      BY <2>1 DEF UndoOf, CreateApp
    <3> QED
      BY <3>1, <3>2
  <2>3. d.login[k] \in Apps
    <3> HIDE DEF d
    <3> QED
      BY <2>2, <1>0, OwnAppThere
  <2> QED
    BY <2>2, <2>3 DEF TypedStep
<1>7. CASE \E k \in Keys, w \in People, p \in Apps : s = UpdateApp(k, w, p)
  <2>1. PICK k \in Keys, w \in People, p \in Apps : s = UpdateApp(k, w, p)
    BY <1>7
  <2>2. u = <<UpdateApp(k, p.who, p)>> /\ p.who \in People
    BY <2>1 DEF UndoOf, UpdateApp, Apps
  <2> QED
    BY <2>2 DEF TypedStep
<1>8. CASE \E k \in Keys, p \in Apps : s = DeleteApp(k, p)
  <2>1. PICK k \in Keys, p \in Apps : s = DeleteApp(k, p)
    BY <1>8
  <2>2. u = <<CreateApp(k, p.who)>> /\ p.who \in People
    BY <2>1 DEF UndoOf, DeleteApp, Apps
  <2> QED
    BY <2>2 DEF TypedStep
<1>9. s # CreateTunnel
  BY DEF CreateTunnel, Step
<1> QED
  BY <1>1, <1>2, <1>3, <1>4, <1>5, <1>6, <1>7, <1>8, <1>9 DEF TypedStep

-----------------------------------------------------------------------------
(* The steps of a plan                                                     *)

\* A sequence, over whatever it holds.
IsList(p) == p \in Seq(Range(p))

\* A sequence is a list of what it is over.
LEMMA ListOf ==
  ASSUME NEW S, NEW p \in Seq(S)
  PROVE  IsList(p) /\ Range(p) \subseteq S /\ DOMAIN p = 1..Len(p) /\ Len(p) \in Nat
<1>1. p \in [1..Len(p) -> S] /\ Len(p) \in Nat
  OBVIOUS
<1>2. p \in [1..Len(p) -> Range(p)]
  BY <1>1 DEF Range
<1> QED
  BY <1>1, <1>2 DEF IsList, Range

\* Lists one after the other.
LEMMA ListConcat ==
  ASSUME NEW p, NEW q, IsList(p), IsList(q)
  PROVE  /\ IsList(p \o q)
         /\ Range(p \o q) = Range(p) \cup Range(q)
         /\ Len(p \o q) = Len(p) + Len(q) /\ Len(p) \in Nat /\ Len(q) \in Nat
         /\ DOMAIN (p \o q) = 1..(Len(p) + Len(q)) /\ DOMAIN p = 1..Len(p) /\ DOMAIN q = 1..Len(q)
         /\ \A l \in 1..Len(p) : (p \o q)[l] = p[l]
         /\ \A l \in (Len(p) + 1)..(Len(p) + Len(q)) : (p \o q)[l] = q[l - Len(p)]
<1> DEFINE S == Range(p) \cup Range(q)
<1>1. p \in Seq(S) /\ q \in Seq(S)
  <2>1. p \in [1..Len(p) -> Range(p)] /\ q \in [1..Len(q) -> Range(q)] /\ Len(p) \in Nat /\ Len(q) \in Nat
    BY DEF IsList
  <2> QED
    BY <2>1
<1> HIDE DEF S
<1>2. /\ p \o q \in Seq(S) /\ Len(p \o q) = Len(p) + Len(q) /\ Len(p) \in Nat /\ Len(q) \in Nat
      /\ DOMAIN (p \o q) = 1..(Len(p) + Len(q)) /\ DOMAIN p = 1..Len(p) /\ DOMAIN q = 1..Len(q)
      /\ \A l \in 1..Len(p) : (p \o q)[l] = p[l]
      /\ \A l \in (Len(p) + 1)..(Len(p) + Len(q)) : (p \o q)[l] = q[l - Len(p)]
  BY <1>1
<1>3. Range(p \o q) \subseteq S /\ IsList(p \o q)
  BY <1>2, ListOf
<1>4. ASSUME NEW x \in S PROVE x \in Range(p \o q)
  <2>1. CASE \E l \in 1..Len(p) : p[l] = x
    <3>1. PICK l \in 1..Len(p) : p[l] = x
      BY <2>1
    <3>2. l \in DOMAIN (p \o q) /\ (p \o q)[l] = x
      BY <3>1, <1>2
    <3> QED
      BY <3>2 DEF Range
  <2>2. CASE \E l \in 1..Len(q) : q[l] = x
    <3>1. PICK l \in 1..Len(q) : q[l] = x
      BY <2>2
    <3>2. l + Len(p) \in DOMAIN (p \o q) /\ (p \o q)[l + Len(p)] = x
      BY <3>1, <1>2
    <3> QED
      BY <3>2 DEF Range
  <2> QED
    BY <1>2, <1>4, <2>1, <2>2 DEF S, Range
<1> QED
  BY <1>2, <1>3, <1>4 DEF S

\* A set of which every element is listed once.
LEMMA ListEach ==
  ASSUME NEW S, IsFiniteSet(S)
  PROVE  /\ IsList(SetToSeq(S)) /\ Range(SetToSeq(S)) = S
         /\ \A j, l \in DOMAIN SetToSeq(S) : SetToSeq(S)[j] = SetToSeq(S)[l] => j = l
<1> DEFINE n == Cardinality(S)
           q == SetToSeq(S)
<1>1. n \in Nat /\ ExistsBijection(1..n, S)
  BY FS_CardinalityType
<1>2. \E f \in [1..n -> S] : IsInjective(f)
  BY <1>1 DEF ExistsBijection, Bijection, Injection
<1>3. q \in [1..n -> S] /\ IsInjective(q)
  BY <1>2 DEF SetToSeq
<1>4. ASSUME NEW x \in S, \A j \in 1..n : q[j] # x PROVE FALSE
  <2>1. IsFiniteSet(S \ {x}) /\ Cardinality(S \ {x}) = n - 1
    BY FS_RemoveElement
  <2>2. IsFiniteSet(1..n) /\ Cardinality(1..n) = n
    BY <1>1, FS_Interval
  <2>3. q \in [1..n -> S \ {x}]
    BY <1>3, <1>4
  <2>4. \E j, l \in 1..n : j # l /\ q[j] = q[l]
    BY <2>1, <2>2, <2>3, <1>1, FS_PigeonHole
  <2> QED
    BY <2>4, <1>3 DEF IsInjective
<1>5. q \in Seq(S)
  BY <1>1, <1>3
<1>6. DOMAIN q = 1..n
  BY <1>3
<1>7. S \subseteq Range(q)
  BY <1>4, <1>6 DEF Range
<1> QED
  BY <1>3, <1>5, <1>6, <1>7, ListOf DEF IsInjective

-----------------------------------------------------------------------------
(* The order of a plan                                                     *)

RecordSteps == {"CreateRecord", "UpdateRecord", "DeleteRecord"}
LoginSteps  == {"CreateApp", "UpdateApp", "DeleteApp"}

\* A login goes up before the rule and the record, and comes down after them.
Rank(s) ==
  CASE s.op = "CreateTunnel" -> 1
    [] s.op \in {"CreateApp", "UpdateApp"} -> 2
    [] s.op = "PutConfig" -> 3
    [] s.op \in {"CreateRecord", "UpdateRecord"} -> 4
    [] s.op = "DeleteRecord" -> 5
    [] s.op = "DeleteApp" -> 6
    [] s.op = "StopConnector" -> 7
    [] OTHER -> 8

\* What a step is about: a plan has one tunnel.
Spot(s) ==
  CASE s.op \in RecordSteps -> Item("dns", s.host)
    [] s.op \in LoginSteps -> Item("login", s.key)
    [] s.op = "PutConfig" -> Item("config", None)
    [] s.op = "StopConnector" -> Item("connector", None)
    [] OTHER -> Item("tunnel", None)

Ordered(p) ==
  \A j, l \in DOMAIN p : j < l => Rank(p[j]) <= Rank(p[l]) /\ Spot(p[j]) # Spot(p[l])

\* Part of a plan, with the ranks of its steps.
Part(p, R) == IsList(p) /\ Ordered(p) /\ \A s \in Range(p) : Rank(s) \in R

\* No step is a part of every plan.
LEMMA PartNone == ASSUME NEW R PROVE Part(<<>>, R) /\ Range(<<>>) = {}
<1>1. <<>> \in Seq({}) /\ DOMAIN <<>> = {}
  OBVIOUS
<1>2. IsList(<<>>) /\ Range(<<>>) = {}
  BY <1>1, ListOf DEF Range
<1> QED
  BY <1>1, <1>2 DEF Part, Ordered

\* One step is.
LEMMA PartOne ==
  ASSUME NEW s, NEW R, Rank(s) \in R
  PROVE  Part(<<s>>, R) /\ Range(<<s>>) = {s}
<1>1. <<s>> \in Seq({s}) /\ DOMAIN <<s>> = {1} /\ <<s>>[1] = s
  OBVIOUS
<1>2. IsList(<<s>>)
  BY <1>1, ListOf
<1>3. Range(<<s>>) = {s}
  BY <1>1 DEF Range
<1> QED
  BY <1>1, <1>2, <1>3 DEF Part, Ordered

\* Parts whose ranks follow one another, about different things, make a part.
LEMMA PartsJoined ==
  ASSUME NEW p, NEW q, NEW R \in SUBSET Nat, NEW T \in SUBSET Nat, Part(p, R), Part(q, T),
         \A m \in R, n \in T : m < n,
         \A s \in Range(p), u \in Range(q) : Spot(s) # Spot(u)
  PROVE  Part(p \o q, R \cup T) /\ Range(p \o q) = Range(p) \cup Range(q)
<1>1. /\ IsList(p \o q)
      /\ Range(p \o q) = Range(p) \cup Range(q)
      /\ Len(p \o q) = Len(p) + Len(q) /\ Len(p) \in Nat /\ Len(q) \in Nat
      /\ DOMAIN (p \o q) = 1..(Len(p) + Len(q)) /\ DOMAIN p = 1..Len(p) /\ DOMAIN q = 1..Len(q)
      /\ \A l \in 1..Len(p) : (p \o q)[l] = p[l]
      /\ \A l \in (Len(p) + 1)..(Len(p) + Len(q)) : (p \o q)[l] = q[l - Len(p)]
  BY ListConcat DEF Part
<1> DEFINE r == p \o q
<1>2. ASSUME NEW j \in DOMAIN r, NEW l \in DOMAIN r, j < l
      PROVE  Rank(r[j]) <= Rank(r[l]) /\ Spot(r[j]) # Spot(r[l])
  <2>1. CASE l <= Len(p)
    BY <2>1, <1>1, <1>2 DEF Part, Ordered
  <2>2. CASE j > Len(p)
    <3>1. /\ j - Len(p) \in DOMAIN q /\ l - Len(p) \in DOMAIN q /\ j - Len(p) < l - Len(p)
          /\ r[j] = q[j - Len(p)] /\ r[l] = q[l - Len(p)]
      BY <2>2, <1>1, <1>2
    <3> HIDE DEF r
    <3> QED
      BY <3>1 DEF Part, Ordered
  <2>3. CASE j <= Len(p) /\ l > Len(p)
    <3>1. j \in DOMAIN p /\ l - Len(p) \in DOMAIN q /\ r[j] = p[j] /\ r[l] = q[l - Len(p)]
      BY <2>3, <1>1, <1>2
    <3> HIDE DEF r
    <3>2. r[j] \in Range(p) /\ r[l] \in Range(q)
      BY <3>1 DEF Range
    <3>3. Rank(r[j]) < Rank(r[l]) /\ Rank(r[j]) \in Nat /\ Rank(r[l]) \in Nat
      BY <3>2 DEF Part
    <3> QED
      BY <3>2, <3>3
  <2> QED
    BY <2>1, <2>2, <2>3, <1>1, <1>2
<1>3. \A s \in Range(r) : Rank(s) \in R \cup T
  BY <1>1 DEF Part
<1> QED
  BY <1>1, <1>2, <1>3 DEF Part, Ordered

-----------------------------------------------------------------------------
(* What each part of a plan holds                                          *)

\* What makes a tunnel where there is none.
LEMMA TunnelPart ==
  ASSUME NEW s
  PROVE  /\ Part(EnsureTunnel(s), {1})
         /\ Range(EnsureTunnel(s)) = IF s.tunnel = None THEN {CreateTunnel} ELSE {}
  BY PartNone, PartOne DEF EnsureTunnel, CreateTunnel, Step, Rank

\* What puts a login in front of a route.
LEMMA LoginPart ==
  ASSUME NEW s, NEW k, NEW who
  PROVE  /\ Part(Protect(s, k, who), {2})
         /\ Range(Protect(s, k, who)) = 
              IF who = None THEN {}
              ELSE IF s.login[k] = None THEN {CreateApp(k, who)}
              ELSE IF s.login[k].who = who THEN {} ELSE {UpdateApp(k, who, s.login[k])}
  BY PartNone, PartOne DEF Protect, CreateApp, UpdateApp, Rank

\* What writes the rules.
LEMMA ConfigPart ==
  ASSUME NEW s, NEW r
  PROVE  /\ Part(WriteRules(s, r), {3})
         /\ Range(WriteRules(s, r)) = 
              IF r = s.rules THEN {}
              ELSE {PutConfig(TunnelRef(s), r, IF s.tunnel = None THEN None ELSE s.version, s.rules)}
  BY PartNone, PartOne DEF WriteRules, PutConfig, Rank

\* What makes a hostname resolve to the tunnel.
LEMMA RecordPart ==
  ASSUME NEW s, NEW h
  PROVE  /\ Part(EnsureDns(s, h), {4})
         /\ Range(EnsureDns(s, h)) = 
              IF PointsHere(s, h) THEN {}
              ELSE IF s.dns[h] = None THEN {CreateRecord(h, TunnelRef(s))}
              ELSE {UpdateRecord(h, TunnelRef(s), s.dns[h])}
  BY PartNone, PartOne DEF EnsureDns, CreateRecord, UpdateRecord, Rank

\* What lets go of a hostname.
LEMMA ReleasePart ==
  ASSUME NEW s, NEW h
  PROVE  /\ Part(ReleaseDns(s, h), {5})
         /\ Range(ReleaseDns(s, h)) = IF Releases(s, h) THEN {DeleteRecord(h, s.dns[h])} ELSE {}
  BY PartNone, PartOne DEF ReleaseDns, DeleteRecord, Rank

\* What takes a login off a route.
LEMMA UnprotectPart ==
  ASSUME NEW s, NEW k
  PROVE  /\ Part(Unprotect(s, k), {6})
         /\ Range(Unprotect(s, k)) = IF Owns(s, k) THEN {DeleteApp(k, s.login[k])} ELSE {}
  BY PartNone, PartOne DEF Unprotect, DeleteApp, Rank

\* What steps of a rank are about.
Kind(n) ==
  CASE n \in {2, 6} -> "login" [] n = 3 -> "config" [] n \in {4, 5} -> "dns"
    [] n = 7 -> "connector" [] OTHER -> "tunnel"

\* Steps of different kinds are about different things.
LEMMA SpotsApart ==
  ASSUME NEW s, NEW u, Kind(Rank(s)) # Kind(Rank(u))
  PROVE  Spot(s) # Spot(u)
<1>1. \A y : Spot(y).what = Kind(Rank(y))
  <2> TAKE y
  <2>1. CASE y.op \in RecordSteps
    BY <2>1 DEF Spot, Item, Rank, Kind, RecordSteps, LoginSteps
  <2>2. CASE y.op \in LoginSteps
    BY <2>2 DEF Spot, Item, Rank, Kind, RecordSteps, LoginSteps
  <2>3. CASE y.op \notin RecordSteps \cup LoginSteps
    <3>1. Rank(y) \in {1, 3, 7, 8} /\ (Rank(y) = 3 <=> y.op = "PutConfig")
          /\ (Rank(y) = 7 <=> y.op = "StopConnector")
      BY <2>3 DEF Rank, RecordSteps, LoginSteps
    <3>2. Spot(y).what = IF Rank(y) = 3 THEN "config" ELSE IF Rank(y) = 7 THEN "connector" ELSE "tunnel"
      BY <2>3, <3>1 DEF Spot, Item
    <3> QED
      BY <3>1, <3>2 DEF Kind
  <2> QED
    BY <2>1, <2>2, <2>3
<1> QED
  BY <1>1

\* The records a tunnel's removal deletes, in some order.
LEMMA RecordsPart ==
  ASSUME NEW s, NEW S \in SUBSET Hosts
  PROVE  LET D == {DeleteRecord(h, s.dns[h]) : h \in S}
         IN  Part(SetToSeq(D), {5}) /\ Range(SetToSeq(D)) = D
<1> DEFINE D == {DeleteRecord(h, s.dns[h]) : h \in S}
           q == SetToSeq(D)
<1>1. IsFiniteSet(S)
  BY AccountAssumption, FS_Subset
<1>2. IsFiniteSet(D)
  <2> DEFINE f == [h \in S |-> DeleteRecord(h, s.dns[h])]
  <2>1. f \in Surjection(S, D)
    BY DEF Surjection
  <2> QED
    BY <1>1, <2>1, FS_Surjection
<1>3. IsList(q) /\ Range(q) = D /\ \A j, l \in DOMAIN q : q[j] = q[l] => j = l
  BY <1>2, ListEach
<1>4. \A x \in D : Rank(x) = 5
  BY DEF DeleteRecord, Rank
<1>5. ASSUME NEW x \in D, NEW y \in D, x # y PROVE Spot(x) # Spot(y)
  <2>1. PICK h \in S : x = DeleteRecord(h, s.dns[h])
    OBVIOUS
  <2>2. PICK g \in S : y = DeleteRecord(g, s.dns[g])
    OBVIOUS
  <2>3. h # g
    BY <1>5, <2>1, <2>2
  <2>4. Spot(x) = Item("dns", h) /\ Spot(y) = Item("dns", g)
    BY <2>1, <2>2 DEF DeleteRecord, Spot, RecordSteps, LoginSteps
  <2> QED
    BY <2>3, <2>4 DEF Item
<1>6. \A j \in DOMAIN q : q[j] \in D
  BY <1>3 DEF Range
<1>7. DOMAIN q \subseteq Nat
  BY <1>3, ListOf DEF IsList
<1> HIDE DEF q, D
<1>8. Ordered(q)
  BY <1>3, <1>4, <1>5, <1>6, <1>7 DEF Ordered
<1> QED
  BY <1>3, <1>4, <1>8 DEF Part, D, q

\* The logins it deletes, in some order.
LEMMA LoginsPart ==
  ASSUME NEW s, NEW S \in SUBSET Keys
  PROVE  LET D == {DeleteApp(k, s.login[k]) : k \in S}
         IN  Part(SetToSeq(D), {6}) /\ Range(SetToSeq(D)) = D
<1> DEFINE D == {DeleteApp(k, s.login[k]) : k \in S}
           q == SetToSeq(D)
<1>1. IsFiniteSet(S)
  BY AccountAssumption, FS_Subset
<1>2. IsFiniteSet(D)
  <2> DEFINE f == [k \in S |-> DeleteApp(k, s.login[k])]
  <2>1. f \in Surjection(S, D)
    BY DEF Surjection
  <2> QED
    BY <1>1, <2>1, FS_Surjection
<1>3. IsList(q) /\ Range(q) = D /\ \A j, l \in DOMAIN q : q[j] = q[l] => j = l
  BY <1>2, ListEach
<1>4. \A x \in D : Rank(x) = 6
  BY DEF DeleteApp, Rank
<1>5. ASSUME NEW x \in D, NEW y \in D, x # y PROVE Spot(x) # Spot(y)
  <2>1. PICK h \in S : x = DeleteApp(h, s.login[h])
    OBVIOUS
  <2>2. PICK g \in S : y = DeleteApp(g, s.login[g])
    OBVIOUS
  <2>3. h # g
    BY <1>5, <2>1, <2>2
  <2>4. Spot(x) = Item("login", h) /\ Spot(y) = Item("login", g)
    BY <2>1, <2>2 DEF DeleteApp, Spot, RecordSteps, LoginSteps
  <2> QED
    BY <2>3, <2>4 DEF Item
<1>6. \A j \in DOMAIN q : q[j] \in D
  BY <1>3 DEF Range
<1>7. DOMAIN q \subseteq Nat
  BY <1>3, ListOf DEF IsList
<1> HIDE DEF q, D
<1>8. Ordered(q)
  BY <1>3, <1>4, <1>5, <1>6, <1>7 DEF Ordered
<1> QED
  BY <1>3, <1>4, <1>8 DEF Part, D, q

-----------------------------------------------------------------------------
(* The steps of each plan                                                  *)

\* What comes after another part, and is about other things.
Follows(R, T) ==
  R \subseteq Nat /\ T \subseteq Nat /\ \A m \in R, n \in T : m < n /\ Kind(m) # Kind(n)

\* Parts of different kinds are about different things.
LEMMA PartsApart ==
  ASSUME NEW p, NEW q, NEW R, NEW T, NEW U, Part(p, R), Part(q, T), Follows(R, T), U = R \cup T
  PROVE  Part(p \o q, U) /\ Range(p \o q) = Range(p) \cup Range(q)
<1>1. ASSUME NEW s \in Range(p), NEW u \in Range(q) PROVE Spot(s) # Spot(u)
  <2>1. Rank(s) \in R /\ Rank(u) \in T
    BY DEF Part
  <2> QED
    BY <2>1, SpotsApart DEF Follows
<1> QED
  BY <1>1, PartsJoined DEF Follows

\* The kind of thing each rank is about.
LEMMA Kinds ==
  /\ Kind(1) = "tunnel" /\ Kind(2) = "login" /\ Kind(3) = "config" /\ Kind(4) = "dns"
  /\ Kind(5) = "dns" /\ Kind(6) = "login" /\ Kind(7) = "connector" /\ Kind(8) = "tunnel"
  BY DEF Kind

\* The steps of a new route, in the order of their ranks.
LEMMA AddRoutePlan ==
  ASSUME NEW i \in AllIntents, i.kind = "AddRoute", NEW s, ~Plan(i, s).refused
  PROVE  LET p == Plan(i, s).steps
             k == i.key
         IN  /\ Part(p, {1, 2, 3, 4})
             /\ Range(p) = Range(EnsureTunnel(s)) \cup Range(Protect(s, k, i.who))
                  \cup (IF Routes(s)[k] = {}
                         THEN Range(WriteRules(s, [Routes(s) EXCEPT ![k] = {i.origin}])) ELSE {})
                  \cup Range(EnsureDns(s, HostOf[k]))
<1> DEFINE k == i.key
           w == IF Routes(s)[k] = {} THEN WriteRules(s, [Routes(s) EXCEPT ![k] = {i.origin}]) ELSE <<>>
           p1 == EnsureTunnel(s)
           p2 == Protect(s, k, i.who)
           p4 == EnsureDns(s, HostOf[k])
<1>1. Plan(i, s).steps = ((p1 \o p2) \o w) \o p4
  BY DEF Plan, PlanAddRoute, Planned, Refused
<1>2. Part(p1, {1}) /\ Part(p2, {2}) /\ Part(p4, {4})
  BY TunnelPart, LoginPart, RecordPart
<1>3. Part(w, {3}) /\ Range(w) = IF Routes(s)[k] = {}
                         THEN Range(WriteRules(s, [Routes(s) EXCEPT ![k] = {i.origin}])) ELSE {}
  BY ConfigPart, PartNone
<1> HIDE DEF w, p1, p2, p4
<1>4. Follows({1}, {2}) /\ {1, 2} = {1} \cup {2}
  BY Kinds DEF Follows
<1> DEFINE r2 == p1 \o p2
           r3 == r2 \o w
           r4 == r3 \o p4
<1>5. Part(r2, {1, 2}) /\ Range(r2) = Range(p1) \cup Range(p2)
  BY <1>2, <1>4, PartsApart
<1>6. Follows({1, 2}, {3}) /\ {1, 2, 3} = {1, 2} \cup {3}
  BY Kinds DEF Follows
<1> HIDE DEF r2
<1>7. Part(r3, {1, 2, 3}) /\ Range(r3) = Range(r2) \cup Range(w)
  BY <1>5, <1>3, <1>6, PartsApart
<1>8. Follows({1, 2, 3}, {4}) /\ {1, 2, 3, 4} = {1, 2, 3} \cup {4}
  BY Kinds DEF Follows
<1> HIDE DEF r3
<1>9. Part(r4, {1, 2, 3, 4}) /\ Range(r4) = Range(r3) \cup Range(p4)
  BY <1>7, <1>2, <1>8, PartsApart
<1>10. Plan(i, s).steps = r4
  BY <1>1 DEF r3, r2
<1> HIDE DEF r4
<1> QED
  BY <1>10, <1>3, <1>5, <1>7, <1>9 DEF p1, p2, p4

\* The steps of a changed route.
LEMMA UpdateRoutePlan ==
  ASSUME NEW i \in AllIntents, i.kind = "UpdateRoute", NEW s, ~Plan(i, s).refused
  PROVE  LET p == Plan(i, s).steps
             old == HostOf[i.key]
             new == HostOf[i.to]
         IN  /\ Part(p, {2, 3, 4, 5, 6})
             /\ Range(p) = Range(Protect(s, i.to, i.who))
                  \cup Range(WriteRules(s, [Routes(s) EXCEPT ![i.key] = {}, ![i.to] = @ \cup {i.origin}]))
                  \cup Range(EnsureDns(s, new))
                  \cup (IF old # new /\ LastOfHost(s, i.key) THEN Range(ReleaseDns(s, old)) ELSE {})
                  \cup (IF i.who # None /\ i.to = i.key THEN {} ELSE Range(Unprotect(s, i.key)))
<1> DEFINE old == HostOf[i.key]
           new == HostOf[i.to]
           p2 == Protect(s, i.to, i.who)
           p3 == WriteRules(s, [Routes(s) EXCEPT ![i.key] = {}, ![i.to] = @ \cup {i.origin}])
           p4 == EnsureDns(s, new)
           p5 == IF old # new /\ LastOfHost(s, i.key) THEN ReleaseDns(s, old) ELSE <<>>
           p6 == IF i.who # None /\ i.to = i.key THEN <<>> ELSE Unprotect(s, i.key)
<1>1. Plan(i, s).steps = (((p2 \o p3) \o p4) \o p5) \o p6
  BY DEF Plan, PlanUpdateRoute, Planned, Refused
<1>2. Part(p2, {2}) /\ Part(p3, {3}) /\ Part(p4, {4})
  BY LoginPart, ConfigPart, RecordPart
<1>3. Part(p5, {5})
      /\ Range(p5) = IF old # new /\ LastOfHost(s, i.key) THEN Range(ReleaseDns(s, old)) ELSE {}
  BY ReleasePart, PartNone
<1>4. Part(p6, {6})
      /\ Range(p6) = IF i.who # None /\ i.to = i.key THEN {} ELSE Range(Unprotect(s, i.key))
  BY UnprotectPart, PartNone
<1>5. ASSUME NEW x \in Range(p4), NEW y \in Range(p5) PROVE Spot(x) # Spot(y)
  <2>1. old # new /\ y = DeleteRecord(old, s.dns[old])
    BY <1>3, ReleasePart
  <2>2. x = CreateRecord(new, TunnelRef(s)) \/ x = UpdateRecord(new, TunnelRef(s), s.dns[new])
    BY RecordPart
  <2>3. Spot(x) = Item("dns", new) /\ Spot(y) = Item("dns", old)
    BY <2>1, <2>2 DEF CreateRecord, UpdateRecord, DeleteRecord, Spot, RecordSteps, LoginSteps
  <2> QED
    BY <2>1, <2>3 DEF Item
<1>6. ASSUME NEW x \in Range(p2), NEW y \in Range(p6) PROVE Spot(x) # Spot(y)
  <2>1. ~(i.who # None /\ i.to = i.key) /\ y = DeleteApp(i.key, s.login[i.key])
    BY <1>4, UnprotectPart
  <2>2. i.who # None /\ (x = CreateApp(i.to, i.who) \/ x = UpdateApp(i.to, i.who, s.login[i.to]))
    BY LoginPart
  <2>3. Spot(x) = Item("login", i.to) /\ Spot(y) = Item("login", i.key)
    BY <2>1, <2>2 DEF CreateApp, UpdateApp, DeleteApp, Spot, RecordSteps, LoginSteps
  <2> QED
    BY <2>1, <2>2, <2>3 DEF Item
<1> HIDE DEF p2, p3, p4, p5, p6
<1> DEFINE r2 == p2 \o p3
           r3 == r2 \o p4
           r4 == r3 \o p5
           r5 == r4 \o p6
<1>7. Follows({2}, {3}) /\ {2, 3} = {2} \cup {3} /\ Follows({2, 3}, {4})
      /\ {2, 3, 4} = {2, 3} \cup {4}
  BY Kinds DEF Follows
<1>8. Part(r2, {2, 3}) /\ Range(r2) = Range(p2) \cup Range(p3)
  BY <1>2, <1>7, PartsApart
<1> HIDE DEF r2
<1>9. Part(r3, {2, 3, 4}) /\ Range(r3) = Range(r2) \cup Range(p4)
  BY <1>2, <1>7, <1>8, PartsApart
<1> HIDE DEF r3
<1>10. Part(r4, {2, 3, 4, 5}) /\ Range(r4) = Range(r3) \cup Range(p5)
  <2>1. ASSUME NEW x \in Range(r3), NEW y \in Range(p5) PROVE Spot(x) # Spot(y)
    <3>1. CASE x \in Range(p4)
      BY <3>1, <1>5
    <3>2. CASE x \in Range(p2) \cup Range(p3)
      <4>1. Rank(x) \in {2, 3} /\ Rank(y) = 5
        BY <3>2, <1>2, <1>3 DEF Part
      <4> QED
        BY <4>1, SpotsApart, Kinds
    <3> QED
      BY <3>1, <3>2, <1>8, <1>9
  <2>2. /\ {2, 3, 4} \in SUBSET Nat /\ {5} \in SUBSET Nat /\ \A m \in {2, 3, 4}, n \in {5} : m < n
        /\ {2, 3, 4, 5} = {2, 3, 4} \cup {5}
    OBVIOUS
  <2> QED
    BY <2>1, <2>2, <1>3, <1>9, PartsJoined
<1> HIDE DEF r4
<1>11. Part(r5, {2, 3, 4, 5, 6}) /\ Range(r5) = Range(r4) \cup Range(p6)
  <2>1. ASSUME NEW x \in Range(r4), NEW y \in Range(p6) PROVE Spot(x) # Spot(y)
    <3>1. CASE x \in Range(p2)
      BY <3>1, <1>6
    <3>2. CASE x \in Range(p3) \cup Range(p4) \cup Range(p5)
      <4>1. Rank(x) \in {3, 4, 5} /\ Rank(y) = 6
        BY <3>2, <1>2, <1>3, <1>4 DEF Part
      <4> QED
        BY <4>1, SpotsApart, Kinds
    <3> QED
      BY <3>1, <3>2, <1>8, <1>9, <1>10
  <2>2. /\ {2, 3, 4, 5} \in SUBSET Nat /\ {6} \in SUBSET Nat
        /\ \A m \in {2, 3, 4, 5}, n \in {6} : m < n
        /\ {2, 3, 4, 5, 6} = {2, 3, 4, 5} \cup {6}
    OBVIOUS
  <2> QED
    BY <2>1, <2>2, <1>4, <1>10, PartsJoined
<1>12. Plan(i, s).steps = r5
  BY <1>1 DEF r4, r3, r2
<1> HIDE DEF r5
<1> QED
  BY <1>12, <1>3, <1>4, <1>8, <1>9, <1>10, <1>11 DEF p2, p3, p4

\* The steps of a route's removal.
LEMMA RemoveRoutePlan ==
  ASSUME NEW i \in AllIntents, i.kind = "RemoveRoute", NEW s, ~Plan(i, s).refused
  PROVE  LET p == Plan(i, s).steps
         IN  /\ Part(p, {3, 5, 6})
             /\ Range(p) = Range(WriteRules(s, [Routes(s) EXCEPT ![i.key] = {}]))
                  \cup (IF LastOfHost(s, i.key) THEN Range(ReleaseDns(s, HostOf[i.key])) ELSE {})
                  \cup Range(Unprotect(s, i.key))
<1> DEFINE p3 == WriteRules(s, [Routes(s) EXCEPT ![i.key] = {}])
           p5 == IF LastOfHost(s, i.key) THEN ReleaseDns(s, HostOf[i.key]) ELSE <<>>
           p6 == Unprotect(s, i.key)
<1>1. Plan(i, s).steps = (p3 \o p5) \o p6
  BY DEF Plan, PlanRemoveRoute, Planned, Refused
<1>2. Part(p3, {3}) /\ Part(p6, {6})
  BY ConfigPart, UnprotectPart
<1>3. Part(p5, {5})
      /\ Range(p5) = IF LastOfHost(s, i.key) THEN Range(ReleaseDns(s, HostOf[i.key])) ELSE {}
  BY ReleasePart, PartNone
<1> HIDE DEF p3, p5, p6
<1> DEFINE r2 == p3 \o p5
           r3 == r2 \o p6
<1>4. Follows({3}, {5}) /\ {3, 5} = {3} \cup {5} /\ Follows({3, 5}, {6})
      /\ {3, 5, 6} = {3, 5} \cup {6}
  BY Kinds DEF Follows
<1>5. Part(r2, {3, 5}) /\ Range(r2) = Range(p3) \cup Range(p5)
  BY <1>2, <1>3, <1>4, PartsApart
<1> HIDE DEF r2
<1>6. Part(r3, {3, 5, 6}) /\ Range(r3) = Range(r2) \cup Range(p6)
  BY <1>2, <1>4, <1>5, PartsApart
<1>7. Plan(i, s).steps = r3
  BY <1>1 DEF r2
<1> HIDE DEF r3
<1> QED
  BY <1>7, <1>3, <1>5, <1>6 DEF p3, p6

\* The steps of a tunnel's removal.
LEMMA RemoveTunnelPlan ==
  ASSUME NEW i \in AllIntents, i.kind = "RemoveTunnel", NEW s, ~Plan(i, s).refused
  PROVE  LET p == Plan(i, s).steps
             routed == {HostOf[k] : k \in {j \in Keys : Routes(s)[j] # {}}}
         IN  /\ Part(p, {3, 5, 6, 7, 8})
             /\ Range(p) = (IF routed = {} THEN {} ELSE Range(WriteRules(s, NoRules)))
                  \cup {DeleteRecord(h, s.dns[h]) : h \in {g \in routed : Releases(s, g)}}
                  \cup {DeleteApp(k, s.login[k]) : k \in {j \in Keys : Owns(s, j)}}
                  \cup {StopConnector(s.tunnel), DeleteTunnel(s.tunnel)}
<1> DEFINE routed == {HostOf[k] : k \in {j \in Keys : Routes(s)[j] # {}}}
           R == {g \in routed : Releases(s, g)}
           L == {j \in Keys : Owns(s, j)}
           p3 == IF routed = {} THEN <<>> ELSE WriteRules(s, NoRules)
           p5 == SetToSeq({DeleteRecord(h, s.dns[h]) : h \in R})
           p6 == SetToSeq({DeleteApp(k, s.login[k]) : k \in L})
           p7 == <<StopConnector(s.tunnel)>>
           p8 == <<DeleteTunnel(s.tunnel)>>
           p78 == <<StopConnector(s.tunnel), DeleteTunnel(s.tunnel)>>
<1>1. Plan(i, s).steps = ((p3 \o p5) \o p6) \o p78
  BY DEF Plan, PlanRemoveTunnel, Planned, Refused
<1>2. R \in SUBSET Hosts /\ L \in SUBSET Keys
  BY AccountAssumption
<1>3. Part(p5, {5}) /\ Range(p5) = {DeleteRecord(h, s.dns[h]) : h \in R}
  BY <1>2, RecordsPart
<1>4. Part(p6, {6}) /\ Range(p6) = {DeleteApp(k, s.login[k]) : k \in L}
  BY <1>2, LoginsPart
<1>5. Part(p3, {3}) /\ Range(p3) = IF routed = {} THEN {} ELSE Range(WriteRules(s, NoRules))
  BY ConfigPart, PartNone
<1>6. /\ Part(p7, {7}) /\ Range(p7) = {StopConnector(s.tunnel)}
      /\ Part(p8, {8}) /\ Range(p8) = {DeleteTunnel(s.tunnel)}
  <2>1. Rank(StopConnector(s.tunnel)) = 7 /\ Rank(DeleteTunnel(s.tunnel)) = 8
    BY DEF StopConnector, DeleteTunnel, Rank
  <2> QED
    BY <2>1, PartOne
<1>7. p78 = p7 \o p8
  OBVIOUS
<1> HIDE DEF p3, p5, p6, p7, p8, p78
<1>8. /\ Follows({7}, {8}) /\ {7, 8} = {7} \cup {8}
      /\ Follows({3}, {5}) /\ {3, 5} = {3} \cup {5}
      /\ Follows({3, 5}, {6}) /\ {3, 5, 6} = {3, 5} \cup {6}
      /\ Follows({3, 5, 6}, {7, 8}) /\ {3, 5, 6, 7, 8} = {3, 5, 6} \cup {7, 8}
  BY Kinds DEF Follows
<1>9. Part(p78, {7, 8}) /\ Range(p78) = Range(p7) \cup Range(p8)
  BY <1>6, <1>7, <1>8, PartsApart
<1> DEFINE r2 == p3 \o p5
           r3 == r2 \o p6
           r4 == r3 \o p78
<1>10. Part(r2, {3, 5}) /\ Range(r2) = Range(p3) \cup Range(p5)
  BY <1>3, <1>5, <1>8, PartsApart
<1> HIDE DEF r2
<1>11. Part(r3, {3, 5, 6}) /\ Range(r3) = Range(r2) \cup Range(p6)
  BY <1>4, <1>8, <1>10, PartsApart
<1> HIDE DEF r3
<1>12. Part(r4, {3, 5, 6, 7, 8}) /\ Range(r4) = Range(r3) \cup Range(p78)
  BY <1>8, <1>9, <1>11, PartsApart, ZenonT(60)
<1>13. Plan(i, s).steps = r4
  BY <1>1 DEF r3, r2
<1> HIDE DEF r4
<1> QED
  BY <1>13, <1>12, <1>11, <1>10, <1>9, <1>6, <1>5, <1>4, <1>3

-----------------------------------------------------------------------------
(* What each step of a plan rests on                                       *)

\* The configuration this machine's tunnel has.
Configured(a) == IF MyTunnel(a) = None THEN Unset ELSE a.tunnels[MyTunnel(a)].rules
Pointing(a, h) == MyTunnel(a) # None /\ a.dns[h] # None /\ a.dns[h].to = MyTunnel(a)

\* A step that follows from account a, with x in the place of the plan's tunnel.
Grounded(st, a, x) ==
  \/ st = CreateTunnel /\ MyTunnel(a) = None
  \/ \E r \in Rules, v \in Nat \cup {None} : st = PutConfig(x, r, v, Configured(a))
  \/ \E h \in Hosts : a.dns[h] = None /\ st = CreateRecord(h, x)
  \/ \E h \in Hosts : a.dns[h] # None /\ ~Pointing(a, h) /\ st = UpdateRecord(h, x, a.dns[h])
  \/ \E h \in Hosts : a.dns[h] # None /\ a.dns[h].owned /\ st = DeleteRecord(h, a.dns[h])
  \/ \E k \in Keys, w \in People : a.login[k] = None /\ st = CreateApp(k, w)
  \/ \E k \in Keys, w \in People :
       a.login[k] # None /\ a.login[k].owned /\ st = UpdateApp(k, w, a.login[k])
  \/ \E k \in Keys : a.login[k] # None /\ a.login[k].owned /\ st = DeleteApp(k, a.login[k])
  \/ st = StopConnector(x) /\ MyTunnel(a) # None
  \/ st = DeleteTunnel(x) /\ MyTunnel(a) # None

\* What an intent is made of.
LEMMA IntentTypes ==
  ASSUME NEW i \in AllIntents
  PROVE  \/ i.kind = "AddRoute" /\ i.key \in Keys /\ i.origin \in Origins
            /\ i.who \in People \cup {None}
         \/ i.kind = "UpdateRoute" /\ i.key \in Keys /\ i.to \in Keys /\ i.origin \in Origins
            /\ i.who \in People \cup {None}
         \/ i.kind = "RemoveRoute" /\ i.key \in Keys
         \/ i.kind = "RemoveTunnel"
  BY DEF AllIntents, AddRoute, UpdateRoute, RemoveRoute, RemoveMyTunnel

\* An observation is the account's, of what it looks at.
LEMMA Observed ==
  ASSUME NEW i \in AllIntents, NEW a \in Accounts, NEW s, s = Observe(i, a)
  PROVE  /\ s.tunnel = MyTunnel(a) /\ s.rules = Configured(a) /\ s.version \in Nat
         /\ MyTunnel(a) \in Tunnels \cup {None} /\ Configured(a) \in Rules \cup {Unset}
         /\ MyTunnel(a) # None => a.machine = MyTunnel(a) /\ a.tunnels[MyTunnel(a)] # None
                                  /\ MyTunnel(a) \in a.used
         /\ Routes(s) \in Rules /\ Routes(s) = RulesOf(a, MyTunnel(a))
         /\ \A h \in Hosts : s.dns[h] = IF h \in HostsOf(i, a) THEN a.dns[h] ELSE None
         /\ \A k \in Keys : s.login[k] = IF k \in Domains(i, a) THEN a.login[k] ELSE None
         /\ \A h \in Hosts : s.dns[h] # None => s.dns[h] = a.dns[h]
         /\ \A k \in Keys : s.login[k] # None => s.login[k] = a.login[k]
<1>1. /\ s.tunnel = MyTunnel(a)
      /\ s.version = IF MyTunnel(a) = None THEN 0 ELSE a.tunnels[MyTunnel(a)].version
      /\ s.rules = IF MyTunnel(a) = None THEN Unset ELSE a.tunnels[MyTunnel(a)].rules
      /\ s.dns = [h \in Hosts |-> IF h \in HostsOf(i, a) THEN a.dns[h] ELSE None]
      /\ s.login = [k \in Keys |-> IF k \in Domains(i, a) THEN a.login[k] ELSE None]
  BY DEF Observe
<1>2. /\ MyTunnel(a) \in Tunnels \cup {None}
      /\ MyTunnel(a) # None => a.machine = MyTunnel(a) /\ a.tunnels[MyTunnel(a)] # None
                               /\ MyTunnel(a) \in a.used
  BY AccountTypes DEF MyTunnel
<1>3. MyTunnel(a) # None => a.tunnels[MyTunnel(a)] \in Configs
  BY <1>2, AccountTypes
<1>4. Configured(a) \in Rules \cup {Unset} /\ s.version \in Nat /\ s.rules = Configured(a)
  BY <1>1, <1>3 DEF Configured, Configs
<1>5. NoRules \in Rules
  BY DEF NoRules, Rules
<1>6. Routes(s) \in Rules /\ Routes(s) = RulesOf(a, MyTunnel(a))
  BY <1>1, <1>2, <1>4, <1>5 DEF Routes, RulesOf, Configured
<1> QED
  BY <1>1, <1>2, <1>4, <1>6

\* Every part is made from what was observed.
LEMMA GroundedParts ==
  ASSUME NEW i \in AllIntents, NEW a \in Accounts, NEW s, s = Observe(i, a)
  PROVE  LET x == TunnelRef(s)
         IN  /\ \A st \in Range(EnsureTunnel(s)) : Grounded(st, a, x)
             /\ \A k \in Keys, who \in People \cup {None} :
                  k \in Domains(i, a) /\ ~LoginRefused(s, k, who) =>
                    \A st \in Range(Protect(s, k, who)) : Grounded(st, a, x)
             /\ \A r \in Rules : \A st \in Range(WriteRules(s, r)) : Grounded(st, a, x)
             /\ \A h \in HostsOf(i, a) \cap Hosts :
                  \A st \in Range(EnsureDns(s, h)) : Grounded(st, a, x)
             /\ \A h \in Hosts : Releases(s, h) => Grounded(DeleteRecord(h, s.dns[h]), a, x)
             /\ \A k \in Keys : Owns(s, k) => Grounded(DeleteApp(k, s.login[k]), a, x)
<1> DEFINE x == TunnelRef(s)
<1>1. /\ s.tunnel = MyTunnel(a) /\ s.rules = Configured(a) /\ s.version \in Nat
      /\ \A h \in Hosts : s.dns[h] = IF h \in HostsOf(i, a) THEN a.dns[h] ELSE None
      /\ \A k \in Keys : s.login[k] = IF k \in Domains(i, a) THEN a.login[k] ELSE None
  BY Observed
<1>2. \A st \in Range(EnsureTunnel(s)) : Grounded(st, a, x)
  BY <1>1, TunnelPart DEF Grounded
<1>3. ASSUME NEW k \in Keys, NEW who \in People \cup {None}, k \in Domains(i, a),
             ~LoginRefused(s, k, who), NEW st \in Range(Protect(s, k, who))
      PROVE  Grounded(st, a, x)
  <2>1. who \in People
    BY <1>3, LoginPart
  <2>2. s.login[k] = a.login[k]
    BY <1>1, <1>3
  <2>3. CASE s.login[k] = None
    <3>1. st = CreateApp(k, who)
      BY <2>1, <2>3, <1>3, LoginPart
    <3> QED
      BY <3>1, <2>1, <2>2, <2>3 DEF Grounded
  <2>4. CASE s.login[k] # None
    <3>1. st = UpdateApp(k, who, a.login[k]) /\ s.login[k].who # who /\ who # None
      BY <2>1, <2>2, <2>4, <1>3, LoginPart
    <3>2. a.login[k].owned
      BY <3>1, <2>2, <2>4, <1>3, AccountTypes DEF LoginRefused
    <3> QED
      BY <3>1, <3>2, <2>1, <2>2, <2>4 DEF Grounded
  <2> QED
    BY <2>3, <2>4
<1>4. ASSUME NEW r \in Rules, NEW st \in Range(WriteRules(s, r)) PROVE Grounded(st, a, x)
  <2>1. st = PutConfig(x, r, IF s.tunnel = None THEN None ELSE s.version, Configured(a))
    BY <1>1, <1>4, ConfigPart
  <2>2. (IF s.tunnel = None THEN None ELSE s.version) \in Nat \cup {None}
    BY <1>1
  <2> QED
    BY <2>1, <2>2 DEF Grounded
<1>5. ASSUME NEW h \in HostsOf(i, a) \cap Hosts, NEW st \in Range(EnsureDns(s, h))
      PROVE  Grounded(st, a, x)
  <2>1. s.dns[h] = a.dns[h] /\ (PointsHere(s, h) <=> Pointing(a, h))
    BY <1>1, <1>5 DEF PointsHere, Pointing
  <2>2. ~Pointing(a, h) /\ st = IF a.dns[h] = None THEN CreateRecord(h, x)
                                ELSE UpdateRecord(h, x, a.dns[h])
    BY <2>1, <1>5, RecordPart
  <2> QED
    BY <2>2 DEF Grounded
<1>6. ASSUME NEW h \in Hosts, Releases(s, h) PROVE Grounded(DeleteRecord(h, s.dns[h]), a, x)
  <2>1. a.dns[h] # None /\ a.dns[h].owned /\ s.dns[h] = a.dns[h]
    BY <1>1, <1>6 DEF Releases, PointsHere
  <2> QED
    BY <2>1 DEF Grounded
<1>7. ASSUME NEW k \in Keys, Owns(s, k) PROVE Grounded(DeleteApp(k, s.login[k]), a, x)
  <2>1. a.login[k] # None /\ a.login[k].owned /\ s.login[k] = a.login[k]
    BY <1>1, <1>7 DEF Owns
  <2> QED
    BY <2>1 DEF Grounded
<1> QED
  BY <1>2, <1>3, <1>4, <1>5, <1>6, <1>7

\* So every step of a plan is.
LEMMA GroundedSteps ==
  ASSUME NEW i \in AllIntents, NEW a \in Accounts, NEW s, s = Observe(i, a), ~Plan(i, s).refused,
         NEW st \in Range(Plan(i, s).steps)
  PROVE  Grounded(st, a, TunnelRef(s))
<1> DEFINE x == TunnelRef(s)
<1>0. Routes(s) \in Rules /\ NoRules \in Rules /\ HostOf \in [Keys -> Hosts]
      /\ s.tunnel = MyTunnel(a)
  BY Observed, AccountAssumption DEF NoRules, Rules
<1>1. /\ \A su \in Range(EnsureTunnel(s)) : Grounded(su, a, x)
      /\ \A k \in Keys, who \in People \cup {None} :
           k \in Domains(i, a) /\ ~LoginRefused(s, k, who) =>
             \A su \in Range(Protect(s, k, who)) : Grounded(su, a, x)
      /\ \A r \in Rules : \A su \in Range(WriteRules(s, r)) : Grounded(su, a, x)
      /\ \A h \in HostsOf(i, a) \cap Hosts :
           \A su \in Range(EnsureDns(s, h)) : Grounded(su, a, x)
      /\ \A h \in Hosts : Releases(s, h) => Grounded(DeleteRecord(h, s.dns[h]), a, x)
      /\ \A k \in Keys : Owns(s, k) => Grounded(DeleteApp(k, s.login[k]), a, x)
  BY GroundedParts
<1> HIDE DEF x
<1>2. CASE i.kind = "AddRoute"
  <2>1. i.key \in Keys /\ i.origin \in Origins /\ i.who \in People \cup {None}
    BY <1>2, IntentTypes
  <2>2. HostOf[i.key] \in HostsOf(i, a) \cap Hosts
    BY <1>0, <1>2, <2>1 DEF HostsOf
  <2>3. i.who # None => i.key \in Domains(i, a)
    BY <1>2 DEF Domains, Asked
  <2>4. ~LoginRefused(s, i.key, i.who)
    BY <1>2 DEF Plan, PlanAddRoute, Refused
  <2>5. [Routes(s) EXCEPT ![i.key] = {i.origin}] \in Rules
    BY <1>0, <2>1 DEF Rules
  <2>6. st \in Range(EnsureTunnel(s)) \cup Range(Protect(s, i.key, i.who))
               \cup Range(WriteRules(s, [Routes(s) EXCEPT ![i.key] = {i.origin}]))
               \cup Range(EnsureDns(s, HostOf[i.key]))
    BY <1>2, AddRoutePlan
  <2>7. CASE st \in Range(Protect(s, i.key, i.who))
    <3>1. i.who # None
      BY <2>7, LoginPart
    <3> QED
      BY <3>1, <2>1, <2>3, <2>4, <2>7, <1>1 DEF x
  <2> QED
    BY <2>2, <2>5, <2>6, <2>7, <1>1 DEF x
<1>3. CASE i.kind = "UpdateRoute"
  <2>1. i.key \in Keys /\ i.to \in Keys /\ i.origin \in Origins /\ i.who \in People \cup {None}
    BY <1>3, IntentTypes
  <2>2. HostOf[i.to] \in HostsOf(i, a) \cap Hosts
    BY <1>0, <1>3, <2>1 DEF HostsOf
  <2>3. i.who # None => i.to \in Domains(i, a)
    BY <1>3 DEF Domains, Asked
  <2>4. ~LoginRefused(s, i.to, i.who)
    BY <1>3 DEF Plan, PlanUpdateRoute, Refused
  <2>5. [Routes(s) EXCEPT ![i.key] = {}, ![i.to] = @ \cup {i.origin}] \in Rules
    BY <1>0, <2>1 DEF Rules
  <2>6. st \in Range(Protect(s, i.to, i.who))
         \cup Range(WriteRules(s, [Routes(s) EXCEPT ![i.key] = {}, ![i.to] = @ \cup {i.origin}]))
         \cup Range(EnsureDns(s, HostOf[i.to])) \cup Range(ReleaseDns(s, HostOf[i.key]))
         \cup Range(Unprotect(s, i.key))
    BY <1>3, UpdateRoutePlan
  <2>7. CASE st \in Range(Protect(s, i.to, i.who))
    <3>1. i.who # None
      BY <2>7, LoginPart
    <3> QED
      BY <3>1, <2>1, <2>3, <2>4, <2>7, <1>1 DEF x
  <2>8. CASE st \in Range(ReleaseDns(s, HostOf[i.key]))
    BY <2>1, <2>8, <1>0, <1>1, ReleasePart DEF x
  <2>9. CASE st \in Range(Unprotect(s, i.key))
    BY <2>1, <2>9, <1>1, UnprotectPart DEF x
  <2> QED
    BY <2>2, <2>5, <2>6, <2>7, <2>8, <2>9, <1>1 DEF x
<1>4. CASE i.kind = "RemoveRoute"
  <2>1. i.key \in Keys
    BY <1>4, IntentTypes
  <2>2. [Routes(s) EXCEPT ![i.key] = {}] \in Rules
    BY <1>0, <2>1 DEF Rules
  <2>3. st \in Range(WriteRules(s, [Routes(s) EXCEPT ![i.key] = {}]))
         \cup Range(ReleaseDns(s, HostOf[i.key])) \cup Range(Unprotect(s, i.key))
    BY <1>4, RemoveRoutePlan
  <2>4. CASE st \in Range(ReleaseDns(s, HostOf[i.key]))
    BY <2>1, <2>4, <1>0, <1>1, ReleasePart DEF x
  <2>5. CASE st \in Range(Unprotect(s, i.key))
    BY <2>1, <2>5, <1>1, UnprotectPart DEF x
  <2> QED
    BY <2>2, <2>3, <2>4, <2>5, <1>1 DEF x
<1>5. CASE i.kind = "RemoveTunnel"
  <2> DEFINE routed == {HostOf[k] : k \in {j \in Keys : Routes(s)[j] # {}}}
  <2>1. st \in Range(WriteRules(s, NoRules))
         \cup {DeleteRecord(h, s.dns[h]) : h \in {g \in routed : Releases(s, g)}}
         \cup {DeleteApp(k, s.login[k]) : k \in {j \in Keys : Owns(s, j)}}
         \cup {StopConnector(s.tunnel), DeleteTunnel(s.tunnel)}
    BY <1>5, RemoveTunnelPlan
  <2>2. CASE st \in {DeleteRecord(h, s.dns[h]) : h \in {g \in routed : Releases(s, g)}}
    BY <2>2, <1>0, <1>1 DEF x
  <2>3. CASE st \in {DeleteApp(k, s.login[k]) : k \in {j \in Keys : Owns(s, j)}}
    BY <2>3, <1>1 DEF x
  <2>4. CASE st \in {StopConnector(s.tunnel), DeleteTunnel(s.tunnel)}
    <3>1. s.tunnel # None
      BY <1>5 DEF Plan, PlanRemoveTunnel, Refused
    <3> QED
      BY <3>1, <2>4, <1>0 DEF Grounded, TunnelRef
  <2> QED
    BY <2>1, <2>2, <2>3, <2>4, <1>0, <1>1 DEF x
<1> QED
  BY <1>2, <1>3, <1>4, <1>5, IntentTypes

-----------------------------------------------------------------------------
(* A step, and the undo it leaves                                          *)

\* What a step is about, with x in the place of the plan's tunnel.
About(s, x) == IF s.op = "CreateTunnel" THEN Item("tunnel", x) ELSE ItemOf(s)

\* Run::step keeps an undo for it.
HasUndo(s) == s.op # "DeleteTunnel" /\ (s.op = "PutConfig" => s.previous # Unset)

\* The step's change is there in account c.
InPlace(s, c, x) ==
  CASE s.op = "CreateTunnel" -> x # None /\ c.tunnels[x] # None
    [] s.op = "DeleteTunnel" -> c.tunnels[x] = None
    [] s.op = "PutConfig" -> c.tunnels[x] # None => c.tunnels[x].rules = s.rules
    [] s.op \in {"CreateRecord", "UpdateRecord"} -> c.dns[s.host] # None /\ c.dns[s.host].to = x
    [] s.op = "DeleteRecord" -> c.dns[s.host] = None
    [] s.op \in {"CreateApp", "UpdateApp"} -> c.login[s.key] # None /\ c.login[s.key].who = s.who
    [] s.op = "DeleteApp" -> c.login[s.key] = None
    [] s.op = "StopConnector" -> x \notin c.running

\* What the step is about looks in c as it did in a: it was undone, or never done.
AsBefore(s, a, c, x) ==
  CASE s.op = "CreateTunnel" -> x # None => c.tunnels[x] = None
    [] s.op = "DeleteTunnel" -> c.tunnels[x] # None
    [] s.op = "PutConfig" -> x # None /\ a.tunnels[x] # None /\ c.tunnels[x] # None
                               => c.tunnels[x].rules = a.tunnels[x].rules
    [] s.op \in RecordSteps -> Back(a.dns[s.host], c.dns[s.host])
    [] s.op \in LoginSteps -> Look(c.login[s.key]) = Look(a.login[s.key])
    [] s.op = "StopConnector" -> x \in a.running => x \in c.running

\* Nothing has been done about it yet.
Untouched(s, a, c, x) ==
  /\ AsBefore(s, a, c, x)
  /\ s.op \in RecordSteps => c.dns[s.host] = a.dns[s.host]
  /\ s.op \in LoginSteps => c.login[s.key] = a.login[s.key]

\* u takes the step back in c.
Fits(s, u, c, x) ==
  CASE s.op = "CreateTunnel" -> u = DeleteTunnel(x)
    [] s.op = "PutConfig" -> u = PutConfig(x, s.previous, None, Unset) /\ s.previous # Unset
    [] s.op = "CreateRecord" -> u = DeleteRecord(s.host, c.dns[s.host])
    [] s.op = "UpdateRecord" -> u = RestoreRecord(s.host, c.dns[s.host].id, s.previous)
    [] s.op = "DeleteRecord" -> u = RecreateRecord(s.host, s.record)
    [] s.op = "CreateApp" -> u = DeleteApp(s.key, c.login[s.key])
    [] s.op = "UpdateApp" -> u = UpdateApp(s.key, s.previous.who, s.previous)
    [] s.op = "DeleteApp" -> u = CreateApp(s.key, s.app.who)
    [] s.op = "StopConnector" -> u = StartConnector(x)
    [] OTHER -> FALSE

\* Every step of a plan is of one of these kinds, and is about this.
LEMMA GroundedIs ==
  ASSUME NEW a \in Accounts, NEW x, NEW s, Grounded(s, a, x)
  PROVE  \/ s.op = "CreateTunnel" /\ About(s, x) = Item("tunnel", x) /\ Spot(s) = Item("tunnel", None)
         \/ s.op = "DeleteTunnel" /\ About(s, x) = Item("tunnel", x) /\ Spot(s) = Item("tunnel", None)
         \/ s.op = "PutConfig" /\ About(s, x) = Item("config", x) /\ Spot(s) = Item("config", None)
         \/ /\ s.op \in RecordSteps /\ s.host \in Hosts
            /\ About(s, x) = Item("dns", s.host) /\ Spot(s) = Item("dns", s.host)
         \/ /\ s.op \in LoginSteps /\ s.key \in Keys
            /\ About(s, x) = Item("login", s.key) /\ Spot(s) = Item("login", s.key)
         \/ /\ s.op = "StopConnector"
            /\ About(s, x) = Item("connector", x) /\ Spot(s) = Item("connector", None)
<1>1. CASE s = CreateTunnel
  BY <1>1 DEF CreateTunnel, Step, About, Spot, RecordSteps, LoginSteps
<1>2. CASE s = DeleteTunnel(x)
  BY <1>2 DEF DeleteTunnel, About, Spot, ItemOf, RecordSteps, LoginSteps
<1>3. CASE s = StopConnector(x)
  BY <1>3 DEF StopConnector, About, Spot, ItemOf, RecordSteps, LoginSteps
<1>4. ASSUME NEW r, NEW v, NEW q, s = PutConfig(x, r, v, q) PROVE 
        s.op = "PutConfig" /\ About(s, x) = Item("config", x) /\ Spot(s) = Item("config", None)
  BY <1>4 DEF PutConfig, About, Spot, ItemOf, RecordSteps, LoginSteps
<1>5. ASSUME NEW h \in Hosts, NEW q, s \in {CreateRecord(h, x), UpdateRecord(h, x, q), DeleteRecord(h, q)}
      PROVE  /\ s.op \in RecordSteps /\ s.host \in Hosts
             /\ About(s, x) = Item("dns", s.host) /\ Spot(s) = Item("dns", s.host)
  BY <1>5 DEF CreateRecord, UpdateRecord, DeleteRecord, About, Spot, ItemOf, RecordSteps, LoginSteps
<1>6. ASSUME NEW k \in Keys, NEW w, NEW q, s \in {CreateApp(k, w), UpdateApp(k, w, q), DeleteApp(k, q)}
      PROVE  /\ s.op \in LoginSteps /\ s.key \in Keys
             /\ About(s, x) = Item("login", s.key) /\ Spot(s) = Item("login", s.key)
  BY <1>6 DEF CreateApp, UpdateApp, DeleteApp, About, Spot, ItemOf, RecordSteps, LoginSteps
<1> QED
  BY <1>1, <1>2, <1>3, <1>4, <1>5, <1>6 DEF Grounded

\* Steps with different spots are about different things.
LEMMA AboutApart ==
  ASSUME NEW a \in Accounts, NEW x, NEW s, Grounded(s, a, x), NEW u, Grounded(u, a, x),
         Spot(s) # Spot(u)
  PROVE  About(s, x) # About(u, x)
<1>1. Spot(s).what = About(s, x).what /\ Spot(u).what = About(u, x).what
  BY GroundedIs DEF Item
<1>2. Spot(s).what = Spot(u).what => Spot(s).what \in {"dns", "login"}
  BY GroundedIs DEF Item
<1>3. Spot(s).what \in {"dns", "login"} => Spot(s) = About(s, x)
  BY GroundedIs DEF Item
<1>4. Spot(u).what \in {"dns", "login"} => Spot(u) = About(u, x)
  BY GroundedIs DEF Item
<1> QED
  BY <1>1, <1>2, <1>3, <1>4

\* A change of one thing leaves steps about other things as they were.
LEMMA ElsewhereKept ==
  ASSUME NEW a \in Accounts, NEW c \in Accounts, NEW d \in Accounts, NEW x \in Tunnels,
         NEW it, SameBut(c, d, it), NEW s, Grounded(s, a, x), About(s, x) # it
  PROVE  /\ InPlace(s, c, x) => InPlace(s, d, x)
         /\ AsBefore(s, a, c, x) => AsBefore(s, a, d, x)
         /\ Untouched(s, a, c, x) => Untouched(s, a, d, x)
         /\ \A u : Fits(s, u, c, x) => Fits(s, u, d, x)
<1>0. x # None
  BY AccountAssumption
<1>1. CASE s.op \in {"CreateTunnel", "DeleteTunnel"}
  <2>1. About(s, x) = Item("tunnel", x)
    BY <1>1, GroundedIs DEF RecordSteps, LoginSteps
  <2>2. c.tunnels[x] = None <=> d.tunnels[x] = None
    BY <2>1 DEF SameBut
  <2> QED
    BY <1>1, <2>2 DEF InPlace, AsBefore, Untouched, Fits, RecordSteps, LoginSteps
<1>2. CASE s.op = "PutConfig"
  <2>1. About(s, x) = Item("config", x)
    BY <1>2, GroundedIs DEF RecordSteps, LoginSteps
  <2>2. d.tunnels[x] = None \/ d.tunnels[x] = c.tunnels[x]
    BY <2>1 DEF SameBut
  <2> QED
    BY <1>2, <2>2 DEF InPlace, AsBefore, Untouched, Fits, RecordSteps, LoginSteps
<1>3. CASE s.op \in RecordSteps
  <2>1. About(s, x) = Item("dns", s.host) /\ s.host \in Hosts
    BY <1>3, GroundedIs DEF RecordSteps, LoginSteps
  <2>2. d.dns[s.host] = c.dns[s.host]
    BY <2>1 DEF SameBut
  <2>3. s.op \notin LoginSteps
    BY <1>3 DEF RecordSteps, LoginSteps
  <2>4. (InPlace(s, c, x) <=> InPlace(s, d, x)) /\ \A u : Fits(s, u, c, x) <=> Fits(s, u, d, x)
    BY <1>3, <2>2 DEF InPlace, Fits, RecordSteps
  <2>5. AsBefore(s, a, c, x) <=> AsBefore(s, a, d, x)
    <3>1. \A e : AsBefore(s, a, e, x) <=> Back(a.dns[s.host], e.dns[s.host])
      BY <1>3, <2>3 DEF AsBefore, RecordSteps
    <3> QED
      BY <2>2, <3>1
  <2> QED
    BY <1>3, <2>2, <2>3, <2>4, <2>5 DEF Untouched
<1>4. CASE s.op \in LoginSteps
  <2>1. About(s, x) = Item("login", s.key) /\ s.key \in Keys
    BY <1>4, GroundedIs DEF RecordSteps, LoginSteps
  <2>2. d.login[s.key] = c.login[s.key]
    BY <2>1 DEF SameBut
  <2>3. s.op \notin RecordSteps
    BY <1>4 DEF RecordSteps, LoginSteps
  <2>4. (InPlace(s, c, x) <=> InPlace(s, d, x)) /\ \A u : Fits(s, u, c, x) <=> Fits(s, u, d, x)
    BY <1>4, <2>2 DEF InPlace, Fits, LoginSteps
  <2>5. AsBefore(s, a, c, x) <=> AsBefore(s, a, d, x)
    BY <1>4, <2>2, <2>3 DEF AsBefore, LoginSteps
  <2> QED
    BY <1>4, <2>2, <2>3, <2>4, <2>5 DEF Untouched
<1>5. CASE s.op = "StopConnector"
  <2>1. About(s, x) = Item("connector", x)
    BY <1>5, GroundedIs DEF RecordSteps, LoginSteps
  <2>2. x \in c.running <=> x \in d.running
    BY <2>1 DEF SameBut
  <2> QED
    BY <1>5, <2>2 DEF InPlace, AsBefore, Untouched, Fits, RecordSteps, LoginSteps
<1> QED
  BY <1>1, <1>2, <1>3, <1>4, <1>5, GroundedIs

\* A step that rests on a is one that may be called, for the tunnels of a were made.
LEMMA GroundedTyped ==
  ASSUME NEW a \in Accounts, NEW U, a.used \subseteq U, NEW x \in U, NEW s, Grounded(s, a, x)
  PROVE  TypedStep(s, U)
<1>1. /\ a.dns \in [Hosts -> Records \cup {None}] /\ a.login \in [Keys -> Apps \cup {None}]
      /\ \A h \in Hosts : a.dns[h] # None => a.dns[h].to \in U \cup {Elsewhere, Address}
      /\ Configured(a) \in Rules \cup {Unset}
  <2>1. MyTunnel(a) # None => a.tunnels[MyTunnel(a)] \in Configs
    BY AccountTypes DEF MyTunnel
  <2> QED
    BY <2>1, AccountTypes DEF Configured, Configs
<1>2. ASSUME NEW r \in Rules, NEW v \in Nat \cup {None}, s = PutConfig(x, r, v, Configured(a))
      PROVE  TypedStep(s, U)
  BY <1>1, <1>2 DEF TypedStep
<1>3. ASSUME NEW h \in Hosts, a.dns[h] # None,
             s \in {UpdateRecord(h, x, a.dns[h]), DeleteRecord(h, a.dns[h])}
      PROVE  TypedStep(s, U)
  <2>1. a.dns[h] \in Records /\ a.dns[h].to \in U \cup {Elsewhere, Address}
    BY <1>1, <1>3
  <2> QED
    BY <1>3, <2>1 DEF TypedStep
<1>4. ASSUME NEW k \in Keys, NEW w \in People, a.login[k] # None,
             s \in {UpdateApp(k, w, a.login[k]), DeleteApp(k, a.login[k])}
      PROVE  TypedStep(s, U)
  <2>1. a.login[k] \in Apps
    BY <1>1, <1>4
  <2> QED
    BY <1>4, <2>1 DEF TypedStep
<1>5. ASSUME NEW k \in Keys, a.login[k] # None, s = DeleteApp(k, a.login[k])
      PROVE  TypedStep(s, U)
  <2>1. a.login[k] \in Apps
    BY <1>1, <1>5
  <2> QED
    BY <1>5, <2>1 DEF TypedStep
<1>6. CASE \/ s \in {CreateTunnel, StopConnector(x), DeleteTunnel(x)}
           \/ \E h \in Hosts : s = CreateRecord(h, x)
           \/ \E k \in Keys, w \in People : s = CreateApp(k, w)
  BY <1>6 DEF TypedStep
<1> QED
  BY <1>2, <1>3, <1>4, <1>5, <1>6 DEF Grounded

\* An accepted step's change is there, with the undo that fits it.
Done(s, d, x) ==
  /\ InPlace(s, d, x)
  /\ HasUndo(s) => UndoOf(d, s, None) # <<>> /\ Fits(s, UndoOf(d, s, None)[1], d, x)
  /\ ~HasUndo(s) => UndoOf(d, s, None) = <<>>

\* A step that was accepted on what it was planned for is done.
LEMMA StepDone ==
  ASSUME NEW a \in Accounts, NEW c \in Accounts, NEW x \in Tunnels, NEW s, Grounded(s, a, x),
         s.op # "CreateTunnel", Accepts(c, s), Untouched(s, a, c, x)
  PROVE  Done(s, Perform(c, s, None), x)
<1> DEFINE d == Perform(c, s, None)
<1>0. /\ c.tunnels \in [Tunnels -> Configs \cup {None}] /\ c.dns \in [Hosts -> Records \cup {None}]
      /\ c.login \in [Keys -> Apps \cup {None}] /\ NextId(c) \in Nat /\ c.running \subseteq Tunnels
  BY AccountTypes DEF NextId
<1>1. ASSUME NEW r \in Rules, NEW v \in Nat \cup {None}, s = PutConfig(x, r, v, Configured(a))
      PROVE  Done(s, d, x)
  <2>1. d = WriteConfig(c, x, r) /\ c.tunnels[x] # None
    BY <1>1 DEF PutConfig, Perform, Accepts
  <2>2. d.tunnels[x].rules = r
    BY <2>1, WriteConfigIs
  <2> HIDE DEF d
  <2>3. InPlace(s, d, x)
    BY <1>1, <2>2 DEF PutConfig, InPlace
  <2>4. /\ HasUndo(s) <=> Configured(a) # Unset
        /\ UndoOf(d, s, None) = IF Configured(a) = Unset THEN <<>>
                                ELSE <<PutConfig(x, Configured(a), None, Unset)>>
    BY <1>1 DEF PutConfig, HasUndo, UndoOf
  <2>5. Configured(a) # Unset => Fits(s, PutConfig(x, Configured(a), None, Unset), d, x)
    BY <1>1 DEF PutConfig, Fits
  <2> QED
    BY <2>3, <2>4, <2>5 DEF Done
<1>2. ASSUME NEW h \in Hosts, s = CreateRecord(h, x) PROVE Done(s, d, x)
  <2>1. d = OwnRecord(c, h, NextId(c), x)
    BY <1>2 DEF CreateRecord, Perform, OwnRecord
  <2> HIDE DEF d
  <2>2. d.dns[h] \in Records /\ d.dns[h].to = x
    BY <2>1, <1>0, OwnRecordThere
  <2>3. InPlace(s, d, x)
    BY <1>2, <2>2, AccountAssumption DEF CreateRecord, InPlace
  <2>4. UndoOf(d, s, None) = <<DeleteRecord(h, d.dns[h])>> /\ Fits(s, DeleteRecord(h, d.dns[h]), d, x)
    BY <1>2 DEF CreateRecord, UndoOf, Fits
  <2>5. HasUndo(s)
    BY <1>2 DEF CreateRecord, HasUndo
  <2> QED
    BY <2>3, <2>4, <2>5 DEF Done
<1>3. ASSUME NEW h \in Hosts, a.dns[h] # None, s = UpdateRecord(h, x, a.dns[h]) PROVE Done(s, d, x)
  <2>1. d = OwnRecord(c, h, IdAfter(c, a.dns[h]), x)
    BY <1>3 DEF UpdateRecord, Perform, OwnRecord
  <2>2. a.dns[h].id \in Nat
    BY <1>3, AccountTypes DEF Records
  <2>3. IdAfter(c, a.dns[h]) \in Nat
    BY <2>2, <1>0 DEF IdAfter
  <2> HIDE DEF d
  <2>4. d.dns[h] \in Records /\ d.dns[h].to = x
    BY <2>1, <2>3, OwnRecordThere
  <2>5. InPlace(s, d, x)
    BY <1>3, <2>4, AccountAssumption DEF UpdateRecord, InPlace
  <2>6. /\ UndoOf(d, s, None) = <<RestoreRecord(h, d.dns[h].id, a.dns[h])>>
        /\ Fits(s, RestoreRecord(h, d.dns[h].id, a.dns[h]), d, x)
    BY <1>3 DEF UpdateRecord, UndoOf, Fits
  <2>7. HasUndo(s)
    BY <1>3 DEF UpdateRecord, HasUndo
  <2> QED
    BY <2>5, <2>6, <2>7 DEF Done
<1>4. ASSUME NEW h \in Hosts, a.dns[h] # None, s = DeleteRecord(h, a.dns[h]) PROVE Done(s, d, x)
  <2>1. d = DropRecord(c, h, a.dns[h].id)
    BY <1>4 DEF DeleteRecord, Perform
  <2>2. c.dns[h] = a.dns[h]
    BY <1>4 DEF DeleteRecord, Untouched, RecordSteps
  <2>3. d.dns = [c.dns EXCEPT ![h] = None]
    BY <2>1, <2>2, <1>4, DropRecordIs DEF HasRecord
  <2> HIDE DEF d
  <2>4. InPlace(s, d, x)
    BY <1>0, <1>4, <2>3 DEF DeleteRecord, InPlace
  <2>5. /\ UndoOf(d, s, None) = <<RecreateRecord(h, a.dns[h])>>
        /\ Fits(s, RecreateRecord(h, a.dns[h]), d, x)
    BY <1>4 DEF DeleteRecord, UndoOf, Fits
  <2>6. HasUndo(s)
    BY <1>4 DEF DeleteRecord, HasUndo
  <2> QED
    BY <2>4, <2>5, <2>6 DEF Done
<1>5. ASSUME NEW k \in Keys, NEW w \in People, s = CreateApp(k, w) PROVE Done(s, d, x)
  <2>1. d = OwnApp(c, k, NextId(c), w)
    BY <1>5 DEF CreateApp, Perform, OwnApp
  <2> HIDE DEF d
  <2>2. d.login[k] \in Apps /\ d.login[k].who = w
    BY <2>1, <1>0, OwnAppThere
  <2>3. InPlace(s, d, x)
    BY <1>5, <2>2, AccountAssumption DEF CreateApp, InPlace
  <2>4. UndoOf(d, s, None) = <<DeleteApp(k, d.login[k])>> /\ Fits(s, DeleteApp(k, d.login[k]), d, x)
    BY <1>5 DEF CreateApp, UndoOf, Fits
  <2>5. HasUndo(s)
    BY <1>5 DEF CreateApp, HasUndo
  <2> QED
    BY <2>3, <2>4, <2>5 DEF Done
<1>6. ASSUME NEW k \in Keys, NEW w \in People, a.login[k] # None, s = UpdateApp(k, w, a.login[k])
      PROVE Done(s, d, x)
  <2>1. d = OwnApp(c, k, a.login[k].id, w)
    BY <1>6 DEF UpdateApp, Perform, OwnApp
  <2>2. a.login[k].id \in Nat
    BY <1>6, AccountTypes DEF Apps
  <2> HIDE DEF d
  <2>3. d.login[k] \in Apps /\ d.login[k].who = w
    BY <2>1, <2>2, OwnAppThere
  <2>4. InPlace(s, d, x)
    BY <1>6, <2>3, AccountAssumption DEF UpdateApp, InPlace
  <2>5. /\ UndoOf(d, s, None) = <<UpdateApp(k, a.login[k].who, a.login[k])>>
        /\ Fits(s, UpdateApp(k, a.login[k].who, a.login[k]), d, x)
    BY <1>6 DEF UpdateApp, UndoOf, Fits
  <2>6. HasUndo(s)
    BY <1>6 DEF UpdateApp, HasUndo
  <2> QED
    BY <2>4, <2>5, <2>6 DEF Done
<1>7. ASSUME NEW k \in Keys, a.login[k] # None, s = DeleteApp(k, a.login[k]) PROVE Done(s, d, x)
  <2>1. d = DropApp(c, k, a.login[k].id)
    BY <1>7 DEF DeleteApp, Perform
  <2>2. c.login[k] = a.login[k]
    BY <1>7 DEF DeleteApp, Untouched, LoginSteps
  <2>3. d.login = [c.login EXCEPT ![k] = None]
    BY <2>1, <2>2, <1>7, DropAppIs DEF HasApp
  <2> HIDE DEF d
  <2>4. InPlace(s, d, x)
    BY <1>0, <1>7, <2>3 DEF DeleteApp, InPlace
  <2>5. UndoOf(d, s, None) = <<CreateApp(k, a.login[k].who)>> /\ Fits(s, CreateApp(k, a.login[k].who), d, x)
    BY <1>7 DEF DeleteApp, UndoOf, Fits
  <2>6. HasUndo(s)
    BY <1>7 DEF DeleteApp, HasUndo
  <2> QED
    BY <2>4, <2>5, <2>6 DEF Done
<1>8. CASE s = StopConnector(x)
  <2> DEFINE R == c.running \ {x}
  <2>1. d = [c EXCEPT !.running = R]
    BY <1>8 DEF StopConnector, Perform
  <2>2. R \in SUBSET Tunnels /\ \A y \in R : c.tunnels[y] # None
    BY AccountTypes
  <2>3. x \notin R
    OBVIOUS
  <2> HIDE DEF R
  <2>4. d.running = R
    BY <2>1, <2>2, RunningIs
  <2> HIDE DEF d
  <2>5. InPlace(s, d, x)
    BY <1>8, <2>3, <2>4 DEF StopConnector, InPlace
  <2>6. UndoOf(d, s, None) = <<StartConnector(x)>> /\ Fits(s, StartConnector(x), d, x)
    BY <1>8 DEF StopConnector, UndoOf, Fits
  <2>7. HasUndo(s)
    BY <1>8 DEF StopConnector, HasUndo
  <2> QED
    BY <2>5, <2>6, <2>7 DEF Done, d
<1>9. CASE s = DeleteTunnel(x)
  <2>1. d = RemoveTunnel(c, x)
    BY <1>9 DEF DeleteTunnel, Perform
  <2>2. d.tunnels = [c.tunnels EXCEPT ![x] = None]
    BY <2>1, RemoveTunnelIs
  <2> HIDE DEF d
  <2>3. InPlace(s, d, x)
    BY <1>0, <1>9, <2>2 DEF DeleteTunnel, InPlace
  <2>4. UndoOf(d, s, None) = <<>> /\ ~HasUndo(s)
    BY <1>9 DEF DeleteTunnel, UndoOf, HasUndo
  <2> QED
    BY <2>3, <2>4 DEF Done, d
<1>10. s # CreateTunnel
  BY DEF CreateTunnel, Step
<1> QED
  BY <1>1, <1>2, <1>3, <1>4, <1>5, <1>6, <1>7, <1>8, <1>9, <1>10 DEF Grounded

\* x is this machine's tunnel, or a new one when there was none.
Ours(a, x) == IF MyTunnel(a) = None THEN a.tunnels[x] = None ELSE x = MyTunnel(a)

\* An accepted undo takes its step back.
LEMMA StepUndone ==
  ASSUME NEW a \in Accounts, NEW c \in Accounts, NEW x \in Tunnels, NEW s, Grounded(s, a, x),
         Ours(a, x), NEW u, Fits(s, u, c, x), InPlace(s, c, x), Accepts(c, u)
  PROVE  AsBefore(s, a, Perform(c, u, None), x)
<1> DEFINE d == Perform(c, u, None)
<1> SUFFICES AsBefore(s, a, d, x)
  OBVIOUS
<1>0. /\ c.tunnels \in [Tunnels -> Configs \cup {None}] /\ c.dns \in [Hosts -> Records \cup {None}]
      /\ c.login \in [Keys -> Apps \cup {None}] /\ NextId(c) \in Nat /\ c.running \subseteq Tunnels
      /\ a.dns \in [Hosts -> Records \cup {None}] /\ a.login \in [Keys -> Apps \cup {None}]
  BY AccountTypes DEF NextId
<1>1. ASSUME NEW r \in Rules, NEW v \in Nat \cup {None}, s = PutConfig(x, r, v, Configured(a))
      PROVE  AsBefore(s, a, d, x)
  <2>1. u = PutConfig(x, Configured(a), None, Unset) /\ Configured(a) # Unset
    BY <1>1 DEF PutConfig, Fits
  <2>2. d = WriteConfig(c, x, Configured(a)) /\ c.tunnels[x] # None
    BY <2>1 DEF PutConfig, Perform, Accepts
  <2>3. Configured(a) \in Rules
    <3>1. MyTunnel(a) # None => a.tunnels[MyTunnel(a)] \in Configs
      BY AccountTypes DEF MyTunnel
    <3> QED
      BY <2>1, <3>1 DEF Configured, Configs
  <2>4. d.tunnels[x].rules = Configured(a)
    BY <2>2, <2>3, WriteConfigIs
  <2>5. MyTunnel(a) = x
    BY <2>1 DEF Configured, Ours
  <2> HIDE DEF d
  <2>6. d.tunnels[x].rules = a.tunnels[x].rules
    BY <2>4, <2>5, AccountAssumption DEF Configured
  <2>7. s.op = "PutConfig"
    BY <1>1 DEF PutConfig
  <2> QED
    BY <2>6, <2>7 DEF AsBefore, RecordSteps, LoginSteps
<1>2. ASSUME NEW h \in Hosts, a.dns[h] = None, s = CreateRecord(h, x) PROVE AsBefore(s, a, d, x)
  <2>1. u = DeleteRecord(h, c.dns[h]) /\ c.dns[h] # None
    BY <1>2 DEF CreateRecord, Fits, InPlace
  <2>2. d = DropRecord(c, h, c.dns[h].id)
    BY <2>1 DEF DeleteRecord, Perform
  <2>3. d.dns = [c.dns EXCEPT ![h] = None]
    BY <2>1, <2>2, DropRecordIs DEF HasRecord
  <2> HIDE DEF d
  <2>4. d.dns[h] = a.dns[h]
    BY <1>0, <1>2, <2>3
  <2> QED
    BY <1>2, <2>4 DEF CreateRecord, AsBefore, Back, RecordSteps, LoginSteps
<1>3. ASSUME NEW h \in Hosts, a.dns[h] # None, s = UpdateRecord(h, x, a.dns[h])
      PROVE AsBefore(s, a, d, x)
  <2>1. u = RestoreRecord(h, c.dns[h].id, a.dns[h]) /\ c.dns[h] # None
    BY <1>3 DEF UpdateRecord, Fits, InPlace
  <2>2. a.dns[h] \in Records /\ c.dns[h].id \in Nat
    BY <1>0, <1>3, <2>1 DEF Records
  <2>3. d = GiveBack(c, RestoreRecord(h, c.dns[h].id, a.dns[h]))
    BY <2>1 DEF RestoreRecord, Perform
  <2>4. PICK q \in Records : d = PutRecord(c, h, q) /\ Back(a.dns[h], q)
    BY <2>2, <2>3, GivenBack
  <2> HIDE DEF d
  <2>5. d.dns[h] = q
    BY <2>4, RecordThere
  <2>6. Back(a.dns[h], d.dns[h])
    BY <2>4, <2>5
  <2> QED
    BY <1>3, <2>6 DEF UpdateRecord, AsBefore, RecordSteps, LoginSteps
<1>4. ASSUME NEW h \in Hosts, a.dns[h] # None, s = DeleteRecord(h, a.dns[h])
      PROVE AsBefore(s, a, d, x)
  <2>1. u = RecreateRecord(h, a.dns[h])
    BY <1>4 DEF DeleteRecord, Fits
  <2>2. d = PutRecord(c, h, [a.dns[h] EXCEPT !.id = NextId(c)])
    BY <2>1 DEF RecreateRecord, Perform
  <2>3. a.dns[h] \in Records
    BY <1>0, <1>4
  <2> HIDE DEF d
  <2>4. d.dns[h] = [a.dns[h] EXCEPT !.id = NextId(c)]
    BY <2>2, RecordThere
  <2>5. Look(d.dns[h]) = Look(a.dns[h])
    BY <2>3, <2>4, Recreated
  <2>6. Back(a.dns[h], d.dns[h])
    BY <2>5 DEF Back
  <2> QED
    BY <1>4, <2>6 DEF DeleteRecord, AsBefore, RecordSteps, LoginSteps
<1>5. ASSUME NEW k \in Keys, NEW w \in People, a.login[k] = None, s = CreateApp(k, w)
      PROVE AsBefore(s, a, d, x)
  <2>1. u = DeleteApp(k, c.login[k]) /\ c.login[k] # None
    BY <1>5 DEF CreateApp, Fits, InPlace
  <2>2. d = DropApp(c, k, c.login[k].id)
    BY <2>1 DEF DeleteApp, Perform
  <2>3. d.login = [c.login EXCEPT ![k] = None]
    BY <2>1, <2>2, DropAppIs DEF HasApp
  <2> HIDE DEF d
  <2>4. d.login[k] = a.login[k]
    BY <1>0, <1>5, <2>3
  <2> QED
    BY <1>5, <2>4 DEF CreateApp, AsBefore, RecordSteps, LoginSteps
<1>6. ASSUME NEW k \in Keys, NEW w \in People, a.login[k] # None, a.login[k].owned,
             s = UpdateApp(k, w, a.login[k])
      PROVE AsBefore(s, a, d, x)
  <2>1. u = UpdateApp(k, a.login[k].who, a.login[k])
    BY <1>6 DEF UpdateApp, Fits
  <2>2. d = OwnApp(c, k, a.login[k].id, a.login[k].who)
    BY <2>1 DEF UpdateApp, Perform, OwnApp
  <2>3. a.login[k] \in Apps
    BY <1>0, <1>6
  <2>4. a.login[k].id \in Nat /\ a.login[k].who \in People
    BY <2>3 DEF Apps
  <2> HIDE DEF d
  <2>5. d.login[k] \in Apps /\ d.login[k].who = a.login[k].who
    BY <2>2, <2>4, OwnAppThere
  <2>6. d.login[k].owned
    BY <2>2, <2>4, OwnAppOwned
  <2>7. Look(d.login[k]) = Look(a.login[k])
    BY <1>6, <2>3, <2>5, <2>6, SameLook
  <2> QED
    BY <1>6, <2>7 DEF UpdateApp, AsBefore, RecordSteps, LoginSteps
<1>7. ASSUME NEW k \in Keys, a.login[k] # None, a.login[k].owned, s = DeleteApp(k, a.login[k])
      PROVE AsBefore(s, a, d, x)
  <2>1. u = CreateApp(k, a.login[k].who)
    BY <1>7 DEF DeleteApp, Fits
  <2>2. d = OwnApp(c, k, NextId(c), a.login[k].who)
    BY <2>1 DEF CreateApp, Perform, OwnApp
  <2>3. a.login[k] \in Apps
    BY <1>0, <1>7
  <2>4. a.login[k].who \in People
    BY <2>3 DEF Apps
  <2> HIDE DEF d
  <2>5. d.login[k] \in Apps /\ d.login[k].who = a.login[k].who
    BY <1>0, <2>2, <2>4, OwnAppThere
  <2>6. d.login[k].owned
    BY <1>0, <2>2, <2>4, OwnAppOwned
  <2>7. Look(d.login[k]) = Look(a.login[k])
    BY <1>7, <2>3, <2>5, <2>6, SameLook
  <2> QED
    BY <1>7, <2>7 DEF DeleteApp, AsBefore, RecordSteps, LoginSteps
<1>8. CASE s = StopConnector(x)
  <2>1. u = StartConnector(x)
    BY <1>8 DEF StopConnector, Fits
  <2> DEFINE R == c.running \cup {x}
  <2>2. d = [c EXCEPT !.running = R] /\ c.tunnels[x] # None
    BY <2>1 DEF StartConnector, Perform, Accepts
  <2>3. R \in SUBSET Tunnels /\ (\A y \in R : c.tunnels[y] # None) /\ x \in R
    BY <2>2, AccountTypes
  <2> HIDE DEF R
  <2>4. d.running = R
    BY <2>2, <2>3, RunningIs
  <2> HIDE DEF d
  <2> QED
    BY <1>8, <2>3, <2>4 DEF StopConnector, AsBefore, RecordSteps, LoginSteps
<1>9. CASE s = CreateTunnel
  <2>1. u = DeleteTunnel(x)
    BY <1>9 DEF CreateTunnel, Step, Fits
  <2>2. d = RemoveTunnel(c, x)
    BY <2>1 DEF DeleteTunnel, Perform
  <2>3. d.tunnels = [c.tunnels EXCEPT ![x] = None]
    BY <2>2, RemoveTunnelIs
  <2> HIDE DEF d
  <2>4. d.tunnels[x] = None
    BY <1>0, <2>3
  <2> QED
    BY <1>9, <2>4 DEF CreateTunnel, Step, AsBefore, RecordSteps, LoginSteps
<1>10. s # DeleteTunnel(x)
  BY DEF DeleteTunnel, Fits
<1> HIDE DEF d
<1> QED
  BY <1>1, <1>2, <1>3, <1>4, <1>5, <1>6, <1>7, <1>8, <1>9, <1>10 DEF Grounded

-----------------------------------------------------------------------------
(* A plan that is under way                                                *)

\* A plan from account a, with x in the place of its tunnel.
Shaped(Q, a, x) ==
  /\ Len(Q) \in Nat /\ DOMAIN Q = 1..Len(Q)
  /\ \A l \in DOMAIN Q : Grounded(Q[l], a, x)
  /\ \A j, l \in DOMAIN Q : j < l => Rank(Q[j]) <= Rank(Q[l])
  /\ \A j, l \in DOMAIN Q : j # l => Spot(Q[j]) # Spot(Q[l])

\* What no step is about is as it was.
Kept(Q, a, c, x) ==
  LET Nothing(it) == \A l \in DOMAIN Q : About(Q[l], x) # it
  IN  /\ \A y \in Tunnels : /\ Nothing(Item("config", y))
                             /\ a.tunnels[y] # None /\ c.tunnels[y] # None
                             => c.tunnels[y] = a.tunnels[y]
      /\ \A y \in Tunnels : Nothing(Item("tunnel", y)) => (c.tunnels[y] = None <=> a.tunnels[y] = None)
      /\ \A y \in Tunnels : Nothing(Item("connector", y)) => (y \in c.running <=> y \in a.running)
      /\ \A h \in Hosts : Nothing(Item("dns", h)) => c.dns[h] = a.dns[h]
      /\ \A k \in Keys : Nothing(Item("login", k)) => c.login[k] = a.login[k]
      /\ MyTunnel(c) = IF x = None THEN None ELSE IF c.tunnels[x] = None THEN None ELSE x

\* Account c in the middle of the plan Q from a: the steps up to m are there, those from n
\* on were not begun, and those between were taken back, but for what L lists.
Midway(Q, a, c, x, m, n, L) ==
  /\ \A l \in DOMAIN Q : l <= m => InPlace(Q[l], c, x)
  /\ \A l \in DOMAIN Q : n <= l /\ About(Q[l], x) \notin L => Untouched(Q[l], a, c, x)
  /\ \A l \in DOMAIN Q : m < l /\ l < n /\ HasUndo(Q[l]) /\ About(Q[l], x) \notin L =>
       AsBefore(Q[l], a, c, x)
  /\ Kept(Q, a, c, x)

\* The undos D, the last one first, take the steps up to m back.
Logged(Q, D, c, x, m) ==
  /\ IsList(D)
  /\ \A j \in DOMAIN D : /\ D[j].step \in DOMAIN Q /\ D[j].step <= m
                         /\ Fits(Q[D[j].step], D[j].undo, c, x)
  /\ \A j, l \in DOMAIN D : j < l => D[j].step < D[l].step
  /\ \A l \in DOMAIN Q : l <= m /\ HasUndo(Q[l]) => \E j \in DOMAIN D : D[j].step = l

\* A change of what one step is about leaves the rest where it was.
LEMMA KeptStill ==
  ASSUME NEW a \in Accounts, NEW c \in Accounts, NEW d \in Accounts, NEW x \in Tunnels, NEW Q,
         Shaped(Q, a, x), NEW j \in DOMAIN Q, SameBut(c, d, About(Q[j], x)), Kept(Q, a, c, x)
  PROVE  Kept(Q, a, d, x)
<1> DEFINE it == About(Q[j], x)
           Nothing(i) == \A l \in DOMAIN Q : About(Q[l], x) # i
<1>0. \A i : Nothing(i) => it # i
  OBVIOUS
<1>1. /\ \A y \in Tunnels : /\ Nothing(Item("config", y))
                             /\ a.tunnels[y] # None /\ d.tunnels[y] # None
                             => d.tunnels[y] = a.tunnels[y]
      /\ \A y \in Tunnels : Nothing(Item("tunnel", y)) => (d.tunnels[y] = None <=> a.tunnels[y] = None)
      /\ \A y \in Tunnels : Nothing(Item("connector", y)) => (y \in d.running <=> y \in a.running)
      /\ \A h \in Hosts : Nothing(Item("dns", h)) => d.dns[h] = a.dns[h]
      /\ \A k \in Keys : Nothing(Item("login", k)) => d.login[k] = a.login[k]
  BY <1>0 DEF Kept, SameBut
<1>2. MyTunnel(c) = IF c.tunnels[x] = None THEN None ELSE x
  BY AccountAssumption DEF Kept
<1>3. Grounded(Q[j], a, x)
  BY DEF Shaped
<1>4. MyTunnel(d) = IF d.tunnels[x] = None THEN None ELSE x
  <2>0. c.machine \in Tunnels \cup {None} /\ x # None
    BY AccountTypes, AccountAssumption
  <2>1. CASE it = Item("tunnel", x)
    <3>1. d.tunnels[x] = None /\ \A y \in Tunnels : y # x => d.tunnels[y] = c.tunnels[y]
      <4>1. \A y : y # x => it \notin {Item("tunnel", y), Item("config", y)}
        BY <2>1 DEF Item
      <4> HIDE DEF it
      <4>2. SameBut(c, d, it)
        BY DEF it
      <4> QED
        BY <2>1, <4>1, <4>2 DEF SameBut
    <3>2. d.machine = c.machine \/ d.machine = None
      BY DEF SameBut
    <3>3. c.machine # None /\ c.machine # x => c.tunnels[c.machine] = None
      BY <1>2, <2>0 DEF MyTunnel
    <3> QED
      BY <2>0, <3>1, <3>2, <3>3 DEF MyTunnel
  <2>2. CASE it # Item("tunnel", x)
    <3>1. \A y : it # Item("tunnel", y)
      BY <2>2, <1>3, GroundedIs DEF Item
    <3>2. d.machine = c.machine /\ \A y \in Tunnels : d.tunnels[y] = None <=> c.tunnels[y] = None
      BY <3>1 DEF SameBut
    <3> QED
      BY <1>2, <2>0, <3>2 DEF MyTunnel
  <2> QED
    BY <2>1, <2>2
<1>5. MyTunnel(d) = IF x = None THEN None ELSE IF d.tunnels[x] = None THEN None ELSE x
  BY <1>4, AccountAssumption
<1> QED
  BY <1>1, <1>5 DEF Kept

\* A change to what one step is about leaves the other steps where they were.
LEMMA RestKept ==
  ASSUME NEW a \in Accounts, NEW c \in Accounts, NEW d \in Accounts, NEW x \in Tunnels, NEW Q,
         Shaped(Q, a, x), NEW j \in DOMAIN Q, SameBut(c, d, About(Q[j], x)),
         NEW l \in DOMAIN Q, l # j
  PROVE  /\ About(Q[l], x) # About(Q[j], x)
         /\ InPlace(Q[l], c, x) => InPlace(Q[l], d, x)
         /\ AsBefore(Q[l], a, c, x) => AsBefore(Q[l], a, d, x)
         /\ Untouched(Q[l], a, c, x) => Untouched(Q[l], a, d, x)
         /\ \A u : Fits(Q[l], u, c, x) => Fits(Q[l], u, d, x)
<1>1. Grounded(Q[l], a, x) /\ Grounded(Q[j], a, x) /\ Spot(Q[l]) # Spot(Q[j])
  BY DEF Shaped
<1>2. About(Q[l], x) # About(Q[j], x)
  BY <1>1, AboutApart
<1> QED
  BY <1>1, <1>2, ElsewhereKept

\* An accepted step.
LEMMA MidStep ==
  ASSUME NEW a \in Accounts, NEW c \in Accounts, a.used \subseteq c.used, NEW x \in c.used, NEW Q,
         Shaped(Q, a, x), NEW n \in DOMAIN Q, Q[n].op # "CreateTunnel", Accepts(c, Q[n]),
         Midway(Q, a, c, x, n - 1, n, {})
  PROVE  LET d == Perform(c, Q[n], None)
         IN  /\ d \in Accounts /\ d.used = c.used
             /\ Midway(Q, a, d, x, n, n + 1, {}) /\ Done(Q[n], d, x)
<1> DEFINE d == Perform(c, Q[n], None)
<1>0. x \in Tunnels /\ Grounded(Q[n], a, x) /\ n \in Nat /\ DOMAIN Q \subseteq Nat
  BY AccountTypes DEF Shaped
<1>1. TypedStep(Q[n], c.used)
  BY <1>0, GroundedTyped
<1>2. About(Q[n], x) = ItemOf(Q[n])
  BY DEF About
<1>3. d \in Accounts /\ d.used = c.used /\ SameBut(c, d, About(Q[n], x))
  BY <1>1, <1>2, PerformIs DEF PerformsWell
<1>4. Untouched(Q[n], a, c, x)
  BY <1>0 DEF Midway
<1>5. Done(Q[n], d, x)
  BY <1>0, <1>4, StepDone
<1> HIDE DEF d
<1>6. Kept(Q, a, d, x)
  BY <1>0, <1>3, KeptStill DEF Midway
<1>7. ASSUME NEW l \in DOMAIN Q, l <= n PROVE InPlace(Q[l], d, x)
  <2>1. CASE l = n
    BY <2>1, <1>5 DEF Done
  <2>2. CASE l # n
    <3>1. l <= n - 1
      BY <2>2, <1>0, <1>7
    <3> QED
      BY <2>2, <3>1, <1>0, <1>3, RestKept DEF Midway
  <2> QED
    BY <2>1, <2>2
<1>8. ASSUME NEW l \in DOMAIN Q, n + 1 <= l PROVE Untouched(Q[l], a, d, x)
  <2>1. n <= l /\ l # n
    BY <1>0, <1>8
  <2> QED
    BY <2>1, <1>0, <1>3, RestKept DEF Midway
<1>9. \A l \in DOMAIN Q : ~(n < l /\ l < n + 1)
  BY <1>0
<1>10. Midway(Q, a, d, x, n, n + 1, {})
  BY <1>6, <1>7, <1>8, <1>9 DEF Midway
<1> QED
  BY <1>3, <1>5, <1>10 DEF d

\* The step that makes the tunnel, which is the first.
LEMMA MidCreate ==
  ASSUME NEW a \in Accounts, MyTunnel(a) = None, NEW x \in Tunnels \ a.used, NEW Q, Shaped(Q, a, x),
         1 \in DOMAIN Q, Q[1].op = "CreateTunnel"
  PROVE  /\ AddTunnel(a, x) \in Accounts /\ AddTunnel(a, x).used = a.used \cup {x}
         /\ Midway(Q, a, AddTunnel(a, x), x, 1, 2, {})
<1> DEFINE d == AddTunnel(a, x)
<1>0. /\ x # None /\ x \in Tunnels /\ DOMAIN Q \subseteq Nat /\ a.tunnels[x] = None
      /\ a.tunnels \in [Tunnels -> Configs \cup {None}]
  BY AccountTypes, AccountAssumption DEF Shaped
<1>1. /\ d.tunnels = [a.tunnels EXCEPT ![x] = [version |-> 0, rules |-> Unset]]
      /\ d.tunnels[x] # None /\ d.machine = x /\ d.used = a.used \cup {x}
      /\ d.running = a.running /\ d.dns = a.dns /\ d.login = a.login
      /\ d \in Accounts
  BY AddTunnelIs
<1> HIDE DEF d
<1>2. \A y \in Tunnels : y # x => d.tunnels[y] = a.tunnels[y]
  BY <1>0, <1>1
<1>3. About(Q[1], x) = Item("tunnel", x)
  BY DEF About
<1>4. ASSUME NEW l \in DOMAIN Q, l # 1 PROVE Untouched(Q[l], a, d, x)
  <2>1. Grounded(Q[l], a, x) /\ Spot(Q[l]) # Spot(Q[1]) /\ Grounded(Q[1], a, x)
    BY <1>4 DEF Shaped
  <2>2. Q[l].op \in {"PutConfig"} \cup RecordSteps \cup LoginSteps
    <3>1. Spot(Q[1]) = Item("tunnel", None)
      BY <2>1, GroundedIs DEF RecordSteps, LoginSteps
    <3>2. Q[l].op \notin {"CreateTunnel", "DeleteTunnel"}
      BY <2>1, <3>1, GroundedIs DEF RecordSteps, LoginSteps
    <3>3. Q[l].op # "StopConnector"
      BY <2>1 DEF Grounded, CreateTunnel, Step, PutConfig, CreateRecord, UpdateRecord, DeleteRecord,
                  CreateApp, UpdateApp, DeleteApp, DeleteTunnel
    <3> QED
      BY <2>1, <3>2, <3>3, GroundedIs
  <2>3. CASE Q[l].op = "PutConfig"
    BY <2>3, <1>0 DEF Untouched, AsBefore, RecordSteps, LoginSteps
  <2>4. CASE Q[l].op \in RecordSteps
    <3>1. Q[l].op \notin LoginSteps
      BY <2>4 DEF RecordSteps, LoginSteps
    <3>2. AsBefore(Q[l], a, d, x) <=> Back(a.dns[Q[l].host], d.dns[Q[l].host])
      BY <2>4, <3>1 DEF AsBefore, RecordSteps
    <3> QED
      BY <2>4, <3>1, <3>2, <1>1 DEF Untouched, Back
  <2>5. CASE Q[l].op \in LoginSteps
    <3>1. Q[l].op \notin RecordSteps
      BY <2>5 DEF RecordSteps, LoginSteps
    <3>2. AsBefore(Q[l], a, d, x) <=> Look(d.login[Q[l].key]) = Look(a.login[Q[l].key])
      BY <2>5, <3>1 DEF AsBefore, LoginSteps
    <3> QED
      BY <2>5, <3>1, <3>2, <1>1 DEF Untouched
  <2> QED
    BY <2>2, <2>3, <2>4, <2>5
<1>5. InPlace(Q[1], d, x)
  BY <1>0, <1>1 DEF InPlace
<1>6. Kept(Q, a, d, x)
  <2>1. \A y \in Tunnels : (\A l \in DOMAIN Q : About(Q[l], x) # Item("tunnel", y)) => y # x
    BY <1>3
  <2>2. MyTunnel(d) = x
    BY <1>0, <1>1 DEF MyTunnel
  <2> QED
    BY <1>0, <1>1, <1>2, <2>1, <2>2 DEF Kept
<1>7. \A l \in DOMAIN Q : l \in Nat \ {0} /\ ~(1 < l /\ l < 2)
  BY DEF Shaped
<1>8. ASSUME NEW l \in DOMAIN Q, l <= 1 PROVE InPlace(Q[l], d, x)
  <2>1. l = 1
    BY <1>7, <1>8
  <2> QED
    BY <1>5, <2>1
<1>9. ASSUME NEW l \in DOMAIN Q, 2 <= l PROVE Untouched(Q[l], a, d, x)
  <2>1. l # 1
    BY <1>7, <1>9
  <2> QED
    BY <1>4, <2>1
<1>10. Midway(Q, a, d, x, 1, 2, {})
  BY <1>6, <1>7, <1>8, <1>9 DEF Midway
<1> QED
  BY <1>1, <1>10 DEF d

\* Before the first step.
LEMMA MidBegin ==
  ASSUME NEW a \in Accounts, MyTunnel(a) # None, NEW Q, Shaped(Q, a, MyTunnel(a))
  PROVE  Midway(Q, a, a, MyTunnel(a), 0, 1, {})
<1> DEFINE x == MyTunnel(a)
<1>1. a.tunnels[x] # None /\ DOMAIN Q \subseteq Nat \ {0}
  BY DEF MyTunnel, Shaped
<1> HIDE DEF x
<1>2. ASSUME NEW l \in DOMAIN Q PROVE Untouched(Q[l], a, a, x)
  <2>1. Grounded(Q[l], a, x) /\ Q[l].op # "CreateTunnel"
    <3>1. Grounded(Q[l], a, x)
      BY DEF Shaped, x
    <3> QED
      BY <3>1 DEF Grounded, StopConnector, PutConfig, CreateRecord, UpdateRecord, DeleteRecord,
                  CreateApp, UpdateApp, DeleteApp, DeleteTunnel
  <2>2. \/ Q[l].op \in {"DeleteTunnel", "PutConfig", "StopConnector"}
        \/ Q[l].op \in RecordSteps \/ Q[l].op \in LoginSteps
    BY <2>1, GroundedIs
  <2>3. AsBefore(Q[l], a, a, x)
    BY <1>1, <2>2 DEF AsBefore, Back, RecordSteps, LoginSteps
  <2> QED
    BY <2>3 DEF Untouched
<1>3. Kept(Q, a, a, x)
  BY <1>1 DEF Kept, x
<1>4. Midway(Q, a, a, x, 0, 1, {})
  BY <1>1, <1>2, <1>3 DEF Midway
<1> QED
  BY <1>4 DEF x

\* A change of at most one thing.
Touches(c, d, it) == d = c \/ SameBut(c, d, it)

\* A step that failed, or whose answer was lost: what it is about is listed.
LEMMA MidFailed ==
  ASSUME NEW a \in Accounts, NEW c \in Accounts, NEW d \in Accounts, NEW x \in Tunnels, NEW Q,
         Shaped(Q, a, x), NEW n \in DOMAIN Q, Touches(c, d, About(Q[n], x)),
         NEW L, d = c \/ About(Q[n], x) \in L,
         Midway(Q, a, c, x, n - 1, n, {})
  PROVE  Midway(Q, a, d, x, n - 1, n, L)
<1>0. n \in Nat /\ DOMAIN Q \subseteq Nat
  BY DEF Shaped
<1>1. CASE d = c
  BY <1>1 DEF Midway
<1>2. CASE SameBut(c, d, About(Q[n], x)) /\ About(Q[n], x) \in L
  <2>1. Kept(Q, a, d, x)
    BY <1>2, KeptStill DEF Midway
  <2>2. ASSUME NEW l \in DOMAIN Q, l <= n - 1 PROVE InPlace(Q[l], d, x)
    <3>1. l # n
      BY <1>0, <2>2
    <3> QED
      BY <3>1, <2>2, <1>2, RestKept DEF Midway
  <2>3. ASSUME NEW l \in DOMAIN Q, n <= l, About(Q[l], x) \notin L PROVE Untouched(Q[l], a, d, x)
    <3>1. l # n
      BY <1>2, <2>3
    <3> QED
      BY <3>1, <2>3, <1>2, RestKept DEF Midway
  <2>4. \A l \in DOMAIN Q : ~(n - 1 < l /\ l < n)
    BY <1>0
  <2> QED
    BY <2>1, <2>2, <2>3, <2>4 DEF Midway
<1> QED
  BY <1>1, <1>2 DEF Touches

\* The step m is taken back, or listed, and those from there down to k have no undo.
LEMMA MidBack ==
  ASSUME NEW a \in Accounts, NEW c \in Accounts, NEW d \in Accounts, NEW x \in Tunnels, NEW Q,
         Shaped(Q, a, x), NEW n \in Nat, NEW m \in DOMAIN Q, m < n, NEW k \in Nat, k < m,
         Touches(c, d, About(Q[m], x)), NEW L, NEW M, L \subseteq M,
         About(Q[m], x) \in M \/ AsBefore(Q[m], a, d, x),
         \A l \in DOMAIN Q : k < l /\ l < m => ~HasUndo(Q[l]),
         Midway(Q, a, c, x, m, n, L)
  PROVE  Midway(Q, a, d, x, k, n, M)
<1>0. m \in Nat /\ DOMAIN Q \subseteq Nat
  BY DEF Shaped
<1>1. ASSUME NEW l \in DOMAIN Q, l # m
      PROVE  /\ InPlace(Q[l], c, x) => InPlace(Q[l], d, x)
             /\ AsBefore(Q[l], a, c, x) => AsBefore(Q[l], a, d, x)
             /\ Untouched(Q[l], a, c, x) => Untouched(Q[l], a, d, x)
  <2>1. CASE d = c
    BY <2>1
  <2>2. CASE SameBut(c, d, About(Q[m], x))
    BY <2>2, <1>1, RestKept
  <2> QED
    BY <2>1, <2>2 DEF Touches
<1>2. Kept(Q, a, d, x)
  BY KeptStill DEF Midway, Touches
<1>3. ASSUME NEW l \in DOMAIN Q, l <= k PROVE InPlace(Q[l], d, x)
  <2>1. l # m /\ l <= m
    BY <1>0, <1>3
  <2> QED
    BY <2>1, <1>1 DEF Midway
<1>4. ASSUME NEW l \in DOMAIN Q, n <= l, About(Q[l], x) \notin M PROVE Untouched(Q[l], a, d, x)
  <2>1. l # m /\ About(Q[l], x) \notin L
    BY <1>0, <1>4
  <2> QED
    BY <2>1, <1>1, <1>4 DEF Midway
<1>5. ASSUME NEW l \in DOMAIN Q, k < l, l < n, HasUndo(Q[l]), About(Q[l], x) \notin M
      PROVE  AsBefore(Q[l], a, d, x)
  <2>1. CASE l = m
    BY <2>1, <1>5
  <2>2. CASE l # m
    <3>1. m < l /\ About(Q[l], x) \notin L
      BY <2>2, <1>0, <1>5
    <3> QED
      BY <3>1, <2>2, <1>1, <1>5 DEF Midway
  <2> QED
    BY <2>1, <2>2
<1> QED
  BY <1>2, <1>3, <1>4, <1>5 DEF Midway

\* Steps without an undo are passed over.
LEMMA MidLower ==
  ASSUME NEW a, NEW c, NEW x, NEW Q, Shaped(Q, a, x), NEW n \in Nat, NEW m \in Nat, NEW k \in Nat,
         k <= m, NEW L, \A l \in DOMAIN Q : k < l /\ l <= m => ~HasUndo(Q[l]),
         Midway(Q, a, c, x, m, n, L)
  PROVE  Midway(Q, a, c, x, k, n, L)
<1>0. DOMAIN Q \subseteq Nat
  BY DEF Shaped
<1>1. \A l \in DOMAIN Q : l <= k => l <= m
  BY <1>0
<1>2. \A l \in DOMAIN Q : k < l /\ HasUndo(Q[l]) => m < l
  BY <1>0
<1> QED
  BY <1>1, <1>2 DEF Midway

\* What undoes a step is about the same.
LEMMA FitsAbout ==
  ASSUME NEW a \in Accounts, NEW x, NEW s, Grounded(s, a, x), NEW c, NEW u, Fits(s, u, c, x)
  PROVE  ItemOf(u) = About(s, x) /\ u.op # "CreateTunnel"
<1> USE DEF ItemOf, About, Fits, RecordSteps, LoginSteps
<1>1. CASE s.op \in {"CreateTunnel", "DeleteTunnel"}
  BY <1>1 DEF DeleteTunnel
<1>2. CASE s.op = "PutConfig"
  BY <1>2, GroundedIs DEF PutConfig
<1>3. CASE s.op \in RecordSteps
  BY <1>3, GroundedIs DEF DeleteRecord, RestoreRecord, RecreateRecord
<1>4. CASE s.op \in LoginSteps
  BY <1>4, GroundedIs DEF DeleteApp, UpdateApp, CreateApp
<1>5. CASE s.op = "StopConnector"
  BY <1>5, GroundedIs DEF StartConnector
<1> QED
  BY <1>1, <1>2, <1>3, <1>4, <1>5, GroundedIs

-----------------------------------------------------------------------------
(* The undos that are kept                                                 *)

\* The step the last undo is for.
Top(D) == IF D = <<>> THEN 0 ELSE D[Len(D)].step
Entry(n, u) == [step |-> n, undo |-> u]

\* A list with one more entry.
LEMMA AppendIs ==
  ASSUME NEW D, IsList(D), NEW e
  PROVE  /\ IsList(Append(D, e)) /\ DOMAIN Append(D, e) = 1..(Len(D) + 1) /\ Len(D) \in Nat
         /\ Len(Append(D, e)) = Len(D) + 1 /\ DOMAIN D = 1..Len(D)
         /\ Append(D, e)[Len(D) + 1] = e /\ \A j \in DOMAIN D : Append(D, e)[j] = D[j]
         /\ Append(D, e) # <<>>
<1>1. D \in Seq(Range(D) \cup {e}) /\ e \in Range(D) \cup {e}
  <2>1. D \in [1..Len(D) -> Range(D)] /\ Len(D) \in Nat
    BY DEF IsList
  <2> QED
    BY <2>1
<1>2. Append(D, e) \in Seq(Range(D) \cup {e})
  BY <1>1
<1>3. /\ DOMAIN Append(D, e) = 1..(Len(D) + 1) /\ Len(D) \in Nat
      /\ Len(Append(D, e)) = Len(D) + 1 /\ DOMAIN D = 1..Len(D)
      /\ Append(D, e)[Len(D) + 1] = e /\ \A j \in DOMAIN D : Append(D, e)[j] = D[j]
      /\ Append(D, e) # <<>>
  BY <1>1
<1> QED
  BY <1>2, <1>3, ListOf

\* A list without its last entry.
LEMMA ButLastIs ==
  ASSUME NEW D, IsList(D), D # <<>>
  PROVE  LET E == SubSeq(D, 1, Len(D) - 1)
         IN  /\ IsList(E) /\ Len(D) \in Nat \ {0} /\ DOMAIN D = 1..Len(D) /\ Len(E) = Len(D) - 1
             /\ DOMAIN E = 1..(Len(D) - 1) /\ \A j \in DOMAIN E : E[j] = D[j]
             /\ E = <<>> => Len(D) = 1
<1> DEFINE E == SubSeq(D, 1, Len(D) - 1)
<1>1. D \in Seq(Range(D)) /\ Len(D) \in Nat \ {0} /\ DOMAIN D = 1..Len(D)
  BY DEF IsList
<1>2. E \in Seq(Range(D)) /\ Len(E) = Len(D) - 1 /\ \A j \in 1..(Len(D) - 1) : E[j] = D[j]
  BY <1>1
<1> HIDE DEF E
<1>3. DOMAIN E = 1..(Len(D) - 1) /\ (E = <<>> => Len(D) = 1)
  BY <1>1, <1>2
<1> QED
  BY <1>1, <1>2, <1>3, ListOf DEF E

\* Before the first step.
LEMMA LogBegin ==
  ASSUME NEW a, NEW x, NEW Q, Shaped(Q, a, x), NEW c
  PROVE  Logged(Q, <<>>, c, x, 0)
<1>1. IsList(<<>>) /\ DOMAIN <<>> = {}
  BY PartNone DEF Part
<1>2. \A l \in DOMAIN Q : ~(l <= 0)
  BY DEF Shaped
<1> QED
  BY <1>1, <1>2 DEF Logged

\* A step without an undo leaves the log as it is.
LEMMA LogPassed ==
  ASSUME NEW a \in Accounts, NEW c \in Accounts, NEW d \in Accounts, NEW x \in Tunnels, NEW Q,
         Shaped(Q, a, x), NEW n \in DOMAIN Q, SameBut(c, d, About(Q[n], x)), ~HasUndo(Q[n]),
         NEW D, Logged(Q, D, c, x, n - 1)
  PROVE  Logged(Q, D, d, x, n)
<1>0. n \in Nat /\ DOMAIN Q \subseteq Nat
  BY DEF Shaped
<1>1. ASSUME NEW j \in DOMAIN D
      PROVE  D[j].step \in DOMAIN Q /\ D[j].step <= n /\ Fits(Q[D[j].step], D[j].undo, d, x)
  <2>1. D[j].step \in DOMAIN Q /\ D[j].step <= n - 1 /\ Fits(Q[D[j].step], D[j].undo, c, x)
    BY DEF Logged
  <2>2. D[j].step # n /\ D[j].step <= n
    BY <1>0, <2>1
  <2> QED
    BY <2>1, <2>2, RestKept
<1>2. ASSUME NEW l \in DOMAIN Q, l <= n, HasUndo(Q[l]) PROVE \E j \in DOMAIN D : D[j].step = l
  <2>1. l <= n - 1
    <3>1. l # n
      BY <1>2
    <3> QED
      BY <3>1, <1>0, <1>2
  <2> QED
    BY <2>1, <1>2 DEF Logged
<1> QED
  BY <1>1, <1>2 DEF Logged

\* A step with an undo is logged.
LEMMA LogStep ==
  ASSUME NEW a \in Accounts, NEW c \in Accounts, NEW d \in Accounts, NEW x \in Tunnels, NEW Q,
         Shaped(Q, a, x), NEW n \in DOMAIN Q, SameBut(c, d, About(Q[n], x)),
         NEW D, Logged(Q, D, c, x, n - 1), NEW u, Fits(Q[n], u, d, x)
  PROVE  Logged(Q, Append(D, Entry(n, u)), d, x, n)
<1> DEFINE E == Append(D, Entry(n, u))
<1>0. n \in Nat /\ DOMAIN Q \subseteq Nat
  BY DEF Shaped
<1>1. /\ IsList(E) /\ DOMAIN E = 1..(Len(D) + 1) /\ Len(D) \in Nat /\ DOMAIN D = 1..Len(D)
      /\ E[Len(D) + 1] = Entry(n, u) /\ \A j \in DOMAIN D : E[j] = D[j]
  BY AppendIs DEF Logged
<1> HIDE DEF E
<1>2. E[Len(D) + 1].step = n /\ E[Len(D) + 1].undo = u
  BY <1>1 DEF Entry
<1>3. ASSUME NEW j \in DOMAIN D
      PROVE  /\ E[j] = D[j] /\ D[j].step \in DOMAIN Q /\ D[j].step < n
             /\ Fits(Q[D[j].step], D[j].undo, d, x)
  <2>1. D[j].step \in DOMAIN Q /\ D[j].step <= n - 1 /\ Fits(Q[D[j].step], D[j].undo, c, x)
    BY DEF Logged
  <2>2. D[j].step # n /\ D[j].step < n
    BY <1>0, <2>1
  <2> QED
    BY <1>1, <2>1, <2>2, RestKept
<1>4. \A j \in DOMAIN E : j \in DOMAIN D \/ j = Len(D) + 1
  BY <1>1
<1>5. ASSUME NEW j \in DOMAIN E
      PROVE  E[j].step \in DOMAIN Q /\ E[j].step <= n /\ Fits(Q[E[j].step], E[j].undo, d, x)
  <2>1. CASE j \in DOMAIN D
    <3>1. E[j].step \in Nat /\ E[j].step < n
      BY <2>1, <1>0, <1>3
    <3> QED
      BY <2>1, <3>1, <1>0, <1>3
  <2>2. CASE j = Len(D) + 1
    BY <2>2, <1>0, <1>2
  <2> QED
    BY <1>4, <2>1, <2>2
<1>6. ASSUME NEW j \in DOMAIN E, NEW l \in DOMAIN E, j < l PROVE E[j].step < E[l].step
  <2>1. j \in DOMAIN D
    BY <1>1, <1>6
  <2>2. CASE l \in DOMAIN D
    BY <2>1, <2>2, <1>3, <1>6 DEF Logged
  <2>3. CASE l = Len(D) + 1
    BY <2>1, <2>3, <1>2, <1>3
  <2> QED
    BY <1>4, <2>2, <2>3
<1>7. ASSUME NEW l \in DOMAIN Q, l <= n, HasUndo(Q[l]) PROVE \E j \in DOMAIN E : E[j].step = l
  <2>1. CASE l = n
    BY <2>1, <1>1, <1>2
  <2>2. CASE l # n
    <3>1. l <= n - 1
      BY <2>2, <1>0, <1>7
    <3>2. PICK j \in DOMAIN D : D[j].step = l
      BY <3>1, <1>7 DEF Logged
    <3>3. j \in DOMAIN E
      BY <1>1
    <3> QED
      BY <3>2, <3>3, <1>3
  <2> QED
    BY <2>1, <2>2
<1>8. Logged(Q, E, d, x, n)
  BY <1>1, <1>5, <1>6, <1>7 DEF Logged
<1> QED
  BY <1>8 DEF E

\* The log's top, and what is above it.
LEMMA LogTop ==
  ASSUME NEW a, NEW x, NEW Q, Shaped(Q, a, x), NEW c, NEW D, NEW m \in Nat, Logged(Q, D, c, x, m)
  PROVE  /\ Top(D) \in Nat /\ Top(D) <= m
         /\ \A l \in DOMAIN Q : Top(D) < l /\ l <= m => ~HasUndo(Q[l])
         /\ Logged(Q, D, c, x, Top(D))
         /\ D # <<>> => /\ Top(D) \in DOMAIN Q /\ Len(D) \in DOMAIN D
                        /\ Fits(Q[Top(D)], D[Len(D)].undo, c, x)
<1>0. DOMAIN Q \subseteq Nat
  BY DEF Shaped
<1>1. CASE D = <<>>
  <2>1. Top(D) = 0 /\ DOMAIN D = {}
    BY <1>1 DEF Top
  <2>2. \A l \in DOMAIN Q : l <= m => ~HasUndo(Q[l])
    BY <2>1 DEF Logged
  <2>3. \A l \in DOMAIN Q : l <= 0 => l <= m
    BY <1>0
  <2>4. Logged(Q, D, c, x, 0)
    BY <2>1, <2>2, <2>3 DEF Logged
  <2> QED
    BY <1>1, <2>1, <2>2, <2>4
<1>2. CASE D # <<>>
  <2>1. Len(D) \in Nat \ {0} /\ DOMAIN D = 1..Len(D)
    BY <1>2, ButLastIs DEF Logged
  <2>2. Len(D) \in DOMAIN D /\ Top(D) = D[Len(D)].step
    BY <1>2, <2>1 DEF Top
  <2>3. Top(D) \in DOMAIN Q /\ Top(D) \in Nat /\ Top(D) <= m /\ Fits(Q[Top(D)], D[Len(D)].undo, c, x)
    BY <1>0, <2>2 DEF Logged
  <2>4. ASSUME NEW j \in DOMAIN D PROVE D[j].step \in Nat /\ D[j].step <= Top(D)
    <3>1. D[j].step \in Nat
      BY <1>0 DEF Logged
    <3>2. CASE j = Len(D)
      BY <3>2, <2>2, <2>3
    <3>3. CASE j # Len(D)
      <4>1. j < Len(D)
        BY <3>3, <2>1
      <4>2. D[j].step < Top(D)
        BY <4>1, <2>2 DEF Logged
      <4> QED
        BY <4>2, <3>1, <2>3
    <3> QED
      BY <3>1, <3>2, <3>3
  <2>5. ASSUME NEW l \in DOMAIN Q, Top(D) < l, l <= m PROVE ~HasUndo(Q[l])
    <3>1. SUFFICES ASSUME HasUndo(Q[l]) PROVE FALSE
      OBVIOUS
    <3>2. PICK j \in DOMAIN D : D[j].step = l
      BY <3>1, <2>5 DEF Logged
    <3> QED
      BY <3>2, <2>3, <2>4, <2>5
  <2>6. \A l \in DOMAIN Q : l <= Top(D) => l <= m
    BY <1>0, <2>3
  <2>7. Logged(Q, D, c, x, Top(D))
    BY <2>4, <2>6 DEF Logged
  <2> QED
    BY <2>2, <2>3, <2>5, <2>7
<1> QED
  BY <1>1, <1>2

\* A step that failed is not logged.
LEMMA LogFailed ==
  ASSUME NEW a \in Accounts, NEW c \in Accounts, NEW d \in Accounts, NEW x \in Tunnels, NEW Q,
         Shaped(Q, a, x), NEW n \in DOMAIN Q, Touches(c, d, About(Q[n], x)),
         NEW D, Logged(Q, D, c, x, n - 1)
  PROVE  Logged(Q, D, d, x, n - 1)
<1>1. CASE d = c
  BY <1>1
<1>2. CASE SameBut(c, d, About(Q[n], x))
  <2>1. n \in Nat /\ DOMAIN Q \subseteq Nat
    BY DEF Shaped
  <2>2. ASSUME NEW j \in DOMAIN D PROVE Fits(Q[D[j].step], D[j].undo, d, x)
    <3>1. D[j].step \in DOMAIN Q /\ D[j].step <= n - 1 /\ Fits(Q[D[j].step], D[j].undo, c, x)
      BY DEF Logged
    <3>2. D[j].step # n
      BY <2>1, <3>1
    <3> QED
      BY <3>1, <3>2, <1>2, RestKept
  <2> QED
    BY <2>2 DEF Logged
<1> QED
  BY <1>1, <1>2 DEF Touches

\* The last undo is taken off the log, whatever became of it.
LEMMA LogBack ==
  ASSUME NEW a \in Accounts, NEW c \in Accounts, NEW d \in Accounts, NEW x \in Tunnels, NEW Q,
         Shaped(Q, a, x), NEW D, D # <<>>, Logged(Q, D, c, x, Top(D)), Top(D) \in DOMAIN Q,
         Touches(c, d, About(Q[Top(D)], x))
  PROVE  LET E == SubSeq(D, 1, Len(D) - 1)
         IN  /\ Logged(Q, E, d, x, Top(E)) /\ Top(E) \in Nat /\ Top(E) < Top(D)
             /\ \A l \in DOMAIN Q : Top(E) < l /\ l < Top(D) => ~HasUndo(Q[l])
<1> DEFINE E == SubSeq(D, 1, Len(D) - 1)
           m == Top(D)
<1>0. m \in Nat \ {0} /\ DOMAIN Q \subseteq Nat /\ DOMAIN Q = 1..Len(Q)
  BY DEF Shaped
<1>1. /\ IsList(E) /\ Len(D) \in Nat \ {0} /\ DOMAIN D = 1..Len(D) /\ Len(E) = Len(D) - 1
      /\ DOMAIN E = 1..(Len(D) - 1) /\ \A j \in DOMAIN E : E[j] = D[j]
  BY ButLastIs DEF Logged
<1>2. m = D[Len(D)].step
  BY DEF Top
<1> HIDE DEF E, m
<1>3. ASSUME NEW j \in DOMAIN E
      PROVE  /\ j \in DOMAIN D /\ E[j] = D[j] /\ D[j].step \in DOMAIN Q /\ D[j].step <= m - 1
             /\ Fits(Q[D[j].step], D[j].undo, d, x)
  <2>1. j \in DOMAIN D /\ j < Len(D) /\ Len(D) \in DOMAIN D
    BY <1>1
  <2>2. D[j].step \in DOMAIN Q /\ D[j].step < m /\ Fits(Q[D[j].step], D[j].undo, c, x)
    BY <1>2, <2>1 DEF Logged
  <2>3. D[j].step # m /\ D[j].step <= m - 1
    BY <1>0, <2>2
  <2>4. Fits(Q[D[j].step], D[j].undo, d, x)
    <3>1. CASE d = c
      BY <3>1, <2>2
    <3>2. CASE SameBut(c, d, About(Q[m], x))
      BY <3>2, <2>2, <2>3, RestKept DEF m
    <3> QED
      BY <3>1, <3>2 DEF Touches, m
  <2> QED
    BY <2>1, <2>2, <2>3, <2>4, <1>1
<1>4. ASSUME NEW l \in DOMAIN Q, l <= m - 1, HasUndo(Q[l]) PROVE \E j \in DOMAIN E : E[j].step = l
  <2>1. l <= m /\ l # m
    BY <1>0, <1>4
  <2>2. PICK j \in DOMAIN D : D[j].step = l
    BY <2>1, <1>4 DEF Logged, m
  <2>3. j \in DOMAIN E
    <3>1. j # Len(D)
      BY <2>1, <2>2, <1>2
    <3> QED
      BY <3>1, <1>1
  <2> QED
    BY <2>2, <2>3, <1>3
<1>5. \A j, l \in DOMAIN E : j < l => E[j].step < E[l].step
  BY <1>3 DEF Logged
<1>6. Logged(Q, E, d, x, m - 1) /\ m - 1 \in Nat
  BY <1>0, <1>1, <1>3, <1>4, <1>5 DEF Logged
<1>7. /\ Top(E) \in Nat /\ Top(E) <= m - 1
      /\ \A l \in DOMAIN Q : Top(E) < l /\ l <= m - 1 => ~HasUndo(Q[l])
      /\ Logged(Q, E, d, x, Top(E))
  <2> DEFINE k == m - 1
  <2>1. Logged(Q, E, d, x, k) /\ k \in Nat
    BY <1>6
  <2> HIDE DEF k
  <2>2. /\ Top(E) \in Nat /\ Top(E) <= k
        /\ \A l \in DOMAIN Q : Top(E) < l /\ l <= k => ~HasUndo(Q[l])
        /\ Logged(Q, E, d, x, Top(E))
    BY <2>1, LogTop
  <2> QED
    BY <2>2 DEF k
<1>8. Top(E) < m /\ \A l \in DOMAIN Q : l < m => l <= m - 1
  BY <1>0, <1>7
<1> QED
  BY <1>7, <1>8 DEF E, m

-----------------------------------------------------------------------------
(* What a plan is about                                                    *)

\* Run::resolve with x in the place of the created tunnel.
Resolved(s, x) ==
  IF "tunnel" \in DOMAIN s /\ s.tunnel = Created THEN [s EXCEPT !.tunnel = x] ELSE s
Resolution(P, x) == [l \in DOMAIN P |-> Resolved(P[l], x)]

\* The plan of an intent at an observation of account a that is not refused.
Reviewed(i, a) == i \in AllIntents /\ ~Plan(i, Observe(i, a)).refused

\* A step about the tunnel to be made is, resolved, the step about the one that was.
LEMMA ResolvedStep ==
  ASSUME NEW a \in Accounts, NEW x, NEW s,
         Grounded(s, a, IF MyTunnel(a) = None THEN Created ELSE MyTunnel(a)),
         MyTunnel(a) = None \/ x = MyTunnel(a)
  PROVE  /\ Grounded(Resolved(s, x), a, x) /\ Rank(Resolved(s, x)) = Rank(s)
         /\ Spot(Resolved(s, x)) = Spot(s) /\ Resolved(s, x).op = s.op
<1> DEFINE y == IF MyTunnel(a) = None THEN Created ELSE MyTunnel(a)
<1>1. CASE MyTunnel(a) # None
  <2>1. y = x /\ x # Created
    BY <1>1, AccountTypes, AccountAssumption DEF MyTunnel
  <2>2. Resolved(s, x) = s
    <3>1. "tunnel" \in DOMAIN s => s.tunnel = x
      BY <2>1 DEF Grounded, CreateTunnel, Step, PutConfig, CreateRecord, UpdateRecord, DeleteRecord,
                  CreateApp, UpdateApp, DeleteApp, StopConnector, DeleteTunnel
    <3> QED
      BY <2>1, <3>1 DEF Resolved
  <2> QED
    BY <2>1, <2>2
<1>2. CASE MyTunnel(a) = None
  <2>0. Grounded(s, a, Created)
    BY <1>2
  <2>1. CASE s = CreateTunnel
    <3>1. Resolved(s, x) = s
      BY <2>1 DEF Resolved, CreateTunnel, Step
    <3> QED
      BY <1>2, <2>1, <3>1 DEF Grounded
  <2>2. CASE \E r \in Rules, v \in Nat \cup {None} : s = PutConfig(Created, r, v, Configured(a))
    <3>1. PICK r \in Rules, v \in Nat \cup {None} : s = PutConfig(Created, r, v, Configured(a))
      BY <2>2
    <3>2. Resolved(s, x) = PutConfig(x, r, v, Configured(a))
      BY <3>1 DEF Resolved, PutConfig
    <3>3. Rank(Resolved(s, x)) = Rank(s) /\ Spot(Resolved(s, x)) = Spot(s) /\ Resolved(s, x).op = s.op
      BY <3>1, <3>2 DEF PutConfig, Rank, Spot, RecordSteps, LoginSteps
    <3>4. Grounded(Resolved(s, x), a, x)
      BY <3>2 DEF Grounded
    <3> QED
      BY <3>3, <3>4
  <2>3. CASE \E h \in Hosts : a.dns[h] = None /\ s = CreateRecord(h, Created)
    <3>1. PICK h \in Hosts : a.dns[h] = None /\ s = CreateRecord(h, Created)
      BY <2>3
    <3>2. Resolved(s, x) = CreateRecord(h, x)
      BY <3>1 DEF Resolved, CreateRecord
    <3>3. Rank(Resolved(s, x)) = Rank(s) /\ Spot(Resolved(s, x)) = Spot(s) /\ Resolved(s, x).op = s.op
      BY <3>1, <3>2 DEF CreateRecord, Rank, Spot, RecordSteps, LoginSteps
    <3>4. Grounded(Resolved(s, x), a, x)
      BY <3>1, <3>2 DEF Grounded
    <3> QED
      BY <3>3, <3>4
  <2>4. CASE \E h \in Hosts : a.dns[h] # None /\ ~Pointing(a, h) /\ s = UpdateRecord(h, Created, a.dns[h])
    <3>1. PICK h \in Hosts : a.dns[h] # None /\ ~Pointing(a, h) /\ s = UpdateRecord(h, Created, a.dns[h])
      BY <2>4
    <3>2. Resolved(s, x) = UpdateRecord(h, x, a.dns[h])
      BY <3>1 DEF Resolved, UpdateRecord
    <3>3. Rank(Resolved(s, x)) = Rank(s) /\ Spot(Resolved(s, x)) = Spot(s) /\ Resolved(s, x).op = s.op
      BY <3>1, <3>2 DEF UpdateRecord, Rank, Spot, RecordSteps, LoginSteps
    <3>4. Grounded(Resolved(s, x), a, x)
      BY <3>1, <3>2 DEF Grounded
    <3> QED
      BY <3>3, <3>4
  <2>5. CASE \/ \E h \in Hosts : a.dns[h] # None /\ a.dns[h].owned /\ s = DeleteRecord(h, a.dns[h])
             \/ \E k \in Keys, w \in People : a.login[k] = None /\ s = CreateApp(k, w)
             \/ \E k \in Keys, w \in People :
                  a.login[k] # None /\ a.login[k].owned /\ s = UpdateApp(k, w, a.login[k])
             \/ \E k \in Keys : a.login[k] # None /\ a.login[k].owned /\ s = DeleteApp(k, a.login[k])
    <3>1. "tunnel" \notin DOMAIN s
      BY <2>5 DEF DeleteRecord, CreateApp, UpdateApp, DeleteApp
    <3>2. Resolved(s, x) = s
      BY <3>1 DEF Resolved
    <3>3. Grounded(s, a, x)
      BY <2>5 DEF Grounded
    <3> QED
      BY <3>2, <3>3
  <2> QED
    BY <1>2, <2>0, <2>1, <2>2, <2>3, <2>4, <2>5 DEF Grounded
<1> QED
  BY <1>1, <1>2

\* What every plan is: parts in the order of their ranks, of steps that rest on the account.
LEMMA PlanIs ==
  ASSUME NEW a \in Accounts, NEW i, Reviewed(i, a)
  PROVE  LET P == Plan(i, Observe(i, a)).steps
         IN  /\ IsList(P) /\ Ordered(P) /\ DOMAIN P = 1..Len(P) /\ Len(P) \in Nat
             /\ \A l \in DOMAIN P :
                  Grounded(P[l], a, IF MyTunnel(a) = None THEN Created ELSE MyTunnel(a))
             /\ MyTunnel(a) = None => i.kind = "AddRoute" /\ CreateTunnel \in Range(P)
<1> DEFINE s == Observe(i, a)
           P == Plan(i, s).steps
<1>0. i \in AllIntents /\ ~Plan(i, s).refused
  BY DEF Reviewed
<1>1. \E R : Part(P, R)
  BY <1>0, IntentTypes, AddRoutePlan, UpdateRoutePlan, RemoveRoutePlan, RemoveTunnelPlan
<1>2. s.tunnel = MyTunnel(a)
  BY <1>0, Observed
<1>3. \A st \in Range(P) : Grounded(st, a, IF MyTunnel(a) = None THEN Created ELSE MyTunnel(a))
  BY <1>0, <1>2, GroundedSteps DEF TunnelRef
<1>4. MyTunnel(a) = None => i.kind = "AddRoute"
  BY <1>0, <1>2, IntentTypes DEF Plan, PlanUpdateRoute, PlanRemoveRoute, PlanRemoveTunnel, Refused
<1>5. MyTunnel(a) = None => CreateTunnel \in Range(EnsureTunnel(s))
  BY <1>2, TunnelPart DEF EnsureTunnel, Range
<1>6. i.kind = "AddRoute" => Range(EnsureTunnel(s)) \subseteq Range(P)
  BY <1>0, AddRoutePlan
<1>7. IsList(P) /\ Ordered(P)
  BY <1>1 DEF Part
<1>8. DOMAIN P = 1..Len(P) /\ Len(P) \in Nat
  BY <1>7 DEF IsList
<1>9. \A l \in DOMAIN P : P[l] \in Range(P)
  BY DEF Range
<1> HIDE DEF P
<1> QED
  BY <1>3, <1>4, <1>5, <1>6, <1>7, <1>8, <1>9 DEF P

\* The tunnel of a plan: this machine's, or a new one.
Its(a, x) == IF MyTunnel(a) = None THEN x \in Tunnels \ a.used ELSE x = MyTunnel(a)

\* Resolved, a plan is one from the account.
LEMMA PlanShaped ==
  ASSUME NEW a \in Accounts, NEW i, Reviewed(i, a), NEW x, MyTunnel(a) = None \/ x = MyTunnel(a)
  PROVE  LET P == Plan(i, Observe(i, a)).steps
             Q == Resolution(P, x)
         IN  /\ Shaped(Q, a, x) /\ DOMAIN Q = DOMAIN P /\ DOMAIN P = 1..Len(P) /\ Len(P) \in Nat
             /\ \A l \in DOMAIN P : Q[l].op = P[l].op /\ Rank(Q[l]) = Rank(P[l]) /\ Spot(Q[l]) = Spot(P[l])
             /\ MyTunnel(a) = None => /\ 1 \in DOMAIN P /\ P[1] = CreateTunnel
                                      /\ \A l \in DOMAIN P : l # 1 => P[l].op # "CreateTunnel"
             /\ MyTunnel(a) # None => \A l \in DOMAIN P : P[l].op # "CreateTunnel"
<1> DEFINE y == IF MyTunnel(a) = None THEN Created ELSE MyTunnel(a)
           P == Plan(i, Observe(i, a)).steps
           Q == Resolution(P, x)
<1>1. /\ IsList(P) /\ Ordered(P) /\ DOMAIN P = 1..Len(P) /\ Len(P) \in Nat
      /\ \A l \in DOMAIN P : Grounded(P[l], a, y)
      /\ MyTunnel(a) = None => i.kind = "AddRoute" /\ CreateTunnel \in Range(P)
  BY PlanIs
<1> HIDE DEF P
<1>2. DOMAIN Q = DOMAIN P /\ \A l \in DOMAIN P : Q[l] = Resolved(P[l], x)
  BY DEF Resolution
<1>3. \A l \in DOMAIN P : /\ Grounded(Q[l], a, x) /\ Rank(Q[l]) = Rank(P[l])
                          /\ Spot(Q[l]) = Spot(P[l]) /\ Q[l].op = P[l].op
  BY <1>1, <1>2, ResolvedStep
<1> HIDE DEF Q
<1>4. Len(Q) = Len(P)
  <2>1. Q \in [1..Len(P) -> Range(Q)]
    BY <1>1, <1>2 DEF Resolution, Q, Range
  <2> QED
    BY <1>1, <2>1
<1>5. \A j, l \in DOMAIN P : j # l => j < l \/ l < j
  BY <1>1
<1>6. \A j, l \in DOMAIN P : j # l => Spot(P[j]) # Spot(P[l])
  BY <1>1, <1>5 DEF Ordered
<1>7. Shaped(Q, a, x)
  BY <1>1, <1>2, <1>3, <1>4, <1>6 DEF Shaped, Ordered
<1>8. CASE MyTunnel(a) = None
  <2>1. PICK n \in DOMAIN P : P[n] = CreateTunnel
    BY <1>1, <1>8 DEF Range
  <2>2. Spot(CreateTunnel) = Item("tunnel", None) /\ CreateTunnel.op = "CreateTunnel"
    BY DEF Spot, CreateTunnel, Step, RecordSteps, LoginSteps
  <2>3. \A l \in DOMAIN P : P[l].op = "CreateTunnel" => l = n
    <3>1. \A l \in DOMAIN P : P[l].op = "CreateTunnel" => Spot(P[l]) = Item("tunnel", None)
      BY DEF Spot, RecordSteps, LoginSteps
    <3> QED
      BY <2>1, <2>2, <3>1, <1>6
  <2>4. n = 1
    <3>1. SUFFICES ASSUME n # 1 PROVE FALSE
      OBVIOUS
    <3>2. 1 \in DOMAIN P /\ 1 < n
      BY <3>1, <1>1
    <3>3. Rank(P[1]) <= Rank(P[n])
      BY <3>2, <1>1 DEF Ordered
    <3>4. Rank(P[n]) = 1
      BY <2>1, <2>2 DEF Rank
    <3>5. P[1].op = "CreateTunnel"
      BY <3>3, <3>4 DEF Rank
    <3> QED
      BY <2>3, <3>1, <3>2, <3>5
  <2> QED
    BY <2>1, <2>3, <2>4, <1>1, <1>2, <1>3, <1>7, <1>8 DEF P, Q
<1>9. CASE MyTunnel(a) # None
  <2>1. \A l \in DOMAIN P : P[l].op # "CreateTunnel"
    BY <1>1, <1>9 DEF Grounded, CreateTunnel, Step, PutConfig, CreateRecord, UpdateRecord, DeleteRecord,
                  CreateApp, UpdateApp, DeleteApp, StopConnector, DeleteTunnel
  <2> QED
    BY <2>1, <1>1, <1>2, <1>3, <1>7, <1>9 DEF P, Q
<1> QED
  BY <1>8, <1>9

-----------------------------------------------------------------------------
(* What a plan leaves when it is over or given up                          *)

\* A tunnel that is the plan's is there in a, or was never made.
LEMMA ItsOurs ==
  ASSUME NEW a \in Accounts, NEW x, Its(a, x)
  PROVE  /\ x \in Tunnels /\ Ours(a, x) /\ x # None /\ x # Elsewhere /\ x # Address
         /\ MyTunnel(a) = None => a.tunnels[x] = None /\ x \notin a.running /\ x \notin a.used
         /\ MyTunnel(a) # None => a.tunnels[x] # None
         /\ a.tunnels[x] # None => MyTunnel(a) = x
  BY AccountTypes, AccountAssumption DEF Its, Ours, MyTunnel

\* Once everything was taken back, what differs is listed, or had no undo.
LEMMA WhatIsLeft ==
  ASSUME NEW a \in Accounts, NEW c \in Accounts, NEW x, Its(a, x), NEW Q, Shaped(Q, a, x),
         NEW n \in DOMAIN Q, NEW L, Midway(Q, a, c, x, 0, n, L)
  PROVE  Changes(a, c) \subseteq L \cup Unlisted(a)
<1>0. /\ x \in Tunnels /\ x # None /\ DOMAIN Q \subseteq Nat \ {0} /\ Kept(Q, a, c, x)
      /\ MyTunnel(a) = None => a.tunnels[x] = None /\ x \notin a.running
      /\ MyTunnel(a) # None => a.tunnels[x] # None
      /\ a.tunnels[x] # None => MyTunnel(a) = x
  BY ItsOurs DEF Shaped, Midway
<1>1. ASSUME NEW l \in DOMAIN Q, HasUndo(Q[l]), About(Q[l], x) \notin L
      PROVE  AsBefore(Q[l], a, c, x)
  <2>1. 0 < l /\ (l < n \/ n <= l)
    BY <1>0
  <2> QED
    BY <2>1, <1>1 DEF Midway, Untouched
<1>2. \A l \in DOMAIN Q : Grounded(Q[l], a, x)
  BY DEF Shaped
<1>3. ASSUME NEW l \in DOMAIN Q, Q[l].op = "DeleteTunnel" PROVE n <= l
  <2>1. SUFFICES ASSUME l < n PROVE FALSE
    BY <1>0
  <2>2. Rank(Q[l]) = 8 /\ Rank(Q[l]) <= Rank(Q[n]) /\ Spot(Q[l]) # Spot(Q[n])
    BY <1>3, <2>1, <1>0 DEF Shaped, Rank
  <2>3. Spot(Q[l]) = Item("tunnel", None)
    BY <1>3 DEF Spot, RecordSteps, LoginSteps
  <2>4. Q[n].op = "DeleteTunnel"
    BY <2>2, <1>2 DEF Grounded, CreateTunnel, Step, PutConfig, CreateRecord, UpdateRecord, DeleteRecord,
                  CreateApp, UpdateApp, DeleteApp, StopConnector, DeleteTunnel, Rank
  <2> QED
    BY <2>2, <2>3, <2>4 DEF Spot, RecordSteps, LoginSteps
<1>4. ASSUME NEW y \in Tunnels, a.tunnels[y] = None <=> c.tunnels[y] # None
      PROVE  Item("tunnel", y) \in L
  <2>1. PICK l \in DOMAIN Q : About(Q[l], x) = Item("tunnel", y)
    BY <1>0, <1>4 DEF Kept
  <2>2. y = x /\ Q[l].op \in {"CreateTunnel", "DeleteTunnel"}
    BY <1>2, <2>1, GroundedIs DEF Item, RecordSteps, LoginSteps
  <2>3. CASE Q[l].op = "CreateTunnel"
    <3>1. HasUndo(Q[l]) /\ a.tunnels[x] = None
      BY <2>3, <1>0, <1>2 DEF HasUndo, Grounded, CreateTunnel, Step, PutConfig, CreateRecord,
         UpdateRecord, DeleteRecord, CreateApp, UpdateApp, DeleteApp, StopConnector, DeleteTunnel
    <3>2. AsBefore(Q[l], a, c, x) => c.tunnels[x] = None
      BY <2>3, <1>0 DEF AsBefore, RecordSteps, LoginSteps
    <3> QED
      BY <3>1, <3>2, <2>1, <2>2, <1>1, <1>4
  <2>4. CASE Q[l].op = "DeleteTunnel"
    <3>1. n <= l /\ a.tunnels[x] # None
      BY <2>4, <1>0, <1>2, <1>3 DEF Grounded, CreateTunnel, Step, PutConfig, CreateRecord,
         UpdateRecord, DeleteRecord, CreateApp, UpdateApp, DeleteApp, StopConnector, DeleteTunnel
    <3>2. AsBefore(Q[l], a, c, x) => c.tunnels[x] # None
      BY <2>4 DEF AsBefore, RecordSteps, LoginSteps
    <3> QED
      BY <3>1, <3>2, <2>1, <2>2, <1>4 DEF Midway, Untouched
  <2> QED
    BY <2>2, <2>3, <2>4
<1>5. ASSUME NEW y \in Tunnels, a.tunnels[y] # None, c.tunnels[y] # None,
             TunnelLook(a, y) # TunnelLook(c, y)
      PROVE  Item("config", y) \in L \cup Unlisted(a)
  <2>1. a.tunnels[y].rules # c.tunnels[y].rules
    BY <1>5 DEF TunnelLook
  <2>2. PICK l \in DOMAIN Q : About(Q[l], x) = Item("config", y)
    BY <1>0, <1>5, <2>1 DEF Kept
  <2>3. y = x /\ Q[l].op = "PutConfig"
    BY <1>2, <2>2, GroundedIs DEF Item, RecordSteps, LoginSteps
  <2>4. MyTunnel(a) = x
    BY <1>0, <1>5, <2>3
  <2>5. AsBefore(Q[l], a, c, x) => c.tunnels[x].rules = a.tunnels[x].rules
    BY <1>0, <1>5, <2>3 DEF AsBefore, RecordSteps, LoginSteps
  <2>6. CASE HasUndo(Q[l])
    BY <2>1, <2>2, <2>3, <2>5, <2>6, <1>1
  <2>7. CASE ~HasUndo(Q[l])
    <3>1. Q[l].previous = Configured(a)
      BY <2>3, <1>2 DEF Grounded, CreateTunnel, Step, PutConfig, CreateRecord,
         UpdateRecord, DeleteRecord, CreateApp, UpdateApp, DeleteApp, StopConnector, DeleteTunnel
    <3>2. a.tunnels[x].rules = Unset
      BY <1>0, <2>3, <2>4, <2>7, <3>1 DEF HasUndo, Configured
    <3>3. Item("config", x) \in Unlisted(a)
      BY <1>0, <2>4, <3>2 DEF Unlisted
    <3> QED
      BY <3>3, <2>3
  <2> QED
    BY <2>6, <2>7
<1>6. ASSUME NEW h \in Hosts, Look(a.dns[h]) # Look(c.dns[h]), ~Marked(a.dns[h], c.dns[h])
      PROVE  Item("dns", h) \in L
  <2>1. PICK l \in DOMAIN Q : About(Q[l], x) = Item("dns", h)
    BY <1>0, <1>6 DEF Kept
  <2>2. Q[l].op \in RecordSteps /\ Q[l].host = h
    BY <1>2, <2>1, GroundedIs DEF Item
  <2>3. HasUndo(Q[l]) /\ Q[l].op \notin LoginSteps
    BY <2>2 DEF HasUndo, RecordSteps, LoginSteps
  <2>4. AsBefore(Q[l], a, c, x) => Back(a.dns[h], c.dns[h])
    BY <2>2, <2>3 DEF AsBefore, RecordSteps
  <2> QED
    BY <2>1, <2>3, <2>4, <1>1, <1>6 DEF Back
<1>7. ASSUME NEW k \in Keys, Look(a.login[k]) # Look(c.login[k]) PROVE Item("login", k) \in L
  <2>1. PICK l \in DOMAIN Q : About(Q[l], x) = Item("login", k)
    BY <1>0, <1>7 DEF Kept
  <2>2. Q[l].op \in LoginSteps /\ Q[l].key = k
    BY <1>2, <2>1, GroundedIs DEF Item
  <2>3. HasUndo(Q[l]) /\ Q[l].op \notin RecordSteps
    BY <2>2 DEF HasUndo, RecordSteps, LoginSteps
  <2>4. AsBefore(Q[l], a, c, x) => Look(c.login[k]) = Look(a.login[k])
    BY <2>2, <2>3 DEF AsBefore, LoginSteps
  <2> QED
    BY <2>1, <2>3, <2>4, <1>1, <1>7
<1>8. ASSUME NEW y \in Tunnels, y \in a.running <=> y \notin c.running
      PROVE  Item("connector", y) \in L \cup Unlisted(a)
  <2>1. PICK l \in DOMAIN Q : About(Q[l], x) = Item("connector", y)
    BY <1>0, <1>8 DEF Kept
  <2>2. y = x /\ Q[l].op = "StopConnector"
    BY <1>2, <2>1, GroundedIs DEF Item, RecordSteps, LoginSteps
  <2>3. HasUndo(Q[l])
    BY <2>2 DEF HasUndo
  <2>4. AsBefore(Q[l], a, c, x) => (x \in a.running => x \in c.running)
    BY <2>2 DEF AsBefore, RecordSteps, LoginSteps
  <2>5. x \notin a.running => Item("connector", x) \in Unlisted(a)
    BY <1>0 DEF Unlisted
  <2> QED
    BY <2>1, <2>2, <2>3, <2>4, <2>5, <1>1, <1>8
<1>9. \A h \in Hosts : Item("mark", h) \in Unlisted(a)
  BY DEF Unlisted
<1> QED
  BY <1>4, <1>5, <1>6, <1>7, <1>8, <1>9 DEF Changes

-----------------------------------------------------------------------------
(* The rules a plan is to leave                                            *)

Desired(i, s) ==
  CASE i.kind = "AddRoute" ->
         IF Routes(s)[i.key] = {} THEN [Routes(s) EXCEPT ![i.key] = {i.origin}] ELSE Routes(s)
    [] i.kind = "UpdateRoute" -> [Routes(s) EXCEPT ![i.key] = {}, ![i.to] = @ \cup {i.origin}]
    [] i.kind = "RemoveRoute" -> [Routes(s) EXCEPT ![i.key] = {}]
    [] i.kind = "RemoveTunnel" -> NoRules

\* What a part of a plan has to do with the rules.
Writes(R, r) == \A st \in R : st.op = "PutConfig" => st.rules = r
NoWrite(R) == \A st \in R : st.op # "PutConfig"

\* Only one part of a plan writes the rules.
LEMMA OtherParts ==
  ASSUME NEW s
  PROVE  /\ NoWrite(Range(EnsureTunnel(s)))
         /\ \A k, who : NoWrite(Range(Protect(s, k, who))) /\ NoWrite(Range(Unprotect(s, k)))
         /\ \A h : NoWrite(Range(EnsureDns(s, h))) /\ NoWrite(Range(ReleaseDns(s, h)))
         /\ NoWrite({})
<1>1. NoWrite(Range(EnsureTunnel(s))) /\ NoWrite({})
  BY TunnelPart DEF NoWrite, CreateTunnel, Step
<1>2. ASSUME NEW k, NEW who
      PROVE  NoWrite(Range(Protect(s, k, who))) /\ NoWrite(Range(Unprotect(s, k)))
  BY LoginPart, UnprotectPart DEF NoWrite, CreateApp, UpdateApp, DeleteApp
<1>3. ASSUME NEW h
      PROVE  NoWrite(Range(EnsureDns(s, h))) /\ NoWrite(Range(ReleaseDns(s, h)))
  BY RecordPart, ReleasePart DEF NoWrite, CreateRecord, UpdateRecord, DeleteRecord
<1> QED
  BY <1>1, <1>2, <1>3

\* The one part of a plan that writes rules.
LEMMA ConfigPartWrites ==
  ASSUME NEW s, NEW r
  PROVE  /\ Writes(Range(WriteRules(s, r)), r)
         /\ r # s.rules => \E st \in Range(WriteRules(s, r)) : st.op = "PutConfig"
<1> DEFINE v == IF s.tunnel = None THEN None ELSE s.version
<1>1. Range(WriteRules(s, r)) = IF r = s.rules THEN {} ELSE {PutConfig(TunnelRef(s), r, v, s.rules)}
  BY ConfigPart
<1> HIDE DEF v
<1>2. PutConfig(TunnelRef(s), r, v, s.rules).rules = r
      /\ PutConfig(TunnelRef(s), r, v, s.rules).op = "PutConfig"
  BY DEF PutConfig
<1> QED
  BY <1>1, <1>2 DEF Writes

\* A plan writes the rules it wants, and only where they differ.
LEMMA PlanWrites ==
  ASSUME NEW a \in Accounts, NEW i, Reviewed(i, a)
  PROVE  LET s == Observe(i, a)
             P == Plan(i, s).steps
         IN  /\ Desired(i, s) \in Rules
             /\ Writes(Range(P), Desired(i, s))
             /\ Desired(i, s) # Routes(s) => \E st \in Range(P) : st.op = "PutConfig"
<1> DEFINE s == Observe(i, a)
           P == Plan(i, s).steps
           r == Desired(i, s)
<1>0. /\ i \in AllIntents /\ ~Plan(i, s).refused
      /\ Routes(s) \in Rules /\ NoRules \in Rules /\ s.rules \in Rules \cup {Unset}
      /\ Routes(s) = IF s.rules = Unset THEN NoRules ELSE s.rules
  <2>1. i \in AllIntents /\ ~Plan(i, s).refused
    BY DEF Reviewed
  <2>2. Routes(s) \in Rules /\ s.rules = Configured(a) /\ Configured(a) \in Rules \cup {Unset}
    BY <2>1, Observed
  <2> QED
    BY <2>1, <2>2 DEF Routes, NoRules, Rules
<1>1. CASE i.kind = "AddRoute"
  <2>1. i.key \in Keys /\ i.origin \in Origins
    BY <1>0, <1>1, IntentTypes
  <2> DEFINE w == [Routes(s) EXCEPT ![i.key] = {i.origin}]
  <2>2. w \in Rules /\ w[i.key] # {}
    BY <2>1, <1>0 DEF Rules
  <2>3. Range(P) = Range(EnsureTunnel(s)) \cup Range(Protect(s, i.key, i.who))
                  \cup (IF Routes(s)[i.key] = {} THEN Range(WriteRules(s, w)) ELSE {})
                  \cup Range(EnsureDns(s, HostOf[i.key]))
    BY <1>0, <1>1, AddRoutePlan
  <2>4. r = IF Routes(s)[i.key] = {} THEN w ELSE Routes(s)
    BY <1>1 DEF Desired
  <2>5. Routes(s)[i.key] = {} => w # s.rules
    <3>1. Routes(s)[i.key] = {} /\ w = s.rules => s.rules # Unset
      BY <2>2, AccountAssumption
    <3> QED
      BY <3>1, <2>2, <1>0
  <2> HIDE DEF w, P, r, s
  <2>6. CASE Routes(s)[i.key] = {}
    <3>1. \E st \in Range(WriteRules(s, w)) : st.op = "PutConfig"
      BY <2>5, <2>6, ConfigPartWrites
    <3>2. Writes(Range(P), w)
      BY <2>3, <2>6, OtherParts, ConfigPartWrites DEF Writes, NoWrite
    <3> QED
      BY <3>1, <3>2, <2>2, <2>3, <2>4, <2>6 DEF s, P, r
  <2>7. CASE Routes(s)[i.key] # {}
    <3>1. Writes(Range(P), r)
      BY <2>3, <2>7, OtherParts DEF Writes, NoWrite
    <3> QED
      BY <3>1, <2>4, <2>7, <1>0 DEF s, P, r
  <2> QED
    BY <2>6, <2>7
<1>2. CASE i.kind = "UpdateRoute"
  <2>1. i.key \in Keys /\ i.to \in Keys /\ i.origin \in Origins
    BY <1>0, <1>2, IntentTypes
  <2> DEFINE w == [Routes(s) EXCEPT ![i.key] = {}, ![i.to] = @ \cup {i.origin}]
  <2>2. w \in Rules /\ r = w
    BY <2>1, <1>0, <1>2 DEF Rules, Desired
  <2>3. Range(P) = Range(Protect(s, i.to, i.who)) \cup Range(WriteRules(s, w))
                  \cup Range(EnsureDns(s, HostOf[i.to]))
                  \cup (IF HostOf[i.key] # HostOf[i.to] /\ LastOfHost(s, i.key)
                        THEN Range(ReleaseDns(s, HostOf[i.key])) ELSE {})
                  \cup (IF i.who # None /\ i.to = i.key THEN {} ELSE Range(Unprotect(s, i.key)))
    BY <1>0, <1>2, UpdateRoutePlan
  <2>4. s.rules # Unset
    <3>1. Routes(s)[i.key] # {}
      BY <1>2, <1>0 DEF Plan, PlanUpdateRoute, Refused
    <3> QED
      BY <3>1, <2>1, <1>0 DEF NoRules
  <2> HIDE DEF w, P, r, s
  <2>5. Writes(Range(P), w)
    <3> DEFINE R5 == IF HostOf[i.key] # HostOf[i.to] /\ LastOfHost(s, i.key)
                     THEN Range(ReleaseDns(s, HostOf[i.key])) ELSE {}
               R6 == IF i.who # None /\ i.to = i.key THEN {} ELSE Range(Unprotect(s, i.key))
    <3>1. NoWrite(R5) /\ NoWrite(R6)
      BY OtherParts
    <3>2. NoWrite(Range(Protect(s, i.to, i.who))) /\ NoWrite(Range(EnsureDns(s, HostOf[i.to])))
      BY OtherParts
    <3>3. Range(P) = Range(Protect(s, i.to, i.who)) \cup Range(WriteRules(s, w))
                  \cup Range(EnsureDns(s, HostOf[i.to])) \cup R5 \cup R6
      BY <2>3
    <3> HIDE DEF R5, R6
    <3> QED
      BY <3>1, <3>2, <3>3, ConfigPartWrites DEF Writes, NoWrite
  <2>6. w # Routes(s) => \E st \in Range(P) : st.op = "PutConfig"
    BY <2>3, <2>4, <1>0, ConfigPartWrites
  <2> QED
    BY <2>2, <2>5, <2>6 DEF s, P, r
<1>3. CASE i.kind = "RemoveRoute"
  <2>1. i.key \in Keys
    BY <1>0, <1>3, IntentTypes
  <2> DEFINE w == [Routes(s) EXCEPT ![i.key] = {}]
  <2>2. w \in Rules /\ r = w
    BY <2>1, <1>0, <1>3 DEF Rules, Desired
  <2>3. Range(P) = Range(WriteRules(s, w))
         \cup (IF LastOfHost(s, i.key) THEN Range(ReleaseDns(s, HostOf[i.key])) ELSE {})
         \cup Range(Unprotect(s, i.key))
    BY <1>0, <1>3, RemoveRoutePlan
  <2>4. s.rules # Unset
    <3>1. Routes(s)[i.key] # {}
      BY <1>3, <1>0 DEF Plan, PlanRemoveRoute, Refused
    <3> QED
      BY <3>1, <2>1, <1>0 DEF NoRules
  <2> HIDE DEF w, P, r, s
  <2>5. Writes(Range(P), w)
    BY <2>3, OtherParts, ConfigPartWrites DEF Writes, NoWrite
  <2>6. w # Routes(s) => \E st \in Range(P) : st.op = "PutConfig"
    BY <2>3, <2>4, <1>0, ConfigPartWrites
  <2> QED
    BY <2>2, <2>5, <2>6 DEF s, P, r
<1>4. CASE i.kind = "RemoveTunnel"
  <2> DEFINE routed == {HostOf[k] : k \in {j \in Keys : Routes(s)[j] # {}}}
             R5 == {DeleteRecord(h, s.dns[h]) : h \in {g \in routed : Releases(s, g)}}
             R6 == {DeleteApp(k, s.login[k]) : k \in {j \in Keys : Owns(s, j)}}
             R7 == {StopConnector(s.tunnel), DeleteTunnel(s.tunnel)}
  <2>1. r = NoRules
    BY <1>4 DEF Desired
  <2>2. Range(P) = (IF routed = {} THEN {} ELSE Range(WriteRules(s, NoRules))) \cup R5 \cup R6 \cup R7
    BY <1>0, <1>4, RemoveTunnelPlan
  <2>3. NoWrite(R5) /\ NoWrite(R6) /\ NoWrite(R7)
    BY DEF NoWrite, DeleteRecord, DeleteApp, StopConnector, DeleteTunnel
  <2>4. NoRules # Routes(s) => routed # {} /\ NoRules # s.rules
    <3>1. ASSUME routed = {} PROVE Routes(s) = NoRules
      <4>1. \A k \in Keys : Routes(s)[k] = {}
        BY <3>1
      <4> QED
        BY <4>1, <1>0 DEF Rules, NoRules
    <3> QED
      BY <3>1, <1>0
  <2> HIDE DEF routed, R5, R6, R7, P, r, s
  <2>5. Writes(Range(P), NoRules)
    BY <2>2, <2>3, ConfigPartWrites DEF Writes, NoWrite
  <2>6. NoRules # Routes(s) => \E st \in Range(P) : st.op = "PutConfig"
    BY <2>2, <2>4, ConfigPartWrites
  <2> QED
    BY <2>1, <2>5, <2>6, <1>0 DEF s, P, r
<1> QED
  BY <1>0, <1>1, <1>2, <1>3, <1>4, IntentTypes

-----------------------------------------------------------------------------
(* No route lacks its login half-way                                       *)

\* A plan from account a about tunnel x, and where it stands in account c: steps up to m
\* are there, and those from n on were not begun.
PlanFrom(i, a, x) == Resolution(Plan(i, Observe(i, a)).steps, x)
Halfway(i, a, c, x, m, n, L) ==
  /\ Reviewed(i, a) /\ Its(a, x)
  /\ m \in Nat /\ n \in Nat /\ m < n
  /\ n \in DOMAIN PlanFrom(i, a, x) \/ m = n - 1
  /\ Midway(PlanFrom(i, a, x), a, c, x, m, n, L)

\* A step of the plan, resolved, is one of these.
LEMMA InPlan ==
  ASSUME NEW a \in Accounts, NEW i, Reviewed(i, a), NEW x, Its(a, x)
  PROVE  LET P == Plan(i, Observe(i, a)).steps
             Q == PlanFrom(i, a, x)
         IN  /\ Shaped(Q, a, x)
             /\ \A st \in Range(P) : \E l \in DOMAIN Q : Q[l] = Resolved(st, x)
             /\ \A l \in DOMAIN Q : \E st \in Range(P) : Q[l] = Resolved(st, x)
             /\ \A st \in Range(P) : /\ Resolved(st, x).op = st.op
                                     /\ Rank(Resolved(st, x)) = Rank(st)
                                     /\ Spot(Resolved(st, x)) = Spot(st)
                                     /\ Grounded(Resolved(st, x), a, x)
<1> DEFINE P == Plan(i, Observe(i, a)).steps
           Q == PlanFrom(i, a, x)
<1>0. MyTunnel(a) = None \/ x = MyTunnel(a)
  BY DEF Its
<1>1. Shaped(Q, a, x) /\ DOMAIN Q = DOMAIN P
  BY <1>0, PlanShaped DEF PlanFrom
<1>2. \A l \in DOMAIN P : Grounded(P[l], a, IF MyTunnel(a) = None THEN Created ELSE MyTunnel(a))
  BY PlanIs
<1>3. \A l \in DOMAIN P : Q[l] = Resolved(P[l], x)
  BY DEF PlanFrom, Resolution
<1> HIDE DEF P, Q
<1>4. \A st \in Range(P) : \E l \in DOMAIN P : st = P[l]
  BY DEF Range
<1>5. \A l \in DOMAIN P : P[l] \in Range(P)
  BY DEF Range
<1>6. \A st \in Range(P) : /\ Resolved(st, x).op = st.op
                           /\ Rank(Resolved(st, x)) = Rank(st)
                           /\ Spot(Resolved(st, x)) = Spot(st)
                           /\ Grounded(Resolved(st, x), a, x)
  BY <1>0, <1>2, <1>4, ResolvedStep
<1> QED
  BY <1>1, <1>3, <1>4, <1>5, <1>6 DEF P, Q

\* What resolving leaves of a step.
LEMMA ResolvedIs ==
  /\ \A s, x : s.op = "PutConfig" /\ (\E t, r, v, q : s = PutConfig(t, r, v, q)) => Resolved(s, x).rules = s.rules
  /\ \A x, h, t : Resolved(CreateRecord(h, t), x).host = h
  /\ \A x, h, t, q : Resolved(UpdateRecord(h, t, q), x).host = h
  /\ \A x, k, w : Resolved(CreateApp(k, w), x) = CreateApp(k, w)
  /\ \A x, k, p : Resolved(DeleteApp(k, p), x) = DeleteApp(k, p)
  /\ \A x, k, w, p : Resolved(UpdateApp(k, w, p), x) = UpdateApp(k, w, p)
  /\ \A x, h, q : Resolved(DeleteRecord(h, q), x) = DeleteRecord(h, q)
<1>1. ASSUME NEW x, NEW t, NEW r, NEW v, NEW q
      PROVE  Resolved(PutConfig(t, r, v, q), x).rules = PutConfig(t, r, v, q).rules
  BY DEF Resolved, PutConfig
<1>2. ASSUME NEW x, NEW h, NEW t PROVE Resolved(CreateRecord(h, t), x).host = h
  BY DEF Resolved, CreateRecord
<1>3. ASSUME NEW x, NEW h, NEW t, NEW q PROVE Resolved(UpdateRecord(h, t, q), x).host = h
  BY DEF Resolved, UpdateRecord
<1>4. ASSUME NEW x, NEW k, NEW w, NEW p
      PROVE  /\ Resolved(CreateApp(k, w), x) = CreateApp(k, w)
             /\ Resolved(DeleteApp(k, p), x) = DeleteApp(k, p)
             /\ Resolved(UpdateApp(k, w, p), x) = UpdateApp(k, w, p)
  BY DEF Resolved, CreateApp, DeleteApp, UpdateApp
<1>5. ASSUME NEW x, NEW h, NEW q PROVE Resolved(DeleteRecord(h, q), x) = DeleteRecord(h, q)
  BY DEF Resolved, DeleteRecord
<1> QED
  BY <1>1, <1>2, <1>3, <1>4, <1>5

\* Once the plan's configuration is written, the tunnel has the rules that were to be left.
LEMMA RulesInPlace ==
  ASSUME NEW a \in Accounts, NEW c \in Accounts, NEW i, NEW x, NEW m, NEW n, NEW L,
         Halfway(i, a, c, x, m, n, L), c.tunnels[x] # None,
         \A l \in DOMAIN PlanFrom(i, a, x) : PlanFrom(i, a, x)[l].op = "PutConfig" => l <= m
  PROVE  RulesOf(c, x) = Desired(i, Observe(i, a))
<1> DEFINE s == Observe(i, a)
           P == Plan(i, s).steps
           Q == PlanFrom(i, a, x)
           r == Desired(i, s)
<1>0. /\ x \in Tunnels /\ x # None /\ i \in AllIntents /\ Reviewed(i, a)
      /\ Midway(Q, a, c, x, m, n, L)
      /\ (MyTunnel(a) = None => a.tunnels[x] = None)
      /\ (MyTunnel(a) # None => a.tunnels[x] # None /\ MyTunnel(a) = x)
  BY ItsOurs DEF Halfway, Reviewed
<1>1. r \in Rules /\ Writes(Range(P), r) /\ (r # Routes(s) => \E st \in Range(P) : st.op = "PutConfig")
  BY <1>0, PlanWrites
<1>2. /\ Shaped(Q, a, x)
      /\ \A st \in Range(P) : \E l \in DOMAIN Q : Q[l] = Resolved(st, x)
      /\ \A l \in DOMAIN Q : \E st \in Range(P) : Q[l] = Resolved(st, x)
      /\ \A st \in Range(P) : Resolved(st, x).op = st.op /\ Grounded(Resolved(st, x), a, x)
  BY <1>0, InPlan DEF Halfway
<1>3. \A l \in DOMAIN Q : Q[l].op = "PutConfig" => l <= m
  OBVIOUS
<1>4. \A st \in Range(P) : st.op = "PutConfig" => \E t, u, v, q : st = PutConfig(t, u, v, q)
  <2>1. \A st \in Range(P) : Grounded(st, a, IF MyTunnel(a) = None THEN Created ELSE MyTunnel(a))
    BY <1>0, PlanIs DEF Range
  <2> QED
    BY <2>1 DEF Grounded, CreateTunnel, Step, CreateRecord, UpdateRecord, DeleteRecord,
                CreateApp, UpdateApp, DeleteApp, StopConnector, DeleteTunnel
<1>5. Routes(s) = RulesOf(a, MyTunnel(a)) /\ Routes(s) \in Rules
  BY <1>0, Observed
<1> HIDE DEF P, Q, r, s
<1>6. ASSUME NEW l \in DOMAIN Q, Q[l].op = "PutConfig" PROVE RulesOf(c, x) = r
  <2>1. PICK st \in Range(P) : Q[l] = Resolved(st, x)
    BY <1>2
  <2>2. st.op = "PutConfig" /\ st.rules = r
    BY <2>1, <1>1, <1>2, <1>6 DEF Writes
  <2>3. Q[l].rules = r
    BY <2>1, <2>2, <1>4, ResolvedIs
  <2>4. InPlace(Q[l], c, x)
    BY <1>0, <1>3, <1>6 DEF Midway
  <2>5. c.tunnels[x].rules = r
    BY <2>3, <2>4, <1>6 DEF InPlace
  <2> QED
    BY <2>5, <1>0, <1>1, AccountAssumption DEF RulesOf
<1>7. ASSUME \A l \in DOMAIN Q : Q[l].op # "PutConfig" PROVE RulesOf(c, x) = r
  <2>1. r = Routes(s)
    BY <1>1, <1>2, <1>7
  <2>2. \A l \in DOMAIN Q : About(Q[l], x) # Item("config", x)
    <3>1. \A l \in DOMAIN Q : Grounded(Q[l], a, x)
      BY <1>2 DEF Shaped
    <3> QED
      BY <3>1, <1>7, GroundedIs DEF Item
  <2>3. CASE MyTunnel(a) # None
    <3>1. c.tunnels[x] = a.tunnels[x]
      BY <2>2, <2>3, <1>0 DEF Midway, Kept
    <3> QED
      BY <2>1, <2>3, <3>1, <1>0, <1>5 DEF RulesOf
  <2>4. CASE MyTunnel(a) = None
    <3>1. Routes(s) = NoRules
      BY <2>4, <1>5 DEF RulesOf
    <3>2. i.kind = "AddRoute" /\ i.key \in Keys /\ i.origin \in Origins
      BY <2>4, <1>0, PlanIs, IntentTypes
    <3>3. r[i.key] # {}
      BY <3>1, <3>2 DEF r, Desired, NoRules
    <3> QED
      BY <2>1, <3>1, <3>2, <3>3 DEF NoRules
  <2> QED
    BY <2>3, <2>4
<1> QED
  BY <1>6, <1>7 DEF r, s

\* A login comes off only a key whose rule goes too, or that the change was asked to open.
LEMMA LoginGoes ==
  ASSUME NEW a \in Accounts, NEW i, Reviewed(i, a), NEW k \in Keys, NEW p,
         DeleteApp(k, p) \in Range(Plan(i, Observe(i, a)).steps)
  PROVE  \/ Desired(i, Observe(i, a))[k] = {}
         \/ i.kind = "UpdateRoute" /\ i.who = None /\ i.key = k /\ i.to = k
<1> DEFINE s == Observe(i, a)
           P == Plan(i, s).steps
           st == DeleteApp(k, p)
<1>0. i \in AllIntents /\ ~Plan(i, s).refused /\ Routes(s) \in Rules /\ st \in Range(P)
  BY Observed DEF Reviewed
<1>1. st.op = "DeleteApp" /\ st.key = k /\ \A j, q : st = DeleteApp(j, q) => j = k
  BY DEF DeleteApp
<1> HIDE DEF st
<1>2. /\ st \notin Range(EnsureTunnel(s)) /\ \A r : st \notin Range(WriteRules(s, r))
      /\ \A j, w : st \notin Range(Protect(s, j, w))
      /\ \A h : st \notin Range(EnsureDns(s, h)) /\ st \notin Range(ReleaseDns(s, h))
      /\ \A j : st \in Range(Unprotect(s, j)) => j = k
  <2>1. st \notin Range(EnsureTunnel(s))
    BY <1>1, TunnelPart DEF CreateTunnel, Step
  <2>2. ASSUME NEW r PROVE st \notin Range(WriteRules(s, r))
    BY <1>1, ConfigPart DEF PutConfig
  <2>3. ASSUME NEW j, NEW w PROVE st \notin Range(Protect(s, j, w))
    BY <1>1, LoginPart DEF CreateApp, UpdateApp
  <2>4. ASSUME NEW h PROVE st \notin Range(EnsureDns(s, h)) /\ st \notin Range(ReleaseDns(s, h))
    BY <1>1, RecordPart, ReleasePart DEF CreateRecord, UpdateRecord, DeleteRecord
  <2>5. ASSUME NEW j, st \in Range(Unprotect(s, j)) PROVE j = k
    BY <1>1, <2>5, UnprotectPart
  <2> QED
    BY <2>1, <2>2, <2>3, <2>4, <2>5
<1>3. CASE i.kind = "AddRoute"
  BY <1>0, <1>2, <1>3, AddRoutePlan
<1>4. CASE i.kind = "UpdateRoute"
  <2>1. i.key \in Keys /\ i.to \in Keys
    BY <1>0, <1>4, IntentTypes
  <2>2. ~(i.who # None /\ i.to = i.key) /\ st \in Range(Unprotect(s, i.key))
    BY <1>0, <1>2, <1>4, UpdateRoutePlan
  <2>3. i.key = k
    BY <1>2, <2>2
  <2>4. i.to # k => Desired(i, s)[k] = {}
    BY <1>0, <1>4, <2>1, <2>3 DEF Desired, Rules
  <2> QED
    BY <1>4, <2>2, <2>3, <2>4
<1>5. CASE i.kind = "RemoveRoute"
  <2>1. i.key = k
    BY <1>0, <1>2, <1>5, RemoveRoutePlan
  <2> QED
    BY <1>0, <1>5, <2>1 DEF Desired, Rules
<1>6. CASE i.kind = "RemoveTunnel"
  BY <1>6 DEF Desired, NoRules
<1> QED
  BY <1>0, <1>3, <1>4, <1>5, <1>6, IntentTypes

\* No key is left open, wherever a change or its rollback is interrupted.
LEMMA Closed ==
  ASSUME NEW a \in Accounts, NEW c \in Accounts, NEW i, NEW x, NEW m, NEW n,
         Halfway(i, a, c, x, m, n, {}), NEW k \in Keys
  PROVE  ~Exposed(i, a, c, k)
<1> SUFFICES ASSUME MeantGuarded(i, a, k), LiveIn(c, k), c.login[k] = None PROVE FALSE
  BY DEF Exposed
<1> DEFINE s == Observe(i, a)
           P == Plan(i, s).steps
           Q == PlanFrom(i, a, x)
           h == HostOf[k]
<1>0. /\ x \in Tunnels /\ x # None /\ x # Elsewhere /\ x # Address /\ i \in AllIntents /\ Reviewed(i, a)
      /\ ~Plan(i, s).refused
      /\ Midway(Q, a, c, x, m, n, {}) /\ m \in Nat /\ n \in Nat /\ m < n
      /\ n \in DOMAIN Q \/ m = n - 1
      /\ (MyTunnel(a) = None => a.tunnels[x] = None /\ x \notin a.used)
      /\ (MyTunnel(a) # None => a.tunnels[x] # None /\ MyTunnel(a) = x)
      /\ h \in Hosts
      /\ None \notin Records /\ None \notin Apps
  BY ItsOurs, AccountAssumption DEF Halfway, Reviewed
<1>1. /\ Shaped(Q, a, x)
      /\ \A st \in Range(P) : \E l \in DOMAIN Q : Q[l] = Resolved(st, x)
      /\ \A l \in DOMAIN Q : \E st \in Range(P) : Q[l] = Resolved(st, x)
      /\ \A st \in Range(P) : /\ Resolved(st, x).op = st.op
                              /\ Rank(Resolved(st, x)) = Rank(st)
                              /\ Spot(Resolved(st, x)) = Spot(st)
                              /\ Grounded(Resolved(st, x), a, x)
  BY <1>0, InPlan DEF Halfway
<1>2. DOMAIN Q \subseteq Nat /\ \A l \in DOMAIN Q : Grounded(Q[l], a, x)
  BY <1>1 DEF Shaped
<1>3. /\ c.tunnels[x] # None /\ RulesOf(c, x)[k] # {} /\ c.dns[h] # None /\ c.dns[h].to = x
  <2>1. MyTunnel(c) = IF c.tunnels[x] = None THEN None ELSE x
    BY <1>0 DEF Midway, Kept
  <2> QED
    BY <2>1, <1>0 DEF LiveIn
<1>4. ASSUME NEW l \in DOMAIN Q PROVE l <= m => InPlace(Q[l], c, x)
  BY <1>0, <1>4 DEF Midway
<1>5. ASSUME NEW l \in DOMAIN Q, HasUndo(Q[l]) \/ n <= l, m < l PROVE AsBefore(Q[l], a, c, x)
  <2>1. n <= l \/ l < n
    BY <1>0, <1>2
  <2> QED
    BY <2>1, <1>0, <1>5 DEF Midway, Untouched
<1>6. \A j, l \in DOMAIN Q : Rank(Q[j]) < Rank(Q[l]) => j < l
  <2>1. ASSUME NEW j \in DOMAIN Q, NEW l \in DOMAIN Q, Rank(Q[j]) < Rank(Q[l]) PROVE j < l
    <3>1. Rank(Q[j]) \in Nat /\ Rank(Q[l]) \in Nat
      BY DEF Rank
    <3>2. ~(l < j) /\ l # j
      BY <2>1, <3>1, <1>1 DEF Shaped
    <3> QED
      BY <3>2, <1>2
  <2> QED
    BY <2>1
<1> HIDE DEF P, Q, s, h
<1>7. CASE a.login[k] # None
  <2>1. PICK l \in DOMAIN Q : About(Q[l], x) = Item("login", k)
    BY <1>0, <1>7 DEF Midway, Kept
  <2>2. Q[l].op \in LoginSteps /\ Q[l].key = k /\ HasUndo(Q[l]) /\ Q[l].op \notin RecordSteps
    BY <1>2, <2>1, GroundedIs DEF Item, HasUndo, RecordSteps, LoginSteps
  <2>3. ~AsBefore(Q[l], a, c, x)
    <3>1. AsBefore(Q[l], a, c, x) => Look(c.login[k]) = Look(a.login[k])
      BY <2>2 DEF AsBefore, LoginSteps
    <3>2. Look(a.login[k]) # None
      <4>1. a.login[k] \in Apps
        BY <1>7, AccountTypes
      <4>2. [a.login[k] EXCEPT !.id = 0] \in Apps
        BY <4>1 DEF Apps
      <4> QED
        BY <4>2, <1>0, <1>7 DEF Look
    <3>3. Look(c.login[k]) = None
      BY DEF Look
    <3> QED
      BY <3>1, <3>2, <3>3
  <2>4. l <= m
    BY <2>2, <2>3, <1>0, <1>2, <1>5
  <2>5. Q[l].op = "DeleteApp"
    <3>1. Q[l].op \in {"CreateApp", "UpdateApp"} => c.login[k] # None
      BY <2>2, <2>4, <1>4 DEF InPlace, LoginSteps
    <3> QED
      BY <3>1, <2>2 DEF LoginSteps
  <2>6. PICK st \in Range(P) : Q[l] = Resolved(st, x)
    BY <1>1
  <2>7. \E p : st = DeleteApp(k, p)
    <3>1. st.op = "DeleteApp"
      BY <2>5, <2>6, <1>1
    <3>2. Grounded(st, a, IF MyTunnel(a) = None THEN Created ELSE MyTunnel(a))
      BY <1>0, PlanIs DEF Range, P, s
    <3>3. PICK j, p : st = DeleteApp(j, p)
      BY <3>1, <3>2 DEF Grounded, CreateTunnel, Step, CreateRecord, UpdateRecord, DeleteRecord,
                CreateApp, UpdateApp, PutConfig, StopConnector, DeleteTunnel
    <3>4. Q[l] = DeleteApp(j, p)
      BY <2>6, <3>3, ResolvedIs
    <3>5. j = k
      BY <2>2, <3>4 DEF DeleteApp
    <3> QED
      BY <3>3, <3>5
  <2>8. Desired(i, s)[k] = {} \/ (i.kind = "UpdateRoute" /\ i.who = None /\ i.key = k /\ i.to = k)
    BY <2>7, <1>0, LoginGoes DEF P, s
  <2>9. Desired(i, s)[k] = {}
    BY <2>8, <1>0, <1>7 DEF MeantGuarded
  <2>10. \A j \in DOMAIN Q : Q[j].op = "PutConfig" => j <= m
    <3>1. ASSUME NEW j \in DOMAIN Q, Q[j].op = "PutConfig" PROVE j <= m
      <4>1. Rank(Q[j]) = 3 /\ Rank(Q[l]) = 6
        BY <2>5, <3>1 DEF Rank
      <4>2. j < l
        BY <4>1, <1>6
      <4> QED
        BY <4>2, <2>4, <1>0, <1>2
    <3> QED
      BY <3>1
  <2>11. RulesOf(c, x) = Desired(i, s)
    BY <2>10, <1>3, RulesInPlace DEF Q, s
  <2> QED
    BY <2>9, <2>11, <1>3
<1>8. CASE a.login[k] = None
  <2>1. /\ ~LiveIn(a, k) /\ i.who # None
        /\ \/ i.kind = "AddRoute" /\ i.key = k
           \/ i.kind = "UpdateRoute" /\ i.to = k
    BY <1>8 DEF MeantGuarded
  <2>2. /\ i.who \in People
        /\ i.kind = "UpdateRoute" => i.key \in Keys
        /\ i.origin \in Origins
    BY <1>0, <2>1, IntentTypes
  <2>3. /\ s.login[k] = None /\ s.dns[h] = a.dns[h] /\ s.tunnel = MyTunnel(a)
        /\ Routes(s) = RulesOf(a, MyTunnel(a)) /\ s.rules = Configured(a) /\ Routes(s) \in Rules
    <3>1. h \in HostsOf(i, a)
      BY <2>1 DEF HostsOf, h
    <3> QED
      BY <3>1, <1>0, <1>8, Observed DEF s
  <2> DEFINE w == IF i.kind = "AddRoute" THEN [Routes(s) EXCEPT ![k] = {i.origin}]
                  ELSE [Routes(s) EXCEPT ![i.key] = {}, ![k] = @ \cup {i.origin}]
  <2>4. /\ CreateApp(k, i.who) \in Range(P)
        /\ Range(EnsureDns(s, h)) \subseteq Range(P)
        /\ i.kind = "UpdateRoute" \/ Routes(s)[k] = {} => Range(WriteRules(s, w)) \subseteq Range(P)
    <3>1. CreateApp(k, i.who) \in Range(Protect(s, k, i.who))
      BY <2>1, <2>3, LoginPart
    <3>2. CASE i.kind = "AddRoute"
      BY <3>1, <3>2, <2>1, <1>0, AddRoutePlan DEF P, s, h
    <3>3. CASE i.kind = "UpdateRoute"
      BY <3>1, <3>3, <2>1, <1>0, UpdateRoutePlan DEF P, s, h
    <3> QED
      BY <3>2, <3>3, <2>1
  <2>5. w[k] # {}
    BY <2>1, <2>2, <2>3 DEF Rules
  <2> HIDE DEF w
  <2>6. PICK l \in DOMAIN Q : Q[l] = CreateApp(k, i.who)
    BY <2>4, <1>1, ResolvedIs
  <2>7. m < l
    <3>1. ~InPlace(Q[l], c, x)
      BY <2>6 DEF CreateApp, InPlace
    <3> QED
      BY <3>1, <1>0, <1>2, <1>4
  <2>8. \A j \in DOMAIN Q : Rank(Q[j]) > 2 => m < j
    <3>1. Rank(Q[l]) = 2
      BY <2>6 DEF CreateApp, Rank
    <3>2. \A j \in DOMAIN Q : Rank(Q[j]) > 2 => l < j
      BY <3>1, <1>6
    <3> QED
      BY <3>2, <2>7, <1>0, <1>2
  <2>9. CASE ~PointsHere(s, h)
    <3>1. \E st \in Range(P) : st \in {CreateRecord(h, TunnelRef(s)), UpdateRecord(h, TunnelRef(s), s.dns[h])}
      BY <2>4, <2>9, RecordPart
    <3>2. PICK j \in DOMAIN Q : Q[j].op \in {"CreateRecord", "UpdateRecord"} /\ Q[j].host = h
      <4>1. PICK st \in Range(P) : st \in {CreateRecord(h, TunnelRef(s)), UpdateRecord(h, TunnelRef(s), s.dns[h])}
        BY <3>1
      <4>2. PICK j \in DOMAIN Q : Q[j] = Resolved(st, x)
        BY <1>1
      <4>3. st.op \in {"CreateRecord", "UpdateRecord"}
        BY <4>1 DEF CreateRecord, UpdateRecord
      <4>4. Resolved(st, x).host = h
        BY <4>1, ResolvedIs
      <4> QED
        BY <4>2, <4>3, <4>4, <1>1
    <3>3. HasUndo(Q[j]) /\ Rank(Q[j]) = 4 /\ Q[j].op \in RecordSteps /\ Q[j].op \notin LoginSteps
      BY <3>2 DEF HasUndo, Rank, RecordSteps, LoginSteps
    <3>4. AsBefore(Q[j], a, c, x)
      BY <3>3, <2>8, <1>5
    <3>5. Back(a.dns[h], c.dns[h])
      BY <3>2, <3>3, <3>4 DEF AsBefore, RecordSteps
    <3>6. a.dns[h] # None /\ a.dns[h].to = x
      <4>1. c.dns[h] \in Records /\ a.dns[h] \in Records \cup {None}
        BY <1>0, <1>3, AccountTypes
      <4> QED
        BY <4>1, <3>5, <1>3, BackThere
    <3>7. x \in a.used
      BY <3>6, <1>0, AccountTypes
    <3>8. MyTunnel(a) = x
      BY <3>7, <1>0
    <3> QED
      BY <3>6, <3>8, <2>3, <2>9, <1>0 DEF PointsHere
  <2>10. CASE PointsHere(s, h)
    <3>1. MyTunnel(a) = x /\ a.dns[h] # None /\ a.dns[h].to = x /\ a.tunnels[x] # None
      BY <2>10, <2>3, <1>0 DEF PointsHere
    <3>2. RulesOf(a, x)[k] = {}
      BY <3>1, <2>1, <1>0 DEF LiveIn, h
    <3>3. Routes(s)[k] = {}
      BY <3>1, <3>2, <2>3
    <3>4. w # s.rules
      <4>1. w \in Rules
        BY <2>2, <2>3 DEF w, Rules
      <4> QED
        BY <4>1, <3>3, <2>5, AccountAssumption DEF Routes
    <3>5. PICK j \in DOMAIN Q : Q[j].op = "PutConfig"
      <4>1. PICK st \in Range(WriteRules(s, w)) : st.op = "PutConfig"
        BY <3>4, ConfigPartWrites
      <4>2. st \in Range(P)
        BY <4>1, <2>4, <3>3
      <4> QED
        BY <4>1, <4>2, <1>1
    <3>6. m < j /\ Rank(Q[j]) = 3
      BY <3>5, <2>8 DEF Rank
    <3>7. ~AsBefore(Q[j], a, c, x)
      <4>1. AsBefore(Q[j], a, c, x) => c.tunnels[x].rules = a.tunnels[x].rules
        BY <3>1, <3>5, <1>0, <1>3 DEF AsBefore, RecordSteps, LoginSteps
      <4> QED
        BY <4>1, <3>1, <3>2, <1>0, <1>3 DEF RulesOf
    <3>8. ~HasUndo(Q[j]) /\ j < n
      BY <3>6, <3>7, <1>0, <1>2, <1>5
    <3>9. Configured(a) = Unset
      <4>1. Q[j].previous = Configured(a)
        BY <3>5, <1>2 DEF Grounded, CreateTunnel, Step, PutConfig, CreateRecord,
           UpdateRecord, DeleteRecord, CreateApp, UpdateApp, DeleteApp, StopConnector, DeleteTunnel
      <4> QED
        BY <4>1, <3>5, <3>8 DEF HasUndo
    <3>10. i.kind = "AddRoute"
      <4>1. Routes(s) = NoRules
        BY <3>9, <2>3 DEF Routes
      <4>2. i.kind = "UpdateRoute" => Routes(s)[i.key] # {}
        BY <1>0 DEF Plan, PlanUpdateRoute, Refused, s
      <4> QED
        BY <4>1, <4>2, <2>1, <2>2 DEF NoRules
    <3>11. n \in DOMAIN Q
      BY <3>6, <3>8, <1>0, <1>2
    <3>12. Rank(Q[n]) \in {1, 2, 3, 4}
      <4>1. Part(P, {1, 2, 3, 4})
        BY <3>10, <1>0, AddRoutePlan DEF P, s
      <4>2. PICK st \in Range(P) : Q[n] = Resolved(st, x)
        BY <3>11, <1>1
      <4> QED
        BY <4>1, <4>2, <1>1 DEF Part
    <3>13. Rank(Q[n]) >= 3 /\ Spot(Q[n]) # Spot(Q[j])
      BY <3>6, <3>8, <3>11, <1>1, <1>2 DEF Shaped
    <3>14. CASE Rank(Q[n]) = 3
      <4>1. Q[n].op = "PutConfig"
        BY <3>14 DEF Rank
      <4> QED
        BY <4>1, <3>5, <3>13 DEF Spot, RecordSteps, LoginSteps
    <3>15. CASE Rank(Q[n]) = 4
      <4>1. PICK st \in Range(P) : Q[n] = Resolved(st, x)
        BY <3>11, <1>1
      <4>2. Rank(st) = 4
        BY <4>1, <3>15, <1>1
      <4>3. st \in Range(EnsureDns(s, h))
        <5> DEFINE v == [Routes(s) EXCEPT ![k] = {i.origin}]
        <5>1. \/ st \in Range(EnsureTunnel(s))
              \/ st \in Range(Protect(s, k, i.who))
              \/ st \in Range(WriteRules(s, v))
              \/ st \in Range(EnsureDns(s, h))
          <6>1. i.key = k /\ i.kind = "AddRoute"
            BY <3>10, <2>1
          <6>2. Range(P) = Range(EnsureTunnel(s)) \cup Range(Protect(s, k, i.who))
                  \cup (IF Routes(s)[k] = {}
                         THEN Range(WriteRules(s, v)) ELSE {})
                  \cup Range(EnsureDns(s, h))
            BY <6>1, <1>0, AddRoutePlan DEF P, s, h
          <6> QED
            BY <6>2, <3>3
        <5>2. Part(EnsureTunnel(s), {1}) /\ Part(Protect(s, k, i.who), {2})
              /\ Part(WriteRules(s, v), {3})
          BY TunnelPart, LoginPart, ConfigPart
        <5> HIDE DEF v
        <5>3. \A u \in Range(EnsureTunnel(s)) : Rank(u) = 1
          BY <5>2 DEF Part
        <5>4. \A u \in Range(Protect(s, k, i.who)) : Rank(u) = 2
          BY <5>2 DEF Part
        <5>5. \A u \in Range(WriteRules(s, v)) : Rank(u) = 3
          BY <5>2 DEF Part
        <5>6. st \notin Range(EnsureTunnel(s))
          BY <5>3, <4>2
        <5>7. st \notin Range(Protect(s, k, i.who))
          BY <5>4, <4>2
        <5>8. st \notin Range(WriteRules(s, v))
          BY <5>5, <4>2
        <5> QED
          BY <5>1, <5>6, <5>7, <5>8
      <4> QED
        BY <4>3, <2>10, RecordPart
    <3> QED
      BY <3>12, <3>13, <3>14, <3>15
  <2> QED
    BY <2>9, <2>10
<1> QED
  BY <1>7, <1>8

-----------------------------------------------------------------------------
(* A plan that is made to its end                                          *)

\* The steps of a plan that are about a record, and about a login.
RecordsAbout(R, h) == {st \in R : st.op \in RecordSteps /\ st.host = h}
LoginsAbout(R, k) == {st \in R : st.op \in LoginSteps /\ st.key = k}

\* A part that is about no record, and one that is about no login.
NoRecord(R) == \A st \in R : st.op \notin RecordSteps
NoLogin(R) == \A st \in R : st.op \notin LoginSteps
OnRecord(R, h) == \A st \in R : st.op \in RecordSteps /\ st.host = h
OnLogin(R, k) == \A st \in R : st.op \in LoginSteps /\ st.key = k

\* What each part of a plan is about.
LEMMA PartsAbout ==
  ASSUME NEW s
  PROVE  /\ NoRecord(Range(EnsureTunnel(s))) /\ NoLogin(Range(EnsureTunnel(s)))
         /\ \A r : NoRecord(Range(WriteRules(s, r))) /\ NoLogin(Range(WriteRules(s, r)))
         /\ \A k, w : NoRecord(Range(Protect(s, k, w))) /\ OnLogin(Range(Protect(s, k, w)), k)
         /\ \A k : NoRecord(Range(Unprotect(s, k))) /\ OnLogin(Range(Unprotect(s, k)), k)
         /\ \A h : NoLogin(Range(EnsureDns(s, h))) /\ OnRecord(Range(EnsureDns(s, h)), h)
         /\ \A h : NoLogin(Range(ReleaseDns(s, h))) /\ OnRecord(Range(ReleaseDns(s, h)), h)
<1> USE DEF NoRecord, NoLogin, OnRecord, OnLogin, RecordSteps, LoginSteps
<1>1. NoRecord(Range(EnsureTunnel(s))) /\ NoLogin(Range(EnsureTunnel(s)))
  BY TunnelPart DEF CreateTunnel, Step
<1>2. ASSUME NEW r PROVE NoRecord(Range(WriteRules(s, r))) /\ NoLogin(Range(WriteRules(s, r)))
  BY ConfigPart DEF PutConfig
<1>3. ASSUME NEW k, NEW w
      PROVE  NoRecord(Range(Protect(s, k, w))) /\ OnLogin(Range(Protect(s, k, w)), k)
  BY LoginPart DEF CreateApp, UpdateApp
<1>4. ASSUME NEW k PROVE NoRecord(Range(Unprotect(s, k))) /\ OnLogin(Range(Unprotect(s, k)), k)
  BY UnprotectPart DEF DeleteApp
<1>5. ASSUME NEW h PROVE NoLogin(Range(EnsureDns(s, h))) /\ OnRecord(Range(EnsureDns(s, h)), h)
  BY RecordPart DEF CreateRecord, UpdateRecord
<1>6. ASSUME NEW h PROVE NoLogin(Range(ReleaseDns(s, h))) /\ OnRecord(Range(ReleaseDns(s, h)), h)
  BY ReleasePart DEF DeleteRecord
<1> QED
  BY <1>1, <1>2, <1>3, <1>4, <1>5, <1>6

\* A plan to add a route is about its record and its login.
LEMMA AddRouteAbout ==
  ASSUME NEW i \in AllIntents, i.kind = "AddRoute", NEW s, ~Plan(i, s).refused
  PROVE  LET R == Range(Plan(i, s).steps)
         IN  /\ \A h : RecordsAbout(R, h) = IF h = HostOf[i.key] THEN Range(EnsureDns(s, h)) ELSE {}
             /\ \A k : LoginsAbout(R, k) = IF k = i.key THEN Range(Protect(s, k, i.who)) ELSE {}
<1> DEFINE R == Range(Plan(i, s).steps)
           w == [Routes(s) EXCEPT ![i.key] = {i.origin}]
<1>1. R = Range(EnsureTunnel(s)) \cup Range(Protect(s, i.key, i.who))
            \cup (IF Routes(s)[i.key] = {} THEN Range(WriteRules(s, w)) ELSE {})
            \cup Range(EnsureDns(s, HostOf[i.key]))
  BY AddRoutePlan
<1>2. /\ NoRecord(Range(EnsureTunnel(s))) /\ NoLogin(Range(EnsureTunnel(s)))
      /\ NoRecord(Range(WriteRules(s, w))) /\ NoLogin(Range(WriteRules(s, w)))
      /\ NoRecord(Range(Protect(s, i.key, i.who))) /\ OnLogin(Range(Protect(s, i.key, i.who)), i.key)
      /\ NoLogin(Range(EnsureDns(s, HostOf[i.key])))
      /\ OnRecord(Range(EnsureDns(s, HostOf[i.key])), HostOf[i.key])
  BY PartsAbout
<1> HIDE DEF R, w
<1> QED
  BY <1>1, <1>2 DEF R, RecordsAbout, LoginsAbout, NoRecord, NoLogin, OnRecord, OnLogin

\* A plan to change a route is about the record and the login it is to have, and those it
\* had.
LEMMA UpdateRouteAbout ==
  ASSUME NEW i \in AllIntents, i.kind = "UpdateRoute", NEW s, ~Plan(i, s).refused
  PROVE  LET R == Range(Plan(i, s).steps)
             old == HostOf[i.key]
             new == HostOf[i.to]
         IN  /\ \A h : RecordsAbout(R, h) =
                         IF h = new THEN Range(EnsureDns(s, h))
                         ELSE IF h = old /\ LastOfHost(s, i.key) THEN Range(ReleaseDns(s, h)) ELSE {}
             /\ \A k : LoginsAbout(R, k) =
                         (IF k = i.to THEN Range(Protect(s, k, i.who)) ELSE {})
                         \cup (IF k = i.key /\ ~(i.who # None /\ i.to = i.key)
                               THEN Range(Unprotect(s, k)) ELSE {})
<1> DEFINE R == Range(Plan(i, s).steps)
           w == [Routes(s) EXCEPT ![i.key] = {}, ![i.to] = @ \cup {i.origin}]
           old == HostOf[i.key]
           new == HostOf[i.to]
           A == IF old # new /\ LastOfHost(s, i.key) THEN Range(ReleaseDns(s, old)) ELSE {}
           B == IF i.who # None /\ i.to = i.key THEN {} ELSE Range(Unprotect(s, i.key))
<1>1. R = Range(Protect(s, i.to, i.who)) \cup Range(WriteRules(s, w))
            \cup Range(EnsureDns(s, new)) \cup A \cup B
  BY UpdateRoutePlan
<1>2. /\ NoRecord(Range(WriteRules(s, w))) /\ NoLogin(Range(WriteRules(s, w)))
      /\ NoRecord(Range(Protect(s, i.to, i.who))) /\ OnLogin(Range(Protect(s, i.to, i.who)), i.to)
      /\ NoLogin(Range(EnsureDns(s, new))) /\ OnRecord(Range(EnsureDns(s, new)), new)
  BY PartsAbout
<1>3. NoLogin(A) /\ OnRecord(A, old) /\ NoRecord(B) /\ OnLogin(B, i.key)
  <2>1. NoLogin({}) /\ NoRecord({}) /\ OnRecord({}, old) /\ OnLogin({}, i.key)
    BY DEF NoRecord, NoLogin, OnRecord, OnLogin
  <2>2. NoLogin(Range(ReleaseDns(s, old))) /\ OnRecord(Range(ReleaseDns(s, old)), old)
    BY PartsAbout
  <2>3. NoRecord(Range(Unprotect(s, i.key))) /\ OnLogin(Range(Unprotect(s, i.key)), i.key)
    BY PartsAbout
  <2> QED
    BY <2>1, <2>2, <2>3, Zenon
<1> HIDE DEF R, w, A, B, old, new
<1>4. ASSUME NEW h
      PROVE  RecordsAbout(R, h) = (IF h = new THEN Range(EnsureDns(s, new)) ELSE {})
                                  \cup (IF h = old THEN A ELSE {})
  BY <1>1, <1>2, <1>3 DEF RecordsAbout, NoRecord, OnRecord
<1>5. ASSUME NEW k
      PROVE  LoginsAbout(R, k) = (IF k = i.to THEN Range(Protect(s, i.to, i.who)) ELSE {})
                                 \cup (IF k = i.key THEN B ELSE {})
  BY <1>1, <1>2, <1>3 DEF LoginsAbout, NoLogin, OnLogin
<1>6. ASSUME NEW h
      PROVE  RecordsAbout(R, h) =
               IF h = new THEN Range(EnsureDns(s, h))
               ELSE IF h = old /\ LastOfHost(s, i.key) THEN Range(ReleaseDns(s, h)) ELSE {}
  BY <1>4 DEF A
<1>7. ASSUME NEW k
      PROVE  LoginsAbout(R, k) =
               (IF k = i.to THEN Range(Protect(s, k, i.who)) ELSE {})
                \cup (IF k = i.key /\ ~(i.who # None /\ i.to = i.key)
                      THEN Range(Unprotect(s, k)) ELSE {})
  BY <1>5 DEF B
<1> QED
  BY <1>6, <1>7 DEF R, old, new

\* A plan to remove a route is about its record, unless another route needs it, and its login.
LEMMA RemoveRouteAbout ==
  ASSUME NEW i \in AllIntents, i.kind = "RemoveRoute", NEW s, ~Plan(i, s).refused
  PROVE  LET R == Range(Plan(i, s).steps)
         IN  /\ \A h : RecordsAbout(R, h) =
                         IF h = HostOf[i.key] /\ LastOfHost(s, i.key)
                         THEN Range(ReleaseDns(s, h)) ELSE {}
             /\ \A k : LoginsAbout(R, k) = IF k = i.key THEN Range(Unprotect(s, k)) ELSE {}
<1> DEFINE R == Range(Plan(i, s).steps)
           w == [Routes(s) EXCEPT ![i.key] = {}]
           A == IF LastOfHost(s, i.key) THEN Range(ReleaseDns(s, HostOf[i.key])) ELSE {}
<1>1. R = Range(WriteRules(s, w)) \cup A \cup Range(Unprotect(s, i.key))
  BY RemoveRoutePlan
<1>2. /\ NoRecord(Range(WriteRules(s, w))) /\ NoLogin(Range(WriteRules(s, w)))
      /\ NoRecord(Range(Unprotect(s, i.key))) /\ OnLogin(Range(Unprotect(s, i.key)), i.key)
  BY PartsAbout
<1>3. NoLogin(A) /\ OnRecord(A, HostOf[i.key])
  BY PartsAbout DEF NoLogin, OnRecord
<1> HIDE DEF R, w, A
<1>4. ASSUME NEW h PROVE RecordsAbout(R, h) = IF h = HostOf[i.key] THEN A ELSE {}
  BY <1>1, <1>2, <1>3 DEF RecordsAbout, NoRecord, OnRecord
<1>5. ASSUME NEW k PROVE LoginsAbout(R, k) = IF k = i.key THEN Range(Unprotect(s, k)) ELSE {}
  BY <1>1, <1>2, <1>3 DEF LoginsAbout, NoLogin, OnLogin
<1> QED
  BY <1>4, <1>5 DEF R, A

\* A plan to remove the tunnel is about the records and the logins that were its own.
LEMMA RemoveTunnelAbout ==
  ASSUME NEW i \in AllIntents, i.kind = "RemoveTunnel", NEW s, ~Plan(i, s).refused
  PROVE  LET R == Range(Plan(i, s).steps)
             routed == {HostOf[k] : k \in {j \in Keys : Routes(s)[j] # {}}}
         IN  /\ \A h : RecordsAbout(R, h) = IF h \in routed THEN Range(ReleaseDns(s, h)) ELSE {}
             /\ \A k \in Keys : LoginsAbout(R, k) = Range(Unprotect(s, k))
<1> DEFINE R == Range(Plan(i, s).steps)
           routed == {HostOf[k] : k \in {j \in Keys : Routes(s)[j] # {}}}
           C == IF routed = {} THEN {} ELSE Range(WriteRules(s, NoRules))
           A == {DeleteRecord(h, s.dns[h]) : h \in {g \in routed : Releases(s, g)}}
           B == {DeleteApp(k, s.login[k]) : k \in {j \in Keys : Owns(s, j)}}
           D == {StopConnector(s.tunnel), DeleteTunnel(s.tunnel)}
<1>1. R = C \cup A \cup B \cup D
  BY RemoveTunnelPlan
<1>2. NoRecord(C) /\ NoLogin(C)
  BY PartsAbout DEF NoRecord, NoLogin
<1>3. NoRecord(D) /\ NoLogin(D)
  BY DEF NoRecord, NoLogin, StopConnector, DeleteTunnel, RecordSteps, LoginSteps
<1>4. NoLogin(A) /\ \A h : {st \in A : st.op \in RecordSteps /\ st.host = h}
                              = IF h \in routed THEN Range(ReleaseDns(s, h)) ELSE {}
  <2>1. \A h : /\ DeleteRecord(h, s.dns[h]).op = "DeleteRecord"
               /\ DeleteRecord(h, s.dns[h]).host = h
    BY DEF DeleteRecord
  <2>2. \A h : Range(ReleaseDns(s, h)) = IF Releases(s, h) THEN {DeleteRecord(h, s.dns[h])} ELSE {}
    BY ReleasePart
  <2> HIDE DEF routed
  <2>3. NoLogin(A)
    BY <2>1 DEF NoLogin, LoginSteps
  <2>4. ASSUME NEW h
        PROVE  {st \in A : st.op \in RecordSteps /\ st.host = h}
                 = IF h \in routed THEN Range(ReleaseDns(s, h)) ELSE {}
    <3>1. {st \in A : st.op \in RecordSteps /\ st.host = h}
            = IF h \in routed /\ Releases(s, h) THEN {DeleteRecord(h, s.dns[h])} ELSE {}
      BY <2>1 DEF RecordSteps
    <3> QED
      BY <3>1, <2>2
  <2> QED
    BY <2>3, <2>4
<1>5. NoRecord(B) /\ \A k \in Keys : {st \in B : st.op \in LoginSteps /\ st.key = k}
                                       = Range(Unprotect(s, k))
  <2>1. \A k : /\ DeleteApp(k, s.login[k]).op = "DeleteApp"
               /\ DeleteApp(k, s.login[k]).key = k
    BY DEF DeleteApp
  <2>2. \A k : Range(Unprotect(s, k)) = IF Owns(s, k) THEN {DeleteApp(k, s.login[k])} ELSE {}
    BY UnprotectPart
  <2>3. NoRecord(B)
    BY <2>1 DEF NoRecord, RecordSteps
  <2>4. ASSUME NEW k \in Keys
        PROVE  {st \in B : st.op \in LoginSteps /\ st.key = k} = Range(Unprotect(s, k))
    <3>1. {st \in B : st.op \in LoginSteps /\ st.key = k}
            = IF Owns(s, k) THEN {DeleteApp(k, s.login[k])} ELSE {}
      BY <2>1 DEF LoginSteps
    <3> QED
      BY <3>1, <2>2
  <2> QED
    BY <2>3, <2>4
<1> HIDE DEF R, routed, A, B, C, D
<1>6. ASSUME NEW h
      PROVE  RecordsAbout(R, h) = IF h \in routed THEN Range(ReleaseDns(s, h)) ELSE {}
  <2>1. RecordsAbout(R, h) = {st \in A : st.op \in RecordSteps /\ st.host = h}
    BY <1>1, <1>2, <1>3, <1>5 DEF RecordsAbout, NoRecord
  <2> QED
    BY <2>1, <1>4
<1>7. ASSUME NEW k \in Keys
      PROVE  LoginsAbout(R, k) = Range(Unprotect(s, k))
  <2>1. LoginsAbout(R, k) = {st \in B : st.op \in LoginSteps /\ st.key = k}
    BY <1>1, <1>2, <1>3, <1>4 DEF LoginsAbout, NoLogin
  <2> QED
    BY <2>1, <1>5
<1> QED
  BY <1>6, <1>7 DEF R, routed

-----------------------------------------------------------------------------
(* A change that was made                                                  *)

\* Every step of the plan is there in c.
Arrived(i, a, c, x) ==
  /\ Reviewed(i, a) /\ Its(a, x)
  /\ \A st \in Range(Plan(i, Observe(i, a)).steps) : InPlace(Resolved(st, x), c, x)
  /\ \A h \in Hosts : RecordsAbout(Range(Plan(i, Observe(i, a)).steps), h) = {} => c.dns[h] = a.dns[h]
  /\ \A k \in Keys : LoginsAbout(Range(Plan(i, Observe(i, a)).steps), k) = {} => c.login[k] = a.login[k]
  /\ MyTunnel(c) = IF i.kind = "RemoveTunnel" THEN None ELSE x
  /\ RulesOf(c, MyTunnel(c)) = Desired(i, Observe(i, a))
  /\ i.kind = "RemoveTunnel" => c.tunnels[x] = None

\* That is so where the plan's end was reached.
LEMMA MadeArrived ==
  ASSUME NEW a \in Accounts, NEW c \in Accounts, NEW i, NEW x, NEW m,
         Halfway(i, a, c, x, m, m + 1, {}), m = Len(PlanFrom(i, a, x))
  PROVE  Arrived(i, a, c, x)
<1> DEFINE s == Observe(i, a)
           P == Plan(i, s).steps
           R == Range(P)
           Q == PlanFrom(i, a, x)
<1>0. /\ x \in Tunnels /\ x # None /\ i \in AllIntents /\ Reviewed(i, a) /\ Its(a, x)
      /\ ~Plan(i, s).refused
      /\ Midway(Q, a, c, x, m, m + 1, {}) /\ s.tunnel = MyTunnel(a)
      /\ (MyTunnel(a) = None => a.tunnels[x] = None)
      /\ (MyTunnel(a) # None => a.tunnels[x] # None /\ MyTunnel(a) = x)
  BY ItsOurs, Observed DEF Halfway, Reviewed
<1>1. /\ Shaped(Q, a, x)
      /\ \A st \in R : \E l \in DOMAIN Q : Q[l] = Resolved(st, x)
      /\ \A l \in DOMAIN Q : \E st \in R : Q[l] = Resolved(st, x)
      /\ \A st \in R : /\ Resolved(st, x).op = st.op
                        /\ Rank(Resolved(st, x)) = Rank(st)
                        /\ Spot(Resolved(st, x)) = Spot(st)
                        /\ Grounded(Resolved(st, x), a, x)
  BY <1>0, InPlan
<1>2. DOMAIN Q = 1..m /\ m \in Nat /\ \A l \in DOMAIN Q : Grounded(Q[l], a, x)
  BY <1>1 DEF Shaped
<1>3. \A l \in DOMAIN Q : InPlace(Q[l], c, x)
  BY <1>0, <1>2 DEF Midway
<1>4. Kept(Q, a, c, x)
  BY <1>0 DEF Midway
<1>5. /\ i.kind # "RemoveTunnel" => \A st \in R : Rank(st) # 8
      /\ i.kind = "RemoveTunnel" => s.tunnel # None /\ DeleteTunnel(s.tunnel) \in R
  <2>1. CASE i.kind = "AddRoute"
    <3>1. Part(P, {1, 2, 3, 4})
      BY <2>1, <1>0, AddRoutePlan
    <3>2. \A st \in Range(P) : Rank(st) \in {1, 2, 3, 4}
      BY <3>1 DEF Part
    <3> QED
      BY <2>1, <3>2
  <2>2. CASE i.kind = "UpdateRoute"
    <3>1. Part(P, {2, 3, 4, 5, 6})
      BY <2>2, <1>0, UpdateRoutePlan
    <3>2. \A st \in Range(P) : Rank(st) \in {2, 3, 4, 5, 6}
      BY <3>1 DEF Part
    <3> QED
      BY <2>2, <3>2
  <2>3. CASE i.kind = "RemoveRoute"
    <3>1. Part(P, {3, 5, 6})
      BY <2>3, <1>0, RemoveRoutePlan
    <3>2. \A st \in Range(P) : Rank(st) \in {3, 5, 6}
      BY <3>1 DEF Part
    <3> QED
      BY <2>3, <3>2
  <2>4. CASE i.kind = "RemoveTunnel"
    <3>1. s.tunnel # None
      BY <2>4, <1>0 DEF Plan, PlanRemoveTunnel, Refused
    <3>2. DeleteTunnel(s.tunnel) \in R
      BY <2>4, <1>0, RemoveTunnelPlan
    <3> QED
      BY <2>4, <3>1, <3>2
  <2> QED
    BY <1>0, <2>1, <2>2, <2>3, <2>4, IntentTypes
<1> HIDE DEF P, Q, R, s
<1>6. \A st \in R : InPlace(Resolved(st, x), c, x)
  BY <1>1, <1>3
<1>7. ASSUME NEW h \in Hosts, RecordsAbout(R, h) = {} PROVE c.dns[h] = a.dns[h]
  <2>1. ASSUME NEW l \in DOMAIN Q, About(Q[l], x) = Item("dns", h) PROVE FALSE
    <3>1. Q[l].op \in RecordSteps /\ Spot(Q[l]) = Item("dns", h)
      BY <2>1, <1>2, GroundedIs DEF Item
    <3>2. PICK st \in R : Q[l] = Resolved(st, x)
      BY <1>1
    <3>3. st.op \in RecordSteps /\ Spot(st) = Item("dns", h)
      BY <3>1, <3>2, <1>1
    <3>4. st.host = h
      BY <3>3 DEF Spot, RecordSteps, LoginSteps, Item
    <3> QED
      BY <3>3, <3>4, <1>7 DEF RecordsAbout
  <2> QED
    BY <2>1, <1>4 DEF Kept
<1>8. ASSUME NEW k \in Keys, LoginsAbout(R, k) = {} PROVE c.login[k] = a.login[k]
  <2>1. ASSUME NEW l \in DOMAIN Q, About(Q[l], x) = Item("login", k) PROVE FALSE
    <3>1. Q[l].op \in LoginSteps /\ Spot(Q[l]) = Item("login", k)
      BY <2>1, <1>2, GroundedIs DEF Item
    <3>2. PICK st \in R : Q[l] = Resolved(st, x)
      BY <1>1
    <3>3. st.op \in LoginSteps /\ Spot(st) = Item("login", k)
      BY <3>1, <3>2, <1>1
    <3>4. st.key = k
      BY <3>3 DEF Spot, RecordSteps, LoginSteps, Item
    <3> QED
      BY <3>3, <3>4, <1>8 DEF LoginsAbout
  <2> QED
    BY <2>1, <1>4 DEF Kept
<1>9. MyTunnel(c) = IF c.tunnels[x] = None THEN None ELSE x
  BY <1>0, <1>4 DEF Kept
<1>10. CASE i.kind = "RemoveTunnel"
  <2>1. c.tunnels[x] = None
    <3>1. DeleteTunnel(s.tunnel) \in R /\ s.tunnel # None
      BY <1>5, <1>10
    <3>2. s.tunnel = x
      BY <3>1, <1>0
    <3>3. DeleteTunnel(x) \in R /\ DeleteTunnel(x).op = "DeleteTunnel"
      BY <3>1, <3>2 DEF DeleteTunnel
    <3>4. Resolved(DeleteTunnel(x), x).op = "DeleteTunnel" /\ InPlace(Resolved(DeleteTunnel(x), x), c, x)
      BY <3>3, <1>1, <1>6
    <3> QED
      BY <3>4 DEF InPlace
  <2>2. MyTunnel(c) = None
    BY <2>1, <1>9
  <2>3. RulesOf(c, MyTunnel(c)) = NoRules /\ Desired(i, s) = NoRules
    BY <2>2, <1>10 DEF RulesOf, Desired
  <2> QED
    BY <2>1, <2>2, <2>3, <1>0, <1>6, <1>7, <1>8, <1>10 DEF Arrived, R, P, s
<1>11. CASE i.kind # "RemoveTunnel"
  <2>1. c.tunnels[x] # None
    <3>1. CASE \E l \in DOMAIN Q : Q[l].op = "CreateTunnel"
      BY <3>1, <1>3 DEF InPlace
    <3>2. CASE \A l \in DOMAIN Q : Q[l].op # "CreateTunnel"
      <4>1. \A l \in DOMAIN Q : Q[l].op # "DeleteTunnel"
        <5>1. ASSUME NEW l \in DOMAIN Q, Q[l].op = "DeleteTunnel" PROVE FALSE
          <6>1. PICK st \in R : Q[l] = Resolved(st, x)
            BY <1>1
          <6>2. Rank(st) = 8
            BY <5>1, <6>1, <1>1 DEF Rank
          <6> QED
            BY <6>2, <1>5, <1>11
        <5> QED
          BY <5>1
      <4>2. \A l \in DOMAIN Q : About(Q[l], x) # Item("tunnel", x)
        BY <3>2, <4>1, <1>2, GroundedIs DEF Item
      <4>3. c.tunnels[x] = None <=> a.tunnels[x] = None
        BY <4>2, <1>0, <1>4 DEF Kept
      <4>4. MyTunnel(a) # None
        <5>1. ASSUME MyTunnel(a) = None PROVE FALSE
          <6>1. CreateTunnel \in R
            BY <5>1, <1>0, PlanIs DEF R, P, s
          <6>2. CreateTunnel.op = "CreateTunnel"
            BY DEF CreateTunnel, Step
          <6> QED
            BY <6>1, <6>2, <1>1, <3>2
        <5> QED
          BY <5>1
      <4> QED
        BY <4>3, <4>4, <1>0
    <3> QED
      BY <3>1, <3>2
  <2>2. MyTunnel(c) = x
    BY <2>1, <1>9
  <2>3. \A l \in DOMAIN Q : Q[l].op = "PutConfig" => l <= m
    BY <1>2
  <2>4. RulesOf(c, x) = Desired(i, s)
    <3>1. Halfway(i, a, c, x, m, m + 1, {})
      OBVIOUS
    <3>2. \A l \in DOMAIN PlanFrom(i, a, x) : PlanFrom(i, a, x)[l].op = "PutConfig" => l <= m
      BY <2>3 DEF Q
    <3> QED
      BY <3>1, <3>2, <2>1, RulesInPlace DEF s
  <2> QED
    BY <2>1, <2>2, <2>4, <1>0, <1>6, <1>7, <1>8, <1>11 DEF Arrived, R, P, s
<1> QED
  BY <1>10, <1>11

\* A hostname that is to point to the tunnel does.
LEMMA RecordSet ==
  ASSUME NEW a \in Accounts, NEW c \in Accounts, NEW i, NEW x, Arrived(i, a, c, x),
         NEW h \in Hosts, h \in HostsOf(i, a),
         RecordsAbout(Range(Plan(i, Observe(i, a)).steps), h) = Range(EnsureDns(Observe(i, a), h))
  PROVE  c.dns[h] # None /\ c.dns[h].to = x
<1> DEFINE s == Observe(i, a)
           R == Range(Plan(i, s).steps)
<1>1. /\ RecordsAbout(R, h) = Range(EnsureDns(s, h)) /\ i \in AllIntents /\ Its(a, x)
      /\ \A st \in R : InPlace(Resolved(st, x), c, x)
      /\ RecordsAbout(R, h) = {} => c.dns[h] = a.dns[h]
  BY DEF Arrived, Reviewed
<1>2. s.tunnel = MyTunnel(a) /\ s.dns[h] = a.dns[h]
  BY <1>1, Observed
<1> HIDE DEF s, R
<1>3. CASE PointsHere(s, h)
  <2>1. Range(EnsureDns(s, h)) = {}
    BY <1>3, RecordPart
  <2>2. c.dns[h] = a.dns[h]
    BY <2>1, <1>1
  <2> QED
    BY <2>2, <1>1, <1>2, <1>3 DEF PointsHere, Its
<1>4. CASE ~PointsHere(s, h)
  <2>1. PICK st \in RecordsAbout(R, h) : st = CreateRecord(h, TunnelRef(s))
                                           \/ st = UpdateRecord(h, TunnelRef(s), s.dns[h])
    BY <1>1, <1>4, RecordPart
  <2>2. InPlace(Resolved(st, x), c, x)
    BY <2>1, <1>1 DEF RecordsAbout
  <2>3. Resolved(st, x).op \in {"CreateRecord", "UpdateRecord"} /\ Resolved(st, x).host = h
    <3>1. Resolved(st, x).op = st.op
      BY DEF Resolved
    <3>2. Resolved(st, x).host = h
      BY <2>1, ResolvedIs
    <3> QED
      BY <2>1, <3>1, <3>2 DEF CreateRecord, UpdateRecord
  <2> QED
    BY <2>2, <2>3 DEF InPlace
<1> QED
  BY <1>3, <1>4

\* No record of Teitunnel's points to tunnel t.
Unpointed(r, t) == r = None \/ r.to # t \/ ~r.owned

\* A hostname that is to be released is.
LEMMA RecordReleased ==
  ASSUME NEW a \in Accounts, NEW c \in Accounts, NEW i, NEW x, Arrived(i, a, c, x),
         NEW h \in Hosts, h \in HostsOf(i, a), MyTunnel(a) # None,
         RecordsAbout(Range(Plan(i, Observe(i, a)).steps), h) = Range(ReleaseDns(Observe(i, a), h))
  PROVE  Unpointed(c.dns[h], MyTunnel(a))
<1> DEFINE s == Observe(i, a)
           R == Range(Plan(i, s).steps)
<1>1. /\ RecordsAbout(R, h) = Range(ReleaseDns(s, h)) /\ i \in AllIntents /\ Its(a, x)
      /\ \A st \in R : InPlace(Resolved(st, x), c, x)
      /\ RecordsAbout(R, h) = {} => c.dns[h] = a.dns[h]
  BY DEF Arrived, Reviewed
<1>2. s.tunnel = MyTunnel(a) /\ s.dns[h] = a.dns[h]
  BY <1>1, Observed
<1> HIDE DEF s, R
<1>3. CASE Releases(s, h)
  <2>1. DeleteRecord(h, s.dns[h]) \in R
    BY <1>1, <1>3, ReleasePart DEF RecordsAbout
  <2>2. InPlace(DeleteRecord(h, s.dns[h]), c, x)
    BY <2>1, <1>1, ResolvedIs
  <2>3. DeleteRecord(h, s.dns[h]).op = "DeleteRecord" /\ DeleteRecord(h, s.dns[h]).host = h
    BY DEF DeleteRecord
  <2> QED
    BY <2>2, <2>3 DEF InPlace, Unpointed
<1>4. CASE ~Releases(s, h)
  <2>1. c.dns[h] = a.dns[h]
    BY <1>1, <1>4, ReleasePart
  <2> QED
    BY <2>1, <1>2, <1>4 DEF Releases, PointsHere, Unpointed
<1> QED
  BY <1>3, <1>4

\* A route that is to be protected is.
LEMMA LoginSet ==
  ASSUME NEW a \in Accounts, NEW c \in Accounts, NEW i, NEW x, Arrived(i, a, c, x),
         NEW k \in Keys, NEW w, w # None, k \in Domains(i, a),
         LoginsAbout(Range(Plan(i, Observe(i, a)).steps), k) = Range(Protect(Observe(i, a), k, w))
  PROVE  c.login[k] # None /\ c.login[k].who = w
<1> DEFINE s == Observe(i, a)
           R == Range(Plan(i, s).steps)
<1>1. /\ LoginsAbout(R, k) = Range(Protect(s, k, w)) /\ i \in AllIntents
      /\ \A st \in R : InPlace(Resolved(st, x), c, x)
      /\ LoginsAbout(R, k) = {} => c.login[k] = a.login[k]
  BY DEF Arrived, Reviewed
<1>2. s.login[k] = a.login[k]
  BY <1>1, Observed
<1> HIDE DEF s, R
<1>3. CASE s.login[k] # None /\ s.login[k].who = w
  <2>1. Range(Protect(s, k, w)) = {}
    BY <1>3, LoginPart
  <2> QED
    BY <2>1, <1>1, <1>2, <1>3
<1>4. CASE ~(s.login[k] # None /\ s.login[k].who = w)
  <2>1. PICK st \in LoginsAbout(R, k) : st = CreateApp(k, w) \/ st = UpdateApp(k, w, s.login[k])
    BY <1>1, <1>4, LoginPart
  <2>2. InPlace(st, c, x)
    BY <2>1, <1>1, ResolvedIs DEF LoginsAbout
  <2>3. st.op \in {"CreateApp", "UpdateApp"} /\ st.key = k /\ st.who = w
    BY <2>1 DEF CreateApp, UpdateApp
  <2> QED
    BY <2>2, <2>3 DEF InPlace
<1> QED
  BY <1>3, <1>4

\* A login of Teitunnel's that is to come off did.
LEMMA LoginDropped ==
  ASSUME NEW a \in Accounts, NEW c \in Accounts, NEW i, NEW x, Arrived(i, a, c, x),
         NEW k \in Keys, i.kind # "AddRoute", HostOf[k] \in HostsOf(i, a),
         LoginsAbout(Range(Plan(i, Observe(i, a)).steps), k) = Range(Unprotect(Observe(i, a), k))
  PROVE  c.login[k] = None \/ ~c.login[k].owned
<1> DEFINE s == Observe(i, a)
           R == Range(Plan(i, s).steps)
<1>1. /\ LoginsAbout(R, k) = Range(Unprotect(s, k)) /\ i \in AllIntents
      /\ \A st \in R : InPlace(Resolved(st, x), c, x)
      /\ LoginsAbout(R, k) = {} => c.login[k] = a.login[k]
  BY DEF Arrived, Reviewed
<1>2. s.login[k] = IF k \in Domains(i, a) THEN a.login[k] ELSE None
  BY <1>1, Observed
<1> HIDE DEF s, R
<1>3. CASE Owns(s, k)
  <2>1. DeleteApp(k, s.login[k]) \in R
    BY <1>1, <1>3, UnprotectPart DEF LoginsAbout
  <2>2. InPlace(DeleteApp(k, s.login[k]), c, x)
    BY <2>1, <1>1, ResolvedIs
  <2>3. DeleteApp(k, s.login[k]).op = "DeleteApp" /\ DeleteApp(k, s.login[k]).key = k
    BY DEF DeleteApp
  <2> QED
    BY <2>2, <2>3 DEF InPlace
<1>4. CASE ~Owns(s, k)
  <2>1. c.login[k] = a.login[k]
    BY <1>1, <1>4, UnprotectPart
  <2>2. a.login[k] # None /\ a.login[k].owned => k \in Domains(i, a)
    BY DEF Domains
  <2>3. a.login[k] # None /\ a.login[k].owned => Owns(s, k)
    BY <2>2, <1>2 DEF Owns
  <2> QED
    BY <2>1, <2>3, <1>4
<1> QED
  BY <1>3, <1>4

-----------------------------------------------------------------------------
(* What it promised is there                                               *)

\* What is known of the account before and after, by the observations of it.
LEMMA Compared ==
  ASSUME NEW a \in Accounts, NEW c \in Accounts, NEW i, NEW x, Arrived(i, a, c, x)
  PROVE  LET s == Observe(i, a)
             d == Observe(i, c)
         IN  /\ i \in AllIntents /\ ~Plan(i, s).refused
             /\ s.tunnel = MyTunnel(a) /\ d.tunnel = MyTunnel(c)
             /\ Routes(s) = RulesOf(a, MyTunnel(a)) /\ Routes(d) = Desired(i, s)
             /\ Routes(s) \in Rules /\ Routes(d) \in Rules
             /\ x # None /\ x \in Tunnels /\ (MyTunnel(a) # None => MyTunnel(a) = x)
             /\ i.kind # "RemoveTunnel" => d.tunnel = x
             /\ \A h \in Hosts : d.dns[h] = IF h \in HostsOf(i, c) THEN c.dns[h] ELSE None
             /\ \A k \in Keys : d.login[k] = IF k \in Domains(i, c) THEN c.login[k] ELSE None
<1>1. Reviewed(i, a) /\ Its(a, x) /\ i \in AllIntents /\ ~Plan(i, Observe(i, a)).refused
  BY DEF Arrived, Reviewed
<1>2. x # None /\ x \in Tunnels /\ (MyTunnel(a) # None => MyTunnel(a) = x)
  BY <1>1, ItsOurs DEF Its
<1>3. /\ RulesOf(c, MyTunnel(c)) = Desired(i, Observe(i, a))
      /\ i.kind # "RemoveTunnel" => MyTunnel(c) = x
  BY DEF Arrived
<1> QED
  BY <1>1, <1>2, <1>3, Observed

\* A route whose rules and record stay answers as before.
LEMMA StillLive ==
  ASSUME NEW a \in Accounts, NEW c \in Accounts, NEW i, NEW x, Arrived(i, a, c, x),
         i.kind # "RemoveTunnel", NEW k \in Keys, LiveIn(a, k),
         Desired(i, Observe(i, a))[k] = Routes(Observe(i, a))[k],
         \/ c.dns[HostOf[k]] = a.dns[HostOf[k]]
         \/ c.dns[HostOf[k]] # None /\ c.dns[HostOf[k]].to = x
  PROVE  LiveIn(c, k)
<1>1. /\ MyTunnel(a) = x /\ x # None /\ MyTunnel(c) = x
      /\ Routes(Observe(i, a)) = RulesOf(a, x)
      /\ RulesOf(c, x) = Desired(i, Observe(i, a))
  BY Compared DEF LiveIn, Arrived
<1> QED
  BY <1>1 DEF LiveIn

\* A change whose steps only release the records of the other hostnames spares them.
LEMMA Spared ==
  ASSUME NEW a \in Accounts, NEW c \in Accounts, NEW i, NEW x, Arrived(i, a, c, x),
         \A h \in Hosts :
           \/ i.kind \in {"AddRoute", "UpdateRoute"} /\ h = HostOf[Target(i)]
           \/ RecordsAbout(Range(Plan(i, Observe(i, a)).steps), h)
                \in {{}, Range(ReleaseDns(Observe(i, a), h))}
  PROVE  RecordsSpared(i, a, c)
<1> DEFINE s == Observe(i, a)
           R == Range(Plan(i, s).steps)
<1> SUFFICES ASSUME NEW h \in Hosts, c.dns[h] # a.dns[h], RecordsAbout(R, h) = Range(ReleaseDns(s, h))
             PROVE  a.dns[h] # None /\ a.dns[h].owned
  <2>1. \A h \in Hosts : RecordsAbout(R, h) = {} => c.dns[h] = a.dns[h]
    BY DEF Arrived
  <2> QED
    BY <2>1 DEF RecordsSpared
<1>1. RecordsAbout(R, h) # {}
  BY DEF Arrived
<1>2. s.dns[h] = IF h \in HostsOf(i, a) THEN a.dns[h] ELSE None
  <2>1. i \in AllIntents
    BY Compared
  <2> QED
    BY <2>1, Observed
<1>3. Releases(s, h)
  BY <1>1, ReleasePart
<1> QED
  BY <1>2, <1>3 DEF Releases, PointsHere

\* A route that was added is there.
LEMMA AddReached ==
  ASSUME NEW a \in Accounts, NEW c \in Accounts, NEW i, NEW x, Arrived(i, a, c, x),
         i.kind = "AddRoute"
  PROVE  Reached(i, a, c)
<1> DEFINE s == Observe(i, a)
           d == Observe(i, c)
           R == Range(Plan(i, s).steps)
           k == i.key
           h == HostOf[k]
<1>1. /\ i \in AllIntents /\ ~Plan(i, s).refused /\ k \in Keys /\ h \in Hosts
      /\ i.who \in People \cup {None} /\ i.origin \in Origins
      /\ s.tunnel = MyTunnel(a) /\ d.tunnel = x /\ x # None
      /\ Routes(d) = Desired(i, s) /\ Routes(s) \in Rules
      /\ h \in HostsOf(i, a) /\ h \in HostsOf(i, c) /\ d.dns[h] = c.dns[h]
      /\ (i.who # None => k \in Domains(i, a) /\ k \in Domains(i, c) /\ d.login[k] = c.login[k])
  <2>1. /\ i \in AllIntents /\ ~Plan(i, s).refused /\ k \in Keys /\ h \in Hosts
        /\ i.who \in People \cup {None} /\ i.origin \in Origins
    BY Compared, IntentTypes, AccountAssumption
  <2>2. h \in HostsOf(i, a) /\ h \in HostsOf(i, c)
    BY DEF HostsOf
  <2>3. i.who # None => k \in Domains(i, a) /\ k \in Domains(i, c)
    BY DEF Domains, Asked
  <2> QED
    BY <2>1, <2>2, <2>3, Compared
<1>2. /\ \A g : RecordsAbout(R, g) = IF g = h THEN Range(EnsureDns(s, g)) ELSE {}
      /\ \A j : LoginsAbout(R, j) = IF j = k THEN Range(Protect(s, j, i.who)) ELSE {}
  BY <1>1, AddRouteAbout
<1>3. c.dns[h] # None /\ c.dns[h].to = x
  BY <1>1, <1>2, RecordSet
<1>4. i.who # None => c.login[k] # None /\ c.login[k].who = i.who
  BY <1>1, <1>2, LoginSet
<1>5. i.origin \in Routes(d)[k] /\ \A j \in Keys \ {k} : Routes(d)[j] = Routes(s)[j]
  <2>1. Routes(s)[k] # {} => i.origin \in Routes(s)[k]
    BY <1>1 DEF Plan, PlanAddRoute, Refused
  <2> QED
    BY <1>1, <2>1 DEF Desired, Rules
<1>6. PointsHere(d, h)
  BY <1>1, <1>3 DEF PointsHere
<1>7. Plan(i, d).steps = <<>>
  <2>1. EnsureTunnel(d) = <<>> /\ EnsureDns(d, h) = <<>>
    BY <1>1, <1>6 DEF EnsureTunnel, EnsureDns
  <2>2. Protect(d, k, i.who) = <<>>
    BY <1>1, <1>4 DEF Protect
  <2>3. Routes(d)[k] # {}
    BY <1>5
  <2>4. PlanAddRoute(i, d).steps = <<>>
    BY <2>1, <2>2, <2>3 DEF PlanAddRoute, Planned, Refused
  <2> QED
    BY <2>4 DEF Plan
<1>8. ASSUME NEW j \in Keys \ {k}, LiveIn(a, j) PROVE LiveIn(c, j)
  <2>1. HostOf[j] \in Hosts
    BY AccountAssumption
  <2>2. HostOf[j] # h => c.dns[HostOf[j]] = a.dns[HostOf[j]]
    BY <2>1, <1>2 DEF Arrived
  <2> QED
    BY <1>1, <1>3, <1>5, <1>8, <2>2, StillLive
<1>9. OthersStay(i, a, c)
  <2>1. Named(i) = {k}
    BY DEF Named
  <2>2. \A j \in Keys \ {k} : c.login[j] = a.login[j]
    BY <1>2 DEF Arrived
  <2> QED
    BY <2>1, <2>2, <1>5, <1>8 DEF OthersStay
<1>10. RecordsSpared(i, a, c)
  BY <1>2, Spared DEF Target
<1> HIDE DEF s, d, R, k, h
<1> QED
  BY <1>4, <1>5, <1>6, <1>7, <1>9, <1>10 DEF Reached, s, d, k, h

\* A hostname that a route left is released, or another of its routes needs it.
LEMMA HostReleased ==
  ASSUME NEW a \in Accounts, NEW c \in Accounts, NEW i, NEW x, Arrived(i, a, c, x),
         NEW k \in Keys, HostOf[k] \in HostsOf(i, a), MyTunnel(a) # None,
         \A j \in Keys \ {k} : HostOf[j] = HostOf[k] =>
           Desired(i, Observe(i, a))[j] = Routes(Observe(i, a))[j],
         RecordsAbout(Range(Plan(i, Observe(i, a)).steps), HostOf[k])
           = IF LastOfHost(Observe(i, a), k) THEN Range(ReleaseDns(Observe(i, a), HostOf[k])) ELSE {}
  PROVE  \/ Unpointed(c.dns[HostOf[k]], MyTunnel(a))
         \/ \E j \in Keys : /\ HostOf[j] = HostOf[k] /\ Routes(Observe(i, a))[j] # {}
                            /\ Routes(Observe(i, c))[j] # {}
<1> DEFINE s == Observe(i, a)
<1>1. CASE LastOfHost(s, k)
  <2>1. HostOf[k] \in Hosts
    BY AccountAssumption
  <2> QED
    BY <1>1, <2>1, RecordReleased
<1>2. CASE ~LastOfHost(s, k)
  <2>1. PICK j \in Keys \ {k} : HostOf[j] = HostOf[k] /\ Routes(s)[j] # {}
    BY <1>2 DEF LastOfHost, Siblings
  <2>2. Routes(Observe(i, c)) = Desired(i, s)
    BY Compared
  <2> QED
    BY <2>1, <2>2
<1> QED
  BY <1>1, <1>2

\* A route that was removed is gone.
LEMMA RemoveReached ==
  ASSUME NEW a \in Accounts, NEW c \in Accounts, NEW i, NEW x, Arrived(i, a, c, x),
         i.kind = "RemoveRoute"
  PROVE  Reached(i, a, c)
<1> DEFINE s == Observe(i, a)
           d == Observe(i, c)
           R == Range(Plan(i, s).steps)
           k == i.key
           h == HostOf[k]
<1>1. /\ i \in AllIntents /\ ~Plan(i, s).refused /\ k \in Keys /\ h \in Hosts
      /\ s.tunnel = MyTunnel(a) /\ d.tunnel = x /\ x # None /\ MyTunnel(a) # None
      /\ Routes(d) = Desired(i, s) /\ Routes(s) \in Rules /\ h \in HostsOf(i, a)
  <2>1. i \in AllIntents /\ ~Plan(i, s).refused /\ k \in Keys /\ h \in Hosts
    BY Compared, IntentTypes, AccountAssumption
  <2>2. h \in HostsOf(i, a)
    BY DEF HostsOf
  <2>3. s.tunnel # None
    BY <2>1 DEF Plan, PlanRemoveRoute, Refused
  <2> QED
    BY <2>1, <2>2, <2>3, Compared
<1>2. /\ \A g : RecordsAbout(R, g) =
                  IF g = h /\ LastOfHost(s, k) THEN Range(ReleaseDns(s, g)) ELSE {}
      /\ \A j : LoginsAbout(R, j) = IF j = k THEN Range(Unprotect(s, j)) ELSE {}
  BY <1>1, RemoveRouteAbout
<1>3. Routes(d)[k] = {} /\ \A j \in Keys \ {k} : Desired(i, s)[j] = Routes(s)[j]
  BY <1>1 DEF Desired, Rules
<1>4. c.login[k] = None \/ ~c.login[k].owned
  BY <1>1, <1>2, LoginDropped
<1>5. RecordsAbout(R, h) = IF LastOfHost(s, k) THEN Range(ReleaseDns(s, h)) ELSE {}
  BY <1>2
<1>6. \/ Unpointed(c.dns[h], s.tunnel)
      \/ \E j \in Keys : HostOf[j] = h /\ Routes(s)[j] # {} /\ Routes(d)[j] # {}
  BY <1>1, <1>3, <1>5, HostReleased
<1>7. Plan(i, d).steps = <<>>
  BY <1>3 DEF Plan, PlanRemoveRoute, Refused
<1>8. ASSUME NEW j \in Keys \ {k}, LiveIn(a, j) PROVE LiveIn(c, j)
  <2>1. HostOf[j] \in Hosts
    BY AccountAssumption
  <2>2. Routes(s)[j] # {}
    BY <1>8, Compared DEF LiveIn
  <2>3. HostOf[j] = h => ~LastOfHost(s, k)
    BY <2>2 DEF LastOfHost, Siblings
  <2>4. RecordsAbout(R, HostOf[j]) = {}
    BY <2>3, <1>2
  <2>5. c.dns[HostOf[j]] = a.dns[HostOf[j]]
    BY <2>1, <2>4 DEF Arrived
  <2> QED
    BY <1>1, <1>3, <1>8, <2>5, StillLive
<1>9. OthersStay(i, a, c)
  <2>1. Named(i) = {k}
    BY DEF Named
  <2>2. \A j \in Keys \ {k} : c.login[j] = a.login[j]
    BY <1>2 DEF Arrived
  <2> QED
    BY <2>1, <2>2, <1>1, <1>3, <1>8 DEF OthersStay
<1>10. RecordsSpared(i, a, c)
  BY <1>2, Spared
<1> HIDE DEF s, d, R, k, h
<1> QED
  BY <1>3, <1>4, <1>6, <1>7, <1>9, <1>10 DEF Reached, Unpointed, s, d, k, h

\* A route that was changed is as it was to be, with nothing left of what it was.
LEMMA UpdateReached ==
  ASSUME NEW a \in Accounts, NEW c \in Accounts, NEW i, NEW x, Arrived(i, a, c, x),
         i.kind = "UpdateRoute"
  PROVE  Reached(i, a, c)
<1> DEFINE s == Observe(i, a)
           d == Observe(i, c)
           R == Range(Plan(i, s).steps)
           k == i.key
           to == i.to
           old == HostOf[k]
           new == HostOf[to]
<1>1. /\ i \in AllIntents /\ ~Plan(i, s).refused /\ k \in Keys /\ to \in Keys
      /\ old \in Hosts /\ new \in Hosts /\ i.who \in People \cup {None} /\ i.origin \in Origins
  BY Compared, IntentTypes, AccountAssumption
<1>2. /\ s.tunnel = MyTunnel(a) /\ d.tunnel = x /\ x # None /\ MyTunnel(a) # None
      /\ MyTunnel(a) = x /\ Routes(d) = Desired(i, s) /\ Routes(s) \in Rules
  <2>1. s.tunnel # None
    BY <1>1 DEF Plan, PlanUpdateRoute, Refused
  <2> QED
    BY <2>1, Compared
<1>3. /\ HostsOf(i, a) = {old, new} /\ HostsOf(i, c) = {old, new}
      /\ d.dns[new] = c.dns[new]
      /\ i.who # None => to \in Domains(i, a) /\ d.login[to] = c.login[to]
      /\ \A j \in Keys : d.login[j] # None => d.login[j] = c.login[j]
  <2>1. HostsOf(i, a) = {old, new} /\ HostsOf(i, c) = {old, new}
    BY DEF HostsOf
  <2>2. i.who # None => to \in Domains(i, a) /\ to \in Domains(i, c)
    BY DEF Domains, Asked
  <2> QED
    BY <1>1, <2>1, <2>2, Compared
<1>4. /\ \A g : RecordsAbout(R, g) =
                  IF g = new THEN Range(EnsureDns(s, g))
                  ELSE IF g = old /\ LastOfHost(s, k) THEN Range(ReleaseDns(s, g)) ELSE {}
      /\ \A j : LoginsAbout(R, j) =
                  (IF j = to THEN Range(Protect(s, j, i.who)) ELSE {})
                  \cup (IF j = k /\ ~(i.who # None /\ to = k)
                        THEN Range(Unprotect(s, j)) ELSE {})
  BY <1>1, UpdateRouteAbout
<1>5. c.dns[new] # None /\ c.dns[new].to = x
  BY <1>1, <1>3, <1>4, RecordSet
<1>6. i.who # None => c.login[to] # None /\ c.login[to].who = i.who
  <2>1. i.who # None => LoginsAbout(R, to) = Range(Protect(s, to, i.who))
    BY <1>4
  <2> QED
    BY <2>1, <1>1, <1>3, LoginSet
<1>7. ~(i.who # None /\ to = k) => c.login[k] = None \/ ~c.login[k].owned
  <2>1. Range(Protect(s, k, None)) = {}
    BY LoginPart
  <2>2. ~(i.who # None /\ to = k) => LoginsAbout(R, k) = Range(Unprotect(s, k))
    BY <2>1, <1>4
  <2> QED
    BY <2>2, <1>1, <1>3, LoginDropped
<1>8. /\ i.origin \in Routes(d)[to] /\ (k # to => Routes(d)[k] = {})
      /\ \A j \in Keys \ {k, to} : Desired(i, s)[j] = Routes(s)[j]
      /\ k = to => Routes(d)[k] = {i.origin}
  BY <1>1, <1>2 DEF Desired, Rules
<1>9. PointsHere(d, new)
  BY <1>2, <1>3, <1>5 DEF PointsHere
<1>10. ASSUME old # new
       PROVE  \/ Unpointed(c.dns[old], s.tunnel)
              \/ \E j \in Keys : HostOf[j] = old /\ Routes(s)[j] # {} /\ Routes(d)[j] # {}
  <2>1. RecordsAbout(R, old) = IF LastOfHost(s, k) THEN Range(ReleaseDns(s, old)) ELSE {}
    BY <1>4, <1>10
  <2>2. \A j \in Keys \ {k} : HostOf[j] = old => Desired(i, s)[j] = Routes(s)[j]
    BY <1>8, <1>10
  <2> QED
    BY <2>1, <2>2, <1>1, <1>2, <1>3, HostReleased
<1>11. Plan(i, d).steps = <<>>
  <2>1. CASE k # to
    BY <2>1, <1>8 DEF Plan, PlanUpdateRoute, Refused
  <2>2. CASE k = to
    <3> DEFINE w == [Routes(d) EXCEPT ![i.key] = {}, ![i.to] = @ \cup {i.origin}]
    <3>1. Protect(d, to, i.who) = <<>>
      BY <1>3, <1>6 DEF Protect
    <3>2. EnsureDns(d, new) = <<>>
      BY <1>9 DEF EnsureDns
    <3>3. i.who = None => Unprotect(d, k) = <<>>
      BY <1>1, <1>3, <1>7 DEF Unprotect, Owns
    <3>4. WriteRules(d, w) = <<>>
      <4>1. Routes(d) \in Rules
        BY Compared
      <4>2. w = Routes(d)
        BY <4>1, <2>2, <1>1, <1>8 DEF Rules
      <4>3. Routes(d) = d.rules
        BY <2>2, <1>1, <1>8 DEF Routes, NoRules
      <4> QED
        BY <4>2, <4>3 DEF WriteRules
    <3> HIDE DEF w, s, d, R
    <3>5. PlanUpdateRoute(i, d).steps = <<>>
      BY <2>2, <3>1, <3>2, <3>3, <3>4 DEF PlanUpdateRoute, Planned, Refused, w
    <3> QED
      BY <3>5 DEF Plan
  <2> QED
    BY <2>1, <2>2
<1>12. ASSUME NEW j \in Keys \ {k, to}, LiveIn(a, j) PROVE LiveIn(c, j)
  <2>1. HostOf[j] \in Hosts
    BY AccountAssumption
  <2>2. Routes(s)[j] # {}
    BY <1>12, Compared DEF LiveIn
  <2>3. HostOf[j] = old => ~LastOfHost(s, k)
    BY <2>2 DEF LastOfHost, Siblings
  <2>4. HostOf[j] # new => RecordsAbout(R, HostOf[j]) = {}
    BY <2>3, <1>4
  <2>5. HostOf[j] # new => c.dns[HostOf[j]] = a.dns[HostOf[j]]
    BY <2>1, <2>4 DEF Arrived
  <2> QED
    BY <1>5, <1>8, <1>12, <2>5, StillLive
<1>13. OthersStay(i, a, c)
  <2>1. Named(i) = {k, to}
    BY DEF Named
  <2>2. \A j \in Keys \ {k, to} : c.login[j] = a.login[j]
    BY <1>4 DEF Arrived
  <2> QED
    BY <2>1, <2>2, <1>2, <1>8, <1>12 DEF OthersStay
<1>14. RecordsSpared(i, a, c)
  <2>1. Target(i) = to
    BY DEF Target
  <2> QED
    BY <2>1, <1>4, Spared
<1> HIDE DEF s, d, R, k, to, old, new
<1> QED
  BY <1>6, <1>7, <1>8, <1>9, <1>10, <1>11, <1>13, <1>14
     DEF Reached, Unpointed, s, d, k, to, old, new

\* A tunnel that was removed is gone, and the routes it had.
LEMMA RemoveTunnelReached ==
  ASSUME NEW a \in Accounts, NEW c \in Accounts, NEW i, NEW x, Arrived(i, a, c, x),
         i.kind = "RemoveTunnel"
  PROVE  Reached(i, a, c)
<1> DEFINE s == Observe(i, a)
           d == Observe(i, c)
           R == Range(Plan(i, s).steps)
           routed == {HostOf[k] : k \in {j \in Keys : Routes(s)[j] # {}}}
<1>1. /\ i \in AllIntents /\ ~Plan(i, s).refused
      /\ s.tunnel = MyTunnel(a) /\ MyTunnel(a) # None /\ MyTunnel(a) = x
      /\ d.tunnel = None /\ Routes(d) = NoRules /\ HostsOf(i, a) = routed
  <2>1. i \in AllIntents /\ ~Plan(i, s).refused /\ s.tunnel = MyTunnel(a)
        /\ d.tunnel = MyTunnel(c) /\ Routes(s) = RulesOf(a, MyTunnel(a))
    BY Compared
  <2>2. s.tunnel # None
    BY <2>1 DEF Plan, PlanRemoveTunnel, Refused
  <2>3. Routes(d) = NoRules
    BY Compared DEF Desired
  <2>4. HostsOf(i, a) = routed
    BY <2>1 DEF HostsOf
  <2>5. MyTunnel(c) = None
    BY DEF Arrived
  <2> QED
    BY <2>1, <2>2, <2>3, <2>4, <2>5, Compared
<1>2. /\ \A h : RecordsAbout(R, h) = IF h \in routed THEN Range(ReleaseDns(s, h)) ELSE {}
      /\ \A k \in Keys : LoginsAbout(R, k) = Range(Unprotect(s, k))
  BY <1>1, RemoveTunnelAbout
<1>3. c.tunnels[s.tunnel] = None
  BY <1>1 DEF Arrived
<1>4. Plan(i, d).steps = <<>>
  BY <1>1 DEF Plan, PlanRemoveTunnel, Refused
<1>5. ASSUME NEW k \in Keys, Routes(s)[k] # {}
      PROVE  /\ Routes(d)[k] = {} /\ (c.login[k] = None \/ ~c.login[k].owned)
             /\ Unpointed(c.dns[HostOf[k]], s.tunnel)
  <2>1. HostOf[k] \in routed /\ HostOf[k] \in Hosts
    BY <1>5, AccountAssumption
  <2>2. c.login[k] = None \/ ~c.login[k].owned
    BY <1>1, <1>2, <2>1, LoginDropped
  <2>3. Unpointed(c.dns[HostOf[k]], s.tunnel)
    BY <1>1, <1>2, <2>1, RecordReleased
  <2> QED
    BY <1>1, <2>2, <2>3 DEF NoRules
<1>6. OthersStay(i, a, c)
  BY DEF OthersStay, Named
<1>7. RecordsSpared(i, a, c)
  BY <1>2, Spared
<1> HIDE DEF s, d, R, routed
<1> QED
  BY <1>3, <1>4, <1>5, <1>6, <1>7 DEF Reached, Unpointed, s, d

\* A change whose steps are all there keeps what it promised.
LEMMA Promised ==
  ASSUME NEW a \in Accounts, NEW c \in Accounts, NEW i, NEW x, Arrived(i, a, c, x)
  PROVE  Reached(i, a, c)
<1>1. i \in AllIntents
  BY Compared
<1> QED
  BY <1>1, IntentTypes, AddReached, UpdateReached, RemoveReached, RemoveTunnelReached
===============================================================================
