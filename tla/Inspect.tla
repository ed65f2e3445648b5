------------------------------- MODULE Inspect -------------------------------
(***************************************************************************)
(* Inspecting and pausing one route (crates/core/src/inspect/routes.rs,    *)
(* pause.rs): the route's service is changed, through the engine, to the   *)
(* address of a tap of some process's inspector; a row remembers the       *)
(* service it had; it is changed back when the inspection or the pause     *)
(* ends, and by a sweep after a process that crashed.                      *)
(*                                                                         *)
(* Every call to Cloudflare and every call to the database that something  *)
(* can come between is an action. The engine is used through its promise   *)
(* (AtomicApply): a change is made if the route still is what the review   *)
(* was planned against, or refused, or made without being heard of.        *)
(***************************************************************************)
EXTENDS Naturals, FiniteSets

CONSTANTS
  Services,   \* what the user may have behind the route
  First,      \* what is behind it at first
  Web,        \* those that speak HTTP
  None,
  App, Cli,   \* the app; a `teitunnel inspect`
  MaxTaps,    \* bound: ports of a process's taps that something refers to
  MaxTrouble, \* bound: calls that fail, answers that are lost, changes the user makes to
              \* the route and processes that die, together
  MaxAsks,    \* bound: what people ask for: pauses, resumes, inspections and their ends
  MayCancel,  \* the reviews that may be cancelled
  Overlap     \* whether what people do may overlap with the app's own tasks

ASSUME InspectAssumption ==
  /\ {MaxTaps, MaxTrouble, MaxAsks} \subseteq Nat
  /\ Web \subseteq Services /\ First \in Services
  /\ App # Cli /\ None \notin Services
  /\ Overlap \in BOOLEAN

\* The tasks that work on the route: the app's commands, its watch_pauses loop and its
\* watch_inspected_routes, and the one of `teitunnel inspect`.
Slots == {"hand", "loop", "sweep", "cli"}
Procs == {App, Cli}
ProcOf(s) == IF s = "cli" THEN Cli ELSE App
ByPeople == {"hand", "cli"}

VARIABLES
  route,    \* the service Cloudflare has for the route; None: no route
  row,      \* its row of inspected_routes
  pause,    \* its row of paused_routes: none, one, or one with via_inspect
  alive,    \* the processes that run
  fresh,    \* the app's first sweep is still to come
  tap,      \* each process's tap for the route
  applied,  \* Enforcer::applied
  op,       \* what each task is in the middle of
  trouble, asks,  \* how often each has happened
  own, odd
  \* history: the service the user gave the route, and what has happened to it that a
  \* property makes an exception of

budgets == <<trouble, asks>>
vars == <<route, row, pause, alive, fresh, tap, applied, op, budgets, own, odd>>

Urls    == Procs \X (1..MaxTaps)
Targets == Services \cup Urls
Rows    == [original : Targets, url : Urls, owner : Procs]
Taps    == [n : 1..MaxTaps, to : Targets, paused : BOOLEAN]

Pauses  == {"no", "yes", "via"}
Kinds   == {"on", "off", "pause", "resume", "tidy", "quit"}
Places  == {"sync", "guard", "plan", "review", "prepare", "record", "point", "unrecord",
            "unrecordGone", "mark", "save", "show", "serving", "find", "look", "lapse",
            "refind", "relook", "relapse", "back", "clear", "check", "exit"}
Changes == [from : Targets, to : Targets]
Oddities == {"lost", "stacked", "raced", "astray"}
\* row: the row to record, or the one that was read. tail: set_paused waits.
Ops == [at : Places, kind : Kinds, plan : Changes \cup {None}, row : Rows \cup {None},
        tail : BOOLEAN]

\* A tap's address is no service of the user's, and None is nothing of all that.
ASSUME NoneAssumption ==
  /\ Services \cap Urls = {}
  /\ None \notin Urls /\ None \notin Rows /\ None \notin Taps /\ None \notin Ops
  /\ None \notin [from : Targets \cup {None}, to : Targets]

TypeOK ==
  /\ route \in Targets \cup {None}
  /\ row \in Rows \cup {None}
  /\ pause \in Pauses
  /\ alive \in [Procs -> BOOLEAN]
  /\ fresh \in BOOLEAN
  /\ tap \in [Procs -> Taps \cup {None}]
  /\ applied \in Pauses
  /\ op \in [Slots -> Ops \cup {None}]
  /\ {trouble, asks} \subseteq Nat
  /\ own \in Services \cup {None}
  /\ odd \in SUBSET Oddities

Init ==
  /\ route = First
  /\ row = None
  /\ pause = "no"
  /\ alive = [p \in Procs |-> p = App]
  /\ fresh = TRUE
  /\ tap = [p \in Procs |-> None]
  /\ applied = "no"
  /\ op = [s \in Slots |-> None]
  /\ trouble = 0 /\ asks = 0
  /\ own = route
  /\ odd = {}

At(s, x) == op[s] # None /\ op[s].at = x
Tidying(s) == op[s].kind \in {"tidy", "quit"}
Here(p) == IF tap[p] = None THEN None ELSE <<p, tap[p].n>>
Goto(s, x) == op' = [op EXCEPT ![s].at = x]
NewOp(at, kind, tail) == [at |-> at, kind |-> kind, plan |-> None, row |-> None, tail |-> tail]

\* A task is between two calls; waiting for a person is not that.
Busy(s) == op[s] # None /\ op[s].at \notin {"review", "serving"}
\* What people do waits for the app's tasks, and they for it, unless overlaps are allowed.
Free(s) == Overlap \/ \A u \in Slots \ {s} : {s, u} \cap ByPeople # {} => ~Busy(u)

\* The task is done with the route: the process goes on, ends, or looks at what it did.
Ended(s) ==
  IF s = "cli" \/ op[s].kind = "quit" THEN [op[s] EXCEPT !.at = "exit"]
  ELSE IF op[s].tail THEN [op[s] EXCEPT !.at = "check"]
  ELSE None
Finish(s) == op' = [op EXCEPT ![s] = Ended(s)]

\* A change of the route makes every plan that was reviewed before it stale (its
\* fingerprint has the configuration's version).
Outdated(u) == IF op[u] = None THEN None ELSE [op[u] EXCEPT !.plan = None]
Change(v, s, next) ==
  /\ route' = v
  /\ op' = [u \in Slots |-> IF u = s THEN next ELSE Outdated(u)]

Trouble == trouble < MaxTrouble /\ trouble' = trouble + 1
Fault == Trouble
NoFault == UNCHANGED trouble
Odd(why) == odd' = odd \cup {why}
\* Whether a task begins something between two calls of another one.
Begun(s) ==
  IF op'[s] # None /\ ~Busy(s) /\ \E u \in Slots \ {s} : Busy(u) THEN odd \cup {"raced"} ELSE odd
Begins(s) == odd' = Begun(s)

\* Inspector::stop.
StopTap(p) == tap' = [tap EXCEPT ![p] = None]
StopTapIf(c, p) == IF c THEN StopTap(p) ELSE UNCHANGED tap
ShowPaused(p, on) == tap' = [tap EXCEPT ![p].paused = on]

\* The addresses something refers to.
Known ==
  {route} \cup (IF row = None THEN {} ELSE {row.url, row.original})
  \cup (UNION {{Here(p), tap[p].to} : p \in {q \in Procs : tap[q] # None}})
  \cup (UNION {{op[s].row.url, op[s].row.original} :
                 s \in {u \in Slots : op[u] # None /\ op[u].row # None}})
  \cup (UNION {{op[s].plan.from, op[s].plan.to} :
                 s \in {u \in Slots : op[u] # None /\ op[u].plan # None}})

\* Inspector::start, unless there is a tap for the route: on a port of its own.
EnsureTap(p) ==
  IF tap[p] # None THEN UNCHANGED tap
  ELSE LET ports == {n \in 1..MaxTaps : <<p, n>> \notin Known} IN
       \E n \in ports :
         /\ \A m \in ports : n <= m
         /\ tap' = [tap EXCEPT ![p] = [n |-> n, to |-> route, paused |-> FALSE]]

To(s) == IF op[s].kind \in {"on", "pause"} THEN op[s].row.url ELSE op[s].row.original
\* MUTANT of Approved: the change is made whatever the route has become since.
ApprovedAnyway(s) == TRUE

\* The fingerprint of the review is that of the plan.
Approved(s) == op[s].plan = [from |-> route, to |-> To(s)]

-----------------------------------------------------------------------------
(* Pointing the route at a tap                                             *)

NotWeb == route \notin Web \cup Urls

\* prepare_on's errors: no route, no web service, already being inspected.
Refuses(p) ==
  \/ NotWeb
  \/ row # None /\ row.url = route /\ tap[p] # None

\* MUTANT of Refuse: the pause of a route that is gone is tried for ever.
RefuseKeeping(s) ==
  /\ (Refuses(ProcOf(s)) /\ NoFault) \/ Fault
  /\ Finish(s) /\ UNCHANGED pause

\* prepare_on fails, and what was asked for with it; a pause of a route that cannot have
\* one is dropped (Enforcer::sync).
Refuse(s) ==
  \/ /\ Refuses(ProcOf(s))
     /\ pause' = IF op[s].kind = "pause" /\ NotWeb THEN "no" ELSE pause
     /\ Finish(s) /\ NoFault
  \/ /\ Fault
     /\ Finish(s) /\ UNCHANGED pause

\* plan_on. The tap it starts stays when the preview fails.
PlanOn(s) ==
  /\ At(s, "plan")
  /\ LET p == ProcOf(s) IN
     \/ /\ ~Refuses(p)
        /\ EnsureTap(p)
        /\ \/ /\ op' = [op EXCEPT ![s].plan = [from |-> route, to |-> Here(p)'],
                                  ![s].at = IF op[s].kind = "on" THEN "review" ELSE "prepare"]
              /\ UNCHANGED <<odd, trouble>>
           \/ Fault /\ Finish(s) /\ Odd("astray")
        /\ UNCHANGED pause
     \/ /\ Refuse(s)
        /\ UNCHANGED <<tap, odd>>
  /\ UNCHANGED <<route, row, alive, fresh, applied, asks, own>>

\* The user agrees, or cancels: the command line's inspector then ends with it, the
\* app's tap stays.
Review(s) ==
  /\ At(s, "review") /\ Free(s)
  /\ \/ /\ Goto(s, IF op[s].kind = "on" THEN "prepare" ELSE "refind")
        /\ Begins(s)
     \/ /\ s \in MayCancel
        /\ Finish(s)
        /\ odd' = Begun(s) \cup IF op[s].kind = "on" THEN {"astray"} ELSE {}
  /\ UNCHANGED <<route, row, pause, alive, fresh, tap, applied, budgets, own>>

\* apply_on asks for everything once more.
Prepare(s) ==
  /\ At(s, "prepare")
  /\ LET p == ProcOf(s) IN
     \/ /\ ~Refuses(p)
        /\ EnsureTap(p)
        /\ op' = [op EXCEPT ![s].row = [original |-> route, url |-> Here(p)', owner |-> p],
                            ![s].at = "record"]
        /\ UNCHANGED <<pause, odd, trouble>>
     \/ /\ Refuse(s)
        /\ Odd("astray")
        /\ UNCHANGED tap
  /\ UNCHANGED <<route, row, alive, fresh, applied, asks, own>>

\* MUTANT of Record: nothing is remembered.
RecordNothing(s) ==
  /\ At(s, "record")
  /\ Goto(s, "point")
  /\ UNCHANGED <<route, row, pause, alive, fresh, tap, applied, budgets, own, odd>>

\* "The route is remembered first, so a crash can't leave it unnoticed." A row that was
\* there is overwritten, and a tap's address may be taken for the user's service.
Record(s) ==
  /\ At(s, "record")
  /\ row' = op[s].row
  /\ Goto(s, "point")
  /\ IF op[s].row.original \in Urls THEN Odd("stacked") ELSE UNCHANGED odd
  /\ UNCHANGED <<route, pause, alive, fresh, tap, applied, budgets, own>>

\* The change is refused as stale, or fails and is taken back.
Declined(s) == (~Approved(s) /\ NoFault) \/ Fault

Pointed(s) ==
  IF s = "cli" THEN [op[s] EXCEPT !.at = "serving"]
  ELSE IF op[s].kind = "on" THEN None
  ELSE [op[s] EXCEPT !.at = "mark"]

\* Engine::apply.
Point(s) ==
  /\ At(s, "point")
  /\ \/ /\ Approved(s)
        /\ Change(To(s), s, Pointed(s))
        /\ UNCHANGED <<odd, trouble>>
     \/ /\ Declined(s)
        /\ Goto(s, IF route = None THEN "unrecordGone" ELSE "unrecord")
        /\ UNCHANGED <<route, odd>>
     \/ /\ Approved(s) /\ Fault
        /\ Change(To(s), s, [op[s] EXCEPT !.at = "unrecord"])
        /\ Odd("lost")
  /\ UNCHANGED <<row, pause, alive, fresh, tap, applied, asks, own>>

\* MUTANT of Unrecord: the tap stays.
UnrecordTapped(s) ==
  /\ At(s, "unrecord") \/ At(s, "unrecordGone")
  /\ row' = None
  /\ Finish(s)
  /\ UNCHANGED <<route, pause, alive, fresh, tap, applied, budgets, own, odd>>

\* The change was not made: the row goes, and the tap.
Unrecord(s) ==
  /\ At(s, "unrecord") \/ At(s, "unrecordGone")
  /\ row' = None
  /\ StopTap(ProcOf(s))
  /\ pause' = IF op[s].kind = "pause" /\ At(s, "unrecordGone") THEN "no" ELSE pause
  /\ Finish(s)
  /\ UNCHANGED <<route, alive, fresh, applied, budgets, own, odd>>

-----------------------------------------------------------------------------
(* Pausing                                                                 *)

\* Enforcer::sync_taps, and what it finds needed of Cloudflare; without a client of the
\* account (keychain, network) that is skipped.
Sync(s) ==
  /\ \/ s = "loop" /\ op[s] = None /\ alive[App] /\ Free(s)
     \/ s = "hand" /\ At(s, "sync")
  /\ LET tail == op[s] # None /\ op[s].tail
         Return == op' = [op EXCEPT ![s] = IF tail THEN NewOp("check", "pause", TRUE) ELSE None]
         Start(at, kind) == op' = [op EXCEPT ![s] = NewOp(at, kind, tail)] IN
     \/ /\ tap[App] # None /\ pause # "no"
        /\ ShowPaused(App, TRUE)
        /\ applied' = pause
        /\ Return /\ NoFault
     \/ /\ tap[App] = None /\ pause # "no"
        /\ (Start("guard", "pause") /\ NoFault) \/ (Return /\ Fault)
        /\ UNCHANGED <<tap, applied>>
     \/ /\ pause = "no"
        /\ applied' = "no"
        /\ IF tap[App] # None /\ applied # "no" THEN ShowPaused(App, FALSE) ELSE UNCHANGED tap
        /\ IF applied = "via" THEN (Start("find", "resume") /\ NoFault) \/ (Return /\ Fault)
           ELSE Return /\ NoFault
  /\ Begins(s)
  /\ UNCHANGED <<route, row, pause, alive, fresh, asks, own>>

\* pause_here: a tap is used as it is; a row of one that is gone is waited for (TapGone).
Guard(s) ==
  /\ At(s, "guard")
  /\ CASE tap[App] # None -> Goto(s, "show")
       [] tap[App] = None /\ row = None -> Goto(s, "plan")
       [] OTHER -> Finish(s)
  /\ UNCHANGED <<route, row, pause, alive, fresh, tap, applied, budgets, own, odd>>

\* The pause's row is read, and written back with via_inspect.
Mark(s) ==
  /\ At(s, "mark")
  /\ Goto(s, IF pause = "no" THEN "show" ELSE "save")
  /\ UNCHANGED <<route, row, pause, alive, fresh, tap, applied, budgets, own, odd>>

Save(s) ==
  /\ At(s, "save")
  /\ pause' = "via"
  /\ Goto(s, "show")
  /\ UNCHANGED <<route, row, alive, fresh, tap, applied, budgets, own, odd>>

\* MUTANT of Show: what was applied is not noted.
ShowUnnoted(s) ==
  /\ At(s, "show")
  /\ IF tap[App] = None THEN UNCHANGED tap ELSE ShowPaused(App, TRUE)
  /\ Finish(s)
  /\ UNCHANGED <<route, row, pause, alive, fresh, applied, budgets, own, odd>>

\* The tap shows the page, and the enforcer notes that (applied_via_inspect).
Show(s) ==
  /\ At(s, "show")
  /\ IF tap[App] = None THEN UNCHANGED <<tap, applied>>
     ELSE ShowPaused(App, TRUE) /\ applied' = "via"
  /\ Finish(s)
  /\ UNCHANGED <<route, row, pause, alive, fresh, budgets, own, odd>>

\* set_paused: "a pause that couldn't be applied is dropped".
Check(s) ==
  /\ At(s, "check")
  /\ pause' = IF tap[App] # None /\ tap[App].paused THEN pause ELSE "no"
  /\ op' = [op EXCEPT ![s] = None]
  /\ UNCHANGED <<route, row, alive, fresh, tap, applied, budgets, own, odd>>

-----------------------------------------------------------------------------
(* Pointing the route back                                                 *)

\* plan_off reads the row ...
Find(s) ==
  /\ At(s, "find") \/ At(s, "refind")
  /\ \/ /\ row # None
        /\ op' = [op EXCEPT ![s].row = row,
                            ![s].at = IF @ = "find" THEN "look" ELSE "relook"]
        /\ UNCHANGED tap
     \/ /\ row = None
        /\ StopTapIf(Tidying(s), ProcOf(s))
        /\ Finish(s)
  /\ UNCHANGED <<route, row, pause, alive, fresh, applied, budgets, own, odd>>

AfterLook(s) ==
  CASE At(s, "relook") \/ Tidying(s) -> "back"
    [] op[s].kind = "off" -> "review"
    [] OTHER -> "refind"

\* ... and then the route, and plans the change when it still points at the tap.
Look(s) ==
  /\ At(s, "look") \/ At(s, "relook")
  /\ \/ /\ route = op[s].row.url
        /\ op' = [op EXCEPT ![s].at = AfterLook(s),
                            ![s].plan = IF At(s, "look") THEN [from |-> route, to |-> To(s)] ELSE @]
        /\ UNCHANGED <<tap, trouble>>
     \/ /\ route # op[s].row.url
        /\ Goto(s, IF At(s, "look") THEN "lapse" ELSE "relapse")
        /\ UNCHANGED <<tap, trouble>>
     \/ /\ Fault
        /\ StopTapIf(Tidying(s), ProcOf(s))
        /\ Finish(s)
  /\ UNCHANGED <<route, row, pause, alive, fresh, applied, asks, own, odd>>

\* "The route is gone or was changed since; it's forgotten".
Lapse(s) ==
  /\ At(s, "lapse") \/ At(s, "relapse")
  /\ row' = None
  /\ StopTapIf(Tidying(s) \/ At(s, "relapse"), ProcOf(s))
  /\ Finish(s)
  /\ UNCHANGED <<route, pause, alive, fresh, applied, budgets, own, odd>>

\* MUTANT of Back: the service is restored whatever the route points at now.
BackAnyway(s) ==
  /\ At(s, "back")
  /\ Change(To(s), s, [op[s] EXCEPT !.at = "clear"])
  /\ UNCHANGED <<row, pause, alive, fresh, tap, applied, budgets, own, odd>>

\* Engine::apply. A sweep stops the tap even so; only it drops the row of a lost route.
Back(s) ==
  /\ At(s, "back")
  /\ \/ /\ Approved(s)
        /\ Change(To(s), s, [op[s] EXCEPT !.at = "clear"])
        /\ UNCHANGED <<row, tap, odd, trouble>>
     \/ /\ Declined(s)
        /\ row' = IF Tidying(s) /\ route = None THEN None ELSE row
        /\ StopTapIf(Tidying(s), ProcOf(s))
        /\ Finish(s)
        /\ UNCHANGED <<route, odd>>
     \/ /\ Approved(s) /\ Fault
        /\ Change(To(s), s, Ended(s))
        /\ Odd("lost")
        /\ StopTapIf(Tidying(s), ProcOf(s))
        /\ UNCHANGED row
  /\ UNCHANGED <<pause, alive, fresh, applied, asks, own>>

\* It is done: the row goes, and the tap.
Clear(s) ==
  /\ At(s, "clear")
  /\ row' = None
  /\ StopTap(ProcOf(s))
  /\ Finish(s)
  /\ UNCHANGED <<route, pause, alive, fresh, applied, budgets, own, odd>>

-----------------------------------------------------------------------------
(* Who asks for it                                                         *)

Ask == asks < MaxAsks /\ asks' = asks + 1
Idle(s) == op[s] = None /\ alive[ProcOf(s)] /\ Free(s)

\* Inspecting, or ending that, in the app.
InspectHere ==
  /\ Idle("hand") /\ Ask
  /\ \E k \in {"on", "off"} :
       op' = [op EXCEPT !["hand"] = NewOp(IF k = "on" THEN "plan" ELSE "find", k, FALSE)]
  /\ Begins("hand")
  /\ UNCHANGED <<route, row, pause, alive, fresh, tap, applied, trouble, own>>

Asked(on) == pause' = IF ~on THEN "no" ELSE IF pause = "no" THEN "yes" ELSE pause

\* set_paused, in the app: the row is written, and then the taps follow it.
SetPaused ==
  /\ Idle("hand") /\ Ask
  /\ \E on \in BOOLEAN :
       /\ Asked(on)
       /\ op' = [op EXCEPT !["hand"] = NewOp("sync", "pause", on)]
  /\ Begins("hand")
  /\ UNCHANGED <<route, row, alive, fresh, tap, applied, trouble, own>>

\* request, request_resume: another process, an agent or the schedule.
AskOver ==
  /\ Ask
  /\ \E on \in BOOLEAN : (on => alive[App]) /\ Asked(on)
  /\ UNCHANGED <<route, row, alive, fresh, tap, applied, op, trouble, own, odd>>

\* `teitunnel inspect`: a new process, once nothing remembers the last one.
RunCli ==
  /\ ~alive[Cli] /\ Free("cli") /\ Ask
  /\ row # None => row.owner # Cli
  /\ route \notin {Cli} \X (1..MaxTaps)
  /\ alive' = [alive EXCEPT ![Cli] = TRUE]
  /\ op' = [op EXCEPT !["cli"] = NewOp("plan", "on", FALSE)]
  /\ Begins("cli")
  /\ UNCHANGED <<route, row, pause, fresh, tap, applied, trouble, own>>

\* Ctrl-C: it points back the route it remembered.
Interrupt ==
  /\ At("cli", "serving") /\ Free("cli")
  /\ op' = [op EXCEPT !["cli"] = IF row # None /\ row.owner = Cli THEN NewOp("find", "tidy", FALSE)
                                 ELSE [@ EXCEPT !.at = "exit"]]
  /\ Begins("cli")
  /\ UNCHANGED <<route, row, pause, alive, fresh, tap, applied, budgets, own>>

\* Quitting the app: the routes it inspects first.
Quit ==
  /\ Idle("hand")
  /\ op' = [op EXCEPT !["hand"] = NewOp(IF row # None /\ row.owner = App THEN "find" ELSE "exit",
                                        "quit", FALSE)]
  /\ Begins("hand")
  /\ UNCHANGED <<route, row, pause, alive, fresh, tap, applied, budgets, own>>

\* MUTANT of SweptBy: only the app's own rows.
SweptByOwner(r) == fresh /\ r.owner = App /\ tap[App] = None

SweptBy(r) ==
  \/ r.owner = Cli /\ ~alive[Cli]
  \/ fresh /\ r.owner = App /\ tap[App] = None

\* watch_inspected_routes: on launch, and every 30 s.
Sweep ==
  /\ Idle("sweep")
  /\ fresh \/ (row # None /\ SweptBy(row))
  /\ fresh' = FALSE
  /\ op' = IF row # None /\ SweptBy(row)
           THEN [op EXCEPT !["sweep"] = NewOp("find", "tidy", FALSE)] ELSE op
  /\ Begins("sweep")
  /\ UNCHANGED <<route, row, pause, alive, tap, applied, budgets, own>>

Gone(p) ==
  /\ alive' = [alive EXCEPT ![p] = FALSE]
  /\ tap' = [tap EXCEPT ![p] = None]
  /\ op' = [s \in Slots |-> IF ProcOf(s) = p THEN None ELSE op[s]]
  /\ applied' = IF p = App THEN "no" ELSE applied
  /\ UNCHANGED <<route, row, pause, fresh, asks, own, odd>>

\* The process ends when it is done, whatever its other tasks are at.
Exit(s) ==
  /\ At(s, "exit")
  /\ Gone(ProcOf(s))
  /\ UNCHANGED trouble

Crash(p) ==
  /\ alive[p] /\ Trouble
  /\ Gone(p)

Launch ==
  /\ ~alive[App]
  /\ alive' = [alive EXCEPT ![App] = TRUE]
  /\ fresh' = TRUE
  /\ UNCHANGED <<route, row, pause, tap, applied, op, budgets, own, odd>>

\* The user changes or removes the route, in Teitunnel or in the dashboard.
EditRoute ==
  /\ Trouble
  /\ \E v \in Services \cup {None} : v # route /\ own' = v /\ Change(v, None, None)
  /\ IF \E p \in Procs : tap[p] # None THEN Odd("astray") ELSE UNCHANGED odd
  /\ UNCHANGED <<row, pause, alive, fresh, tap, applied, asks>>

Step(s) ==
  \/ PlanOn(s) \/ Prepare(s) \/ Record(s) \/ Point(s) \/ Unrecord(s)
  \/ Guard(s) \/ Mark(s) \/ Save(s) \/ Show(s) \/ Check(s)
  \/ Find(s) \/ Look(s) \/ Lapse(s) \/ Back(s) \/ Clear(s) \/ Exit(s)

Next ==
  \/ \E s \in Slots : Step(s) \/ Review(s) \/ Sync(s)
  \/ InspectHere \/ SetPaused \/ AskOver \/ RunCli \/ Interrupt \/ Quit \/ Sweep
  \/ \E p \in Procs : Crash(p)
  \/ Launch \/ EditRoute

Spec == Init /\ [][Next]_vars

\* Calls return (the client has timeouts), and the app's loops go round for ever. People
\* owe nothing: neither a review's end, nor a launch.
Fairness ==
  /\ \A s \in {"hand", "loop"} : WF_vars(Step(s) \/ Sync(s))
  /\ WF_vars(Step("sweep") \/ Sweep)
  /\ WF_vars(Step("cli"))
FairSpec == Spec /\ Fairness

-----------------------------------------------------------------------------
(* Safety                                                                  *)

\* A route that points at a tap is remembered with that address, wherever processes die
\* ("the route is remembered first, so a crash can't leave it unnoticed",
\* routes.rs:312-313): a sweep finds it. Not so where the answer to the change was lost,
\* where a tap's address was taken for the user's service, and where the app's two loops,
\* or more where Overlap has it, worked on the route at the same time.
WayBack ==
  odd \cap {"lost", "stacked", "raced"} = {} /\ route \in Urls => row # None /\ row.url = route

\* What is remembered of a route that points at its tap is the service the user gave it,
\* not a tap's address ("remembers the original", routes.rs:1-3).
OriginalKept ==
  "stacked" \notin odd /\ row # None /\ row.url = route => row.original = own

\* Between two operations, a tap that shows the page for a pause is one that the route
\* points at ("visitors get a friendly paused page ... instead of the service",
\* pause.rs:1-3).
Settled == \A s \in Slots : op[s] = None
Hidden == pause # "no" /\ tap[App] # None /\ tap[App].paused => route = Here(App)
PausedIsHidden ==
  Settled /\ odd \cap {"stacked", "astray", "lost"} = {} => Hidden

\* "Visitors get a friendly paused page" (pause.rs:1-3), also where a review of an
\* inspection was cancelled before, and left its tap behind.
PausedIsHiddenAtAll == Settled => Hidden

-----------------------------------------------------------------------------
(* What a step may not do                                                  *)

\* Nothing but the user gives the route a service the user did not give it: a tap's
\* address comes and goes, and what comes back is what the user has there.
OnlyTheirs ==
  [][route' # route /\ own' = own /\ "stacked" \notin odd => route' \in Urls \/ route' = own]_vars

-----------------------------------------------------------------------------
(* Liveness                                                                *)

\* "Swept at the next start after a crash", and every 30 s: while the app runs, the route
\* of a `teitunnel inspect` that is gone is pointed back (or is no longer remembered).
LeftBehind == row # None /\ row.owner = Cli /\ row.url = route /\ ~alive[Cli]
SweptInTheEnd == LeftBehind ~> ~LeftBehind \/ ~alive[App]

\* A pause asked for by anyone takes effect, or is dropped, while the app runs and no
\* other inspection is in the way.
PauseTakes ==
  pause # "no" /\ alive[App] ~>
    \/ tap[App] # None /\ tap[App].paused
    \/ pause = "no" \/ ~alive[App] \/ row # None \/ op["hand"] # None \/ op["cli"] # None

\* And a resume: visitors get the service again.
ResumeServes ==
  pause = "no" /\ tap[App] # None /\ tap[App].paused ~>
    pause # "no" \/ tap[App] = None \/ ~tap[App].paused
=============================================================================
