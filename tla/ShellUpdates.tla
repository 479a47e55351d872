----------------------------- MODULE ShellUpdates -----------------------------
(* The builds of the app and the pages that run them: the service worker    *)
(* (service-worker.ts), the pages' side of its updates (shell-updates.ts,   *)
(* shell-registration.ts) and, external, the registration the browser       *)
(* keeps.  A build stands for its worker, its shell cache and its document. *)
EXTENDS Integers, FiniteSets

CONSTANTS Tab, MaxBuild, MaxVisits, MaxExtras

ASSUME ShellAssumption == MaxBuild \in Nat \ {0}

VARIABLES
  deployed,    \* the build the server has
  installing, waiting, active,  \* the workers of the registration; 0: none
  activating,  \* the active worker is in its activate event
  cache,       \* cache[b]: what opening the shell cache of a build finds
  told,        \* the worker that waits was told not to
  page,        \* page[t]: the page in a tab, with its ShellUpdates
  visits,      \* bounded: the visits of pages
  extras,      \* bounded: the checks by hand and the installs that failed
  robbed,      \* history: builds whose cache another worker deleted
  late         \* history: tabs that took no notice of a worker

browser == <<installing, waiting, active, activating, cache, told>>
bounded == <<visits, extras>>
vars == <<deployed, browser, page, bounded, robbed, late>>

Build == 1 .. MaxBuild
Worker == Build \cup {0}

(* offered is #waiting and toast its offer; reload says whether a change of *)
(* control reloads the page or it is about to reload; asked is a check by   *)
(* hand, follows what such checks found, news the workers that have         *)
(* installed and whose event is on its way.                                 *)
Page == [build : Worker, controlled : BOOLEAN, watched : {"no", "yes", "dead"},
         offered : Worker, toast : BOOLEAN,
         reload : {"no", "armed", "due"}, asked : BOOLEAN,
         follows : SUBSET Build, news : SUBSET Build]

Blank(b, by) == [build |-> b, controlled |-> by # 0, watched |-> "no",
                 offered |-> 0, toast |-> FALSE, reload |-> "no",
                 asked |-> FALSE, follows |-> {}, news |-> {}]
Closed == Blank(0, 0)
IsOpen(t) == page[t].build # 0
Watching(t) == page[t].watched = "yes"

Newest == IF installing # 0 THEN installing
          ELSE IF waiting # 0 THEN waiting ELSE active

Init ==
  /\ deployed = 1 /\ installing = 0 /\ waiting = 0 /\ active = 0
  /\ activating = FALSE /\ told = FALSE
  /\ cache = [b \in Build |-> "none"]
  /\ page = [t \in Tab |-> Closed]
  /\ visits = 0 /\ extras = 0
  /\ robbed = {} /\ late = {}

(***************************** server and browser ***************************)

Deploy ==
  /\ deployed < MaxBuild
  /\ deployed' = deployed + 1
  /\ UNCHANGED <<browser, page, bounded, robbed, late>>

(* The worker of what the server has installs: it opens its cache, and then *)
(* fills it.                                                                *)
StartInstall ==
  /\ installing = 0
  /\ installing' = deployed
  /\ cache' = [cache EXCEPT ![deployed] = IF @ = "none" THEN "part" ELSE @]
  /\ UNCHANGED <<deployed, waiting, active, activating, told, bounded, robbed>>

(* A check (recheck, checkNow, a navigation) finds another script. *)
Find ==
  /\ Newest \notin {0, deployed} /\ \E t \in Tab : IsOpen(t)
  /\ StartInstall
  /\ UNCHANGED <<page, late>>

(* precache is done; what it put in a cache deleted meanwhile is lost.  The *)
(* worker that waited gives way, and no page heeds its events any more.     *)
(* Mutant: the install does not wait for precache.                          *)
PrecachedLater(b) == cache
Precached(b) == [cache EXCEPT ![b] = IF @ = "part" THEN "whole" ELSE @]

Installed ==
  /\ installing # 0
  /\ waiting' = installing /\ installing' = 0
  /\ cache' = Precached(installing) /\ told' = FALSE
  /\ page' = [t \in Tab |->
       LET hears == Watching(t) \/ installing \in page[t].follows IN
       [page[t] EXCEPT
          !.news = (@ \cup IF hears THEN {installing} ELSE {}) \ {waiting},
          !.follows = @ \ {waiting}]]
  /\ UNCHANGED <<deployed, active, activating, bounded, robbed, late>>

(* A registration without any worker is gone, for the pages that have it. *)
InstallFails ==
  /\ installing # 0 /\ extras < MaxExtras
  /\ installing' = 0 /\ extras' = extras + 1
  /\ page' = [t \in Tab |->
       [page[t] EXCEPT
          !.follows = @ \ {installing},
          !.watched = IF Watching(t) /\ waiting = 0 /\ active = 0 THEN "dead"
                      ELSE @]]
  /\ UNCHANGED <<deployed, waiting, active, activating, cache, told, visits,
                 robbed, late>>

(* A page whose control changes: one that was told to reload on it does.    *)
(* Mutants: every page reloads; the listener comes too late.                *)
TakenOverUnasked(p) == [p EXCEPT !.controlled = TRUE, !.reload = "due"]
TakenOverUnheard(p) == [p EXCEPT !.controlled = TRUE]
TakenOver(p) == [p EXCEPT !.controlled = TRUE,
                          !.reload = IF @ = "armed" THEN "due" ELSE @]

(* The worker that waits takes over: as the first, when no page uses the    *)
(* one before, or because it was told not to wait.                          *)
Activate ==
  /\ waiting # 0 /\ ~activating
  /\ \/ told
     \/ /\ active = 0 \/ \A t \in Tab : ~page[t].controlled
        /\ \A t \in Tab : waiting \notin page[t].news
  /\ active' = waiting /\ waiting' = 0 /\ activating' = TRUE /\ told' = FALSE
  /\ page' = [t \in Tab |->
       IF page[t].controlled THEN TakenOver(page[t]) ELSE page[t]]
  /\ late' = late \cup {t \in Tab : IsOpen(t) /\ page[t].watched = "no"}
  /\ UNCHANGED <<deployed, installing, cache, bounded, robbed>>

(* Every other shell cache is deleted, then the pages are claimed. *)
StaleShell(b) == b # active

RetireStaleShells ==
  /\ activating
  /\ activating' = FALSE
  /\ cache' = [b \in Build |-> IF StaleShell(b) THEN "none" ELSE cache[b]]
  /\ page' = [t \in Tab |->
       IF IsOpen(t) /\ ~page[t].controlled THEN TakenOver(page[t]) ELSE page[t]]
  /\ robbed' = robbed \cup ({installing, waiting} \ {0})
  /\ UNCHANGED <<deployed, installing, waiting, active, told, bounded, late>>

(********************************** pages ***********************************)

(* A page loads: the network answers with what the server has; when it      *)
(* fails or is slow, the shell of the active worker, if it has one.         *)
NavigationResponse ==
  {Blank(deployed, active)}
    \cup IF active # 0 /\ cache[active] = "whole" THEN {Blank(active, active)}
         ELSE {Closed}

Load(t) ==
  /\ ~activating
  /\ \E p \in NavigationResponse : page' = [page EXCEPT ![t] = p]
  /\ late' = late \ {t}
  /\ UNCHANGED <<deployed, browser, extras, robbed>>

Visit(t) == /\ page[t].reload # "due" /\ visits < MaxVisits
            /\ Load(t)
            /\ visits' = visits + 1
Reload(t) == page[t].reload = "due" /\ Load(t) /\ UNCHANGED visits

Close(t) ==
  /\ IsOpen(t)
  /\ page' = [page EXCEPT ![t] = Closed]
  /\ late' = late \ {t}
  /\ UNCHANGED <<deployed, browser, bounded, robbed>>

(* offer: the toast that shows, or another, for the worker named last.      *)
(* Mutant: the worker is not kept while a toast shows.                      *)
OfferOnce(p, b) ==
  IF p.toast THEN p ELSE [p EXCEPT !.offered = b, !.toast = TRUE]
Offer(p, b) == [p EXCEPT !.offered = b, !.toast = TRUE]

(* watchShellWorker: a registration that has a worker comes back when no    *)
(* worker is installing; the first one comes back with its worker.          *)
(* Mutant: only the workers found from now on are offered.                  *)
WatchFoundOnly(t) ==
  /\ IsOpen(t) /\ page[t].watched = "no" /\ installing = 0 /\ Newest # 0
  /\ page' = [page EXCEPT ![t].watched = "yes"]
  /\ UNCHANGED <<deployed, browser, bounded, robbed, late>>

Watch(t) ==
  /\ IsOpen(t) /\ page[t].watched = "no" /\ installing = 0 /\ Newest # 0
  /\ LET p == [page[t] EXCEPT !.watched = "yes"] IN
       page' = [page EXCEPT ![t] =
                  IF waiting # 0 /\ p.controlled THEN Offer(p, waiting) ELSE p]
  /\ late' = IF waiting # 0 /\ ~page[t].controlled THEN late \cup {t} ELSE late
  /\ UNCHANGED <<deployed, browser, bounded, robbed>>

WatchFirst(t) ==
  /\ IsOpen(t) /\ page[t].watched = "no" /\ Newest = 0
  /\ page' = [page EXCEPT ![t].watched = "yes"]
  /\ StartInstall
  /\ UNCHANGED late

(* A worker that has installed is offered to a page that has a controller,  *)
(* if it still waits; one that a check followed, if it was not replaced.    *)
Hear(t, b) ==
  /\ b \in page[t].news
  /\ LET p == [page[t] EXCEPT !.news = @ \ {b}, !.follows = @ \ {b}]
         watched == Watching(t) /\ page[t].controlled /\ waiting = b
         followed == b \in page[t].follows /\ b \in {waiting, active} IN
       /\ page' = [page EXCEPT ![t] =
                     IF watched \/ followed THEN Offer(p, b) ELSE p]
       /\ late' = IF page[t].controlled /\ b # active THEN late
                  ELSE late \cup {t}
  /\ UNCHANGED <<deployed, browser, bounded, robbed>>

(* checkNow: a worker that waits is offered, else the server is asked. *)
CheckNow(t) ==
  /\ page[t].watched # "no" /\ ~page[t].asked /\ extras < MaxExtras
  /\ extras' = extras + 1
  /\ page' = [page EXCEPT ![t] =
                IF Watching(t) /\ waiting # 0 THEN Offer(@, waiting)
                ELSE [@ EXCEPT !.asked = TRUE]]
  /\ UNCHANGED <<deployed, browser, visits, robbed, late>>

(* The answer: a failure, no other worker, or one to follow. *)
Follow(p, b) == IF b = installing THEN [p EXCEPT !.follows = @ \cup {b}]
                ELSE Offer(p, b)

CheckAnswered(t) ==
  /\ page[t].asked
  /\ LET p == [page[t] EXCEPT !.asked = FALSE]
         found == IF ~Watching(t) THEN 0
                  ELSE IF installing # 0 THEN installing ELSE waiting IN
       page' \in {[page EXCEPT ![t] = q] :
                    q \in {p} \cup IF found # 0 THEN {Follow(p, found)} ELSE {}}
  /\ UNCHANGED <<deployed, browser, bounded, robbed, late>>

Dismiss(t) ==
  /\ page[t].toast
  /\ page' = [page EXCEPT ![t].toast = FALSE]
  /\ UNCHANGED <<deployed, browser, bounded, robbed, late>>

(* Reload is tapped: a worker that waits is told not to, and the page       *)
(* reloads when control changes; any other worker needs no more than that.  *)
Apply(t) ==
  /\ page[t].toast
  /\ LET waits == page[t].offered = waiting IN
       /\ page' = [page EXCEPT ![t].toast = FALSE,
                               ![t].reload = IF waits THEN "armed" ELSE "due"]
       /\ told' = (told \/ waits)
  /\ UNCHANGED <<deployed, installing, waiting, active, activating, cache,
                 bounded, robbed, late>>

User(t) == Visit(t) \/ Close(t) \/ CheckNow(t) \/ Dismiss(t) \/ Apply(t)
Heed(t) == \/ Watch(t) \/ WatchFirst(t) \/ CheckAnswered(t)
           \/ \E b \in Build : Hear(t, b)
Next == \/ Deploy \/ Find \/ Installed \/ InstallFails
        \/ Activate \/ RetireStaleShells
        \/ \E t \in Tab : User(t) \/ Reload(t) \/ Heed(t)
Spec == Init /\ [][Next]_vars

(* The app looks for a newer build now and then while a page is open, an    *)
(* install that is tried again and again succeeds, workers get on and pages *)
(* hear of it.                                                              *)
Fairness ==
  /\ WF_vars(Find) /\ SF_vars(Installed) /\ WF_vars(Activate)
  /\ WF_vars(RetireStaleShells)
  /\ \A t \in Tab : /\ WF_vars(Reload(t)) /\ WF_vars(Watch(t))
                   /\ \A b \in Build : WF_vars(Hear(t, b))
FairSpec == Spec /\ Fairness

(******************************** properties ********************************)

(* Every variable has its type; a page that is closed keeps nothing, a      *)
(* toast names its worker, and a worker is of a later build than the one    *)
(* before it.                                                               *)
TypeOK ==
  /\ deployed \in Build
  /\ installing \in Worker /\ waiting \in Worker /\ active \in Worker
  /\ waiting # 0 => waiting > active
  /\ installing # 0 => installing > waiting /\ installing > active
  /\ activating \in BOOLEAN /\ told \in BOOLEAN
  /\ cache \in [Build -> {"none", "part", "whole"}]
  /\ page \in [Tab -> Page]
  /\ \A t \in Tab : /\ IsOpen(t) \/ page[t] = Closed
                    /\ page[t].toast => page[t].offered # 0
  /\ visits \in Nat /\ extras \in Nat
  /\ robbed \in SUBSET Build /\ late \in SUBSET Tab

(* A page that watches has been offered the worker that waits, however it   *)
(* came to wait: before the page, while it was open, found by a check by    *)
(* hand, or in the place of one that was offered or even told to take over. *)
(* The exceptions are pages that had no controller then, or that heard of a *)
(* worker when it had taken over (late).                                    *)
WaitingOffered ==
  \A t \in Tab :
    (Watching(t) /\ t \notin late /\ waiting # 0 /\ waiting \notin page[t].news)
      => page[t].offered = waiting

(* A worker that waits or serves has its whole shell, so that the app opens *)
(* offline: an install that failed never gets there, and a worker spares    *)
(* its own cache.  The exception is a worker that installed, or waited,     *)
(* while the one before it deleted the caches of others.                    *)
ShellWhole ==
  \A b \in {waiting, active} \ {0} : cache[b] = "whole" \/ b \in robbed

(* "Nothing reloads by itself": a page that is going to reload was told to, *)
(* in that page, now or when it began to wait for the change of control;    *)
(* not by the first worker, nor by what other tabs do.                      *)
ReloadsAsked ==
  [][\A t \in Tab :
       (page'[t].reload = "due" /\ page[t].reload # "due") =>
         \/ page[t].reload = "armed"
         \/ page[t].toast /\ ~page'[t].toast]_vars

(* Who taps Reload gets the page reloaded: the worker takes over, or has    *)
(* for another tab.  When a newer worker takes its place before it hears,   *)
(* that one is offered instead.                                             *)
ApplyEnds ==
  \A t \in Tab :
    (/\ page[t].reload = "armed"
     /\ page[t].offered = active \/ (told /\ page[t].offered = waiting))
      ~> (page[t].reload # "armed" \/ page[t].toast)

(* A page that stays open while the server has a newer build is offered it  *)
(* in the end, with no reload and no check by hand.  (late as above.)       *)
Lags(t) == /\ Watching(t) /\ t \notin late
           /\ deployed \notin {page[t].build, page[t].offered}

NewestOffered == \A t \in Tab : Lags(t) ~> ~Lags(t)
===============================================================================
