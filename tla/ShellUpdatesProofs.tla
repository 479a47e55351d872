-------------------------- MODULE ShellUpdatesProofs --------------------------
(***************************************************************************)
(* What holds of workers, shells and pages for any tabs and builds.  The   *)
(* invariant adds to the properties that the registration has only builds  *)
(* the server had, and that the worker that installs has its cache, be it  *)
(* half filled, unless another deleted it.                                 *)
(***************************************************************************)
EXTENDS ShellUpdates, TLAPS

Registered ==
  /\ installing <= deployed /\ waiting <= deployed /\ active <= deployed
  /\ installing # 0 => cache[installing] # "none" \/ installing \in robbed

Inv == TypeOK /\ Registered /\ WaitingOffered /\ ShellWhole

(* The type invariant without what it says of the pages. *)
BrowserTyped ==
  /\ deployed \in Build
  /\ installing \in Worker /\ waiting \in Worker /\ active \in Worker
  /\ waiting # 0 => waiting > active
  /\ installing # 0 => installing > waiting /\ installing > active
  /\ activating \in BOOLEAN /\ told \in BOOLEAN
  /\ cache \in [Build -> {"none", "part", "whole"}]
  /\ visits \in Nat /\ extras \in Nat
  /\ robbed \in SUBSET Build /\ late \in SUBSET Tab

(* What the type invariant says of one page. *)
PageFits(p) ==
  /\ p \in Page
  /\ p.build # 0 \/ p = Closed
  /\ p.toast => p.offered # 0

(* What WaitingOffered says of one page, with this worker waiting. *)
Told(p, w) ==
  p.watched = "yes" /\ w # 0 /\ w \notin p.news => p.offered = w
-------------------------------------------------------------------------------
(* The type invariant is that of the browser and that of every page. *)
LEMMA TypeParts ==
  TypeOK <=> /\ BrowserTyped
             /\ page = [t \in Tab |-> page[t]]
             /\ \A t \in Tab : PageFits(page[t])
  BY DEF TypeOK, BrowserTyped, PageFits, IsOpen

(* WaitingOffered is that of every page that is not late. *)
LEMMA OfferedParts ==
  WaitingOffered <=> \A t \in Tab : t \notin late => Told(page[t], waiting)
  BY DEF WaitingOffered, Told, Watching

(* Workers are numbers, and all but 0 are builds. *)
LEMMA Workers ==
  /\ Worker \subseteq Nat /\ 0 \in Worker
  /\ Build \subseteq Worker /\ Build \subseteq Nat \ {0}
  /\ \A b \in Worker : b # 0 => b \in Build
  BY ShellAssumption DEF Worker, Build

(* A page that is closed, or was just loaded, fits. *)
LEMMA BlankFits ==
  ASSUME NEW b \in Worker, NEW by \in Worker, b # 0 \/ by = 0, NEW w
  PROVE  PageFits(Blank(b, by)) /\ Told(Blank(b, by), w)
  BY DEF PageFits, Told, Blank, Closed, Page, Worker

(* What a page hears of may change while it is open; not once it is closed. *)
LEMMA HearingFits ==
  ASSUME NEW p, PageFits(p), NEW q \in Page,
         q.build = p.build, q.controlled = p.controlled, q.offered = p.offered,
         q.toast = p.toast, q.reload = p.reload, q.asked = p.asked,
         p = Closed => q.watched = "no" /\ q.news = {} /\ q.follows = {}
  PROVE  PageFits(q)
<1>1. CASE p = Closed
  <2>1. q = [build |-> q.build, controlled |-> q.controlled, watched |-> q.watched,
             offered |-> q.offered, toast |-> q.toast, reload |-> q.reload,
             asked |-> q.asked, follows |-> q.follows, news |-> q.news]
    BY DEF Page
  <2>2. q = Closed
    BY <1>1, <2>1 DEF Closed, Blank
  <2> QED BY <1>1, <2>2
<1>2. CASE p.build # 0
  BY <1>2 DEF PageFits
<1> QED BY <1>1, <1>2 DEF PageFits

(* What the invariant says, in parts. *)
LEMMA InvParts ==
  ASSUME Inv
  PROVE  /\ BrowserTyped /\ Registered /\ ShellWhole
         /\ page = [t \in Tab |-> page[t]]
         /\ \A t \in Tab : /\ PageFits(page[t])
                           /\ t \notin late => Told(page[t], waiting)
  BY TypeParts, OfferedParts DEF Inv

(* The parts after a step are the invariant after it. *)
LEMMA PartsInv ==
  ASSUME BrowserTyped', Registered', ShellWhole',
         page' = [t \in Tab |-> page'[t]],
         \A t \in Tab : /\ PageFits(page'[t])
                        /\ t \notin late' => Told(page'[t], waiting')
  PROVE  Inv'
<1>1. TypeOK'
  BY DEF TypeOK, BrowserTyped, PageFits, IsOpen
<1>2. WaitingOffered'
  BY DEF WaitingOffered, Told, Watching
<1> QED BY <1>1, <1>2 DEF Inv

(* A step of one page, which leaves the registration and the caches alone   *)
(* but may tell the worker that waits not to.                               *)
LEMMA OnePage ==
  ASSUME Inv, NEW t \in Tab, NEW p,
         page' = [page EXCEPT ![t] = p],
         PageFits(p), t \notin late' => Told(p, waiting),
         late \ {t} \subseteq late', late' \subseteq Tab,
         told' \in BOOLEAN, visits' \in Nat, extras' \in Nat,
         UNCHANGED <<deployed, installing, waiting, active, activating, cache, robbed>>
  PROVE  Inv'
<1>1. BrowserTyped' /\ Registered' /\ ShellWhole'
  BY InvParts DEF BrowserTyped, Registered, ShellWhole
<1>2. page' = [u \in Tab |-> page'[u]]
  BY InvParts
<1>3. ASSUME NEW u \in Tab
      PROVE  PageFits(page'[u]) /\ (u \notin late' => Told(page'[u], waiting'))
  <2>1. CASE u = t
    BY <2>1, InvParts
  <2>2. CASE u # t
    BY <2>2, InvParts
  <2> QED BY <2>1, <2>2
<1> QED BY <1>1, <1>2, <1>3, PartsInv

(* A worker that starts to install has a cache, and takes none from others. *)
LEMMA StartInstallKeeps ==
  ASSUME Inv, StartInstall, deployed # Newest
  PROVE  /\ BrowserTyped' \/ late' \notin SUBSET Tab
         /\ Registered' /\ ShellWhole'
<1> USE InvParts
<1>1. deployed \in Nat \ {0} /\ deployed \in Build
  BY DEF BrowserTyped, Build
<1>2. waiting < deployed /\ active < deployed
  BY <1>1, ShellAssumption
  DEF StartInstall, Newest, BrowserTyped, Registered, Worker, Build
<1>3. /\ cache' \in [Build -> {"none", "part", "whole"}]
      /\ cache'[deployed] # "none"
      /\ \A b \in Build : cache[b] = "whole" => cache'[b] = "whole"
  BY <1>1 DEF StartInstall, BrowserTyped
<1>4. BrowserTyped' \/ late' \notin SUBSET Tab
  BY <1>1, <1>2, <1>3 DEF StartInstall, BrowserTyped, bounded, Worker
<1>5. Registered'
  BY <1>1, <1>3 DEF StartInstall, BrowserTyped, Registered, Worker, Build
<1>6. ShellWhole'
  BY <1>3 DEF StartInstall, BrowserTyped, ShellWhole, Worker
<1> QED BY <1>4, <1>5, <1>6
-------------------------------------------------------------------------------
(* Nothing is there at first. *)
LEMMA InitInv == Init => Inv
<1> SUFFICES ASSUME Init PROVE Inv
  OBVIOUS
<1>1. TypeOK
  <2>1. BrowserTyped
    <3>1. activating \in BOOLEAN /\ told \in BOOLEAN
      BY DEF Init
    <3> QED BY <3>1, Workers, ShellAssumption DEF Init, BrowserTyped, Build
  <2>2. PageFits(Closed)
    BY Workers, BlankFits DEF Closed
  <2> QED BY <2>1, <2>2, TypeParts DEF Init
<1>2. Registered
  BY ShellAssumption DEF Init, Registered, Build
<1>3. WaitingOffered /\ ShellWhole
  BY DEF Init, WaitingOffered, ShellWhole
<1> QED BY <1>1, <1>2, <1>3 DEF Inv

(* The server gets a newer build. *)
LEMMA DeployKeeps == ASSUME Inv, Deploy PROVE Inv'
<1>1. BrowserTyped' /\ Registered' /\ ShellWhole'
  BY InvParts, ShellAssumption
  DEF Deploy, BrowserTyped, Registered, ShellWhole, browser, bounded, Build, Worker
<1>2. UNCHANGED <<page, late, waiting>>
  BY DEF Deploy, browser
<1> QED BY <1>1, <1>2, InvParts, PartsInv

(* A check finds another script. *)
LEMMA FindKeeps == ASSUME Inv, Find PROVE Inv'
<1>1. BrowserTyped' /\ Registered' /\ ShellWhole'
  BY InvParts, StartInstallKeeps DEF Find, BrowserTyped
<1>2. UNCHANGED <<page, late, waiting>>
  BY DEF Find, StartInstall
<1> QED BY <1>1, <1>2, InvParts, PartsInv

(* An install is done: every page that watches has its event on the way. *)
LEMMA InstalledKeeps == ASSUME Inv, Installed PROVE Inv'
<1> USE InvParts
<1>0. /\ installing # 0 /\ waiting' = installing /\ installing' = 0
      /\ UNCHANGED <<deployed, active, activating, robbed, late>>
      /\ told' = FALSE /\ UNCHANGED bounded
      /\ cache' = Precached(installing)
  BY DEF Installed
<1>1. installing \in Build /\ installing # waiting /\ installing > active
  BY <1>0, Workers DEF BrowserTyped
<1>2. /\ cache' \in [Build -> {"none", "part", "whole"}]
      /\ cache[installing] # "none" => cache'[installing] = "whole"
      /\ \A b \in Build : cache[b] = "whole" => cache'[b] = "whole"
  BY <1>0, <1>1 DEF Precached, BrowserTyped
<1>3. BrowserTyped'
  BY <1>0, <1>1, <1>2, Workers DEF BrowserTyped, bounded
<1>4. Registered'
  BY <1>0, Workers DEF BrowserTyped, Registered
<1>5. ShellWhole'
  BY <1>0, <1>1, <1>2, Workers DEF Registered, ShellWhole, BrowserTyped
<1>6. page' = [t \in Tab |-> page'[t]]
  BY DEF Installed
<1>7. ASSUME NEW t \in Tab
      PROVE  PageFits(page'[t]) /\ (t \notin late' => Told(page'[t], waiting'))
  <2>1. PICK news \in SUBSET Build :
          /\ page'[t] = [page[t] EXCEPT !.news = news, !.follows = @ \ {waiting}]
          /\ page[t].watched = "yes" => installing \in news
          /\ page[t].watched = "no" /\ page[t].news = {} /\ page[t].follows = {}
               => news = {}
    <3> DEFINE hears == Watching(t) \/ installing \in page[t].follows
               news == (page[t].news \cup IF hears THEN {installing} ELSE {})
                         \ {waiting}
    <3>1. news \in SUBSET Build
      BY <1>1 DEF PageFits, Page
    <3>2. page[t].watched = "yes" => installing \in news
      BY <1>1 DEF Watching
    <3>3. page[t].watched = "no" /\ page[t].news = {} /\ page[t].follows = {}
            => news = {}
      BY DEF Watching
    <3>4. page'[t] = [page[t] EXCEPT !.news = news, !.follows = @ \ {waiting}]
      BY DEF Installed
    <3> QED BY <3>1, <3>2, <3>3, <3>4
  <2>2. PageFits(page'[t])
    <3>1. page[t] = Closed => /\ page[t].news = {} /\ page[t].follows = {}
                              /\ page[t].watched = "no"
      BY DEF Closed, Blank
    <3>2. page[t] \in Page
      BY DEF PageFits
    <3>3. page'[t] \in Page
      BY <2>1, <3>2 DEF Page
    <3>4. /\ page'[t].build = page[t].build
          /\ page'[t].controlled = page[t].controlled
          /\ page'[t].offered = page[t].offered /\ page'[t].toast = page[t].toast
          /\ page'[t].reload = page[t].reload /\ page'[t].asked = page[t].asked
          /\ page[t] = Closed => /\ page'[t].watched = "no" /\ page'[t].news = {}
                                 /\ page'[t].follows = {}
      BY <2>1, <3>1, <3>2 DEF Page
    <3> QED BY <3>3, <3>4, HearingFits
  <2>3. page'[t].watched = "yes" => waiting' \in page'[t].news
    BY <1>0, <2>1 DEF PageFits, Page
  <2> QED BY <2>2, <2>3 DEF Told
<1> QED BY <1>3, <1>4, <1>5, <1>6, <1>7, PartsInv

(* An install fails: a page keeps what it was told. *)
LEMMA InstallFailsKeeps == ASSUME Inv, InstallFails PROVE Inv'
<1> USE InvParts
<1>0. /\ installing' = 0 /\ extras' = extras + 1
      /\ UNCHANGED <<deployed, waiting, active, activating, cache, told, visits,
                     robbed, late>>
  BY DEF InstallFails
<1>1. BrowserTyped' /\ Registered' /\ ShellWhole'
  BY <1>0, Workers DEF BrowserTyped, Registered, ShellWhole
<1>2. page' = [t \in Tab |-> page'[t]]
  BY DEF InstallFails
<1>3. ASSUME NEW t \in Tab
      PROVE  PageFits(page'[t]) /\ (t \notin late' => Told(page'[t], waiting'))
  <2>1. PICK w \in {page[t].watched, "dead"} :
          /\ page'[t] = [page[t] EXCEPT !.follows = @ \ {installing}, !.watched = w]
          /\ page[t].watched = "no" => w = "no"
    BY DEF InstallFails, Watching
  <2>2. PageFits(page'[t])
    <3>1. page[t] = Closed => /\ page[t].news = {} /\ page[t].follows = {}
                              /\ page[t].watched = "no"
      BY DEF Closed, Blank
    <3>2. page[t] \in Page
      BY DEF PageFits
    <3>3. page'[t] \in Page
      BY <2>1, <3>2 DEF Page
    <3>4. /\ page'[t].build = page[t].build
          /\ page'[t].controlled = page[t].controlled
          /\ page'[t].offered = page[t].offered /\ page'[t].toast = page[t].toast
          /\ page'[t].reload = page[t].reload /\ page'[t].asked = page[t].asked
          /\ page[t] = Closed => /\ page'[t].watched = "no" /\ page'[t].news = {}
                                 /\ page'[t].follows = {}
      BY <2>1, <3>1, <3>2 DEF Page
    <3> QED BY <3>3, <3>4, HearingFits
  <2>3. Told(page[t], waiting) => Told(page'[t], waiting)
    BY <2>1 DEF PageFits, Page, Told
  <2> QED BY <1>0, <2>2, <2>3
<1> QED BY <1>1, <1>2, <1>3, PartsInv

(* A page whose control changes keeps what it was told and what it offers. *)
LEMMA TakenOverFits ==
  ASSUME NEW p, PageFits(p), p.build # 0, NEW w
  PROVE  PageFits(TakenOver(p)) /\ (Told(p, w) => Told(TakenOver(p), w))
  BY DEF PageFits, Page, TakenOver, Told

(* The worker that waited takes over, and no other waits. *)
LEMMA ActivateKeeps == ASSUME Inv, Activate PROVE Inv'
<1> USE InvParts
<1>0. /\ waiting # 0 /\ active' = waiting /\ waiting' = 0
      /\ activating' = TRUE /\ told' = FALSE
      /\ late' \subseteq late \cup Tab
      /\ UNCHANGED <<deployed, installing, cache, bounded, robbed>>
  BY DEF Activate
<1>1. BrowserTyped' /\ Registered' /\ ShellWhole'
  <2>1. activating' \in BOOLEAN /\ told' \in BOOLEAN
    BY <1>0
  <2>2. BrowserTyped'
    BY <1>0, <2>1, Workers DEF BrowserTyped, bounded
  <2> QED BY <1>0, <2>2, Workers DEF BrowserTyped, Registered, ShellWhole
<1>2. page' = [t \in Tab |-> page'[t]]
  BY DEF Activate
<1>3. ASSUME NEW t \in Tab
      PROVE  PageFits(page'[t]) /\ (t \notin late' => Told(page'[t], waiting'))
  <2>1. page[t].controlled => page[t].build # 0
    <3>1. ~Closed.controlled
      BY DEF Closed, Blank
    <3> QED BY <3>1 DEF PageFits
  <2>2. PageFits(page'[t])
    BY <2>1, TakenOverFits DEF Activate
  <2> QED BY <1>0, <2>2 DEF Told
<1> QED BY <1>1, <1>2, <1>3, PartsInv

(* A worker spares its own cache; the others that lose theirs are noted. *)
LEMMA RetireStaleShellsKeeps == ASSUME Inv, RetireStaleShells PROVE Inv'
<1> USE InvParts
<1>1. /\ installing # 0 => installing \in Build
      /\ waiting # 0 => waiting \in Build
  BY DEF BrowserTyped, Worker
<1>2. BrowserTyped'
  BY <1>1 DEF RetireStaleShells, BrowserTyped, bounded
<1>3. Registered' /\ ShellWhole'
  BY <1>1 DEF RetireStaleShells, BrowserTyped, Registered, ShellWhole, StaleShell, Worker
<1>4. page' = [t \in Tab |-> page'[t]]
  BY DEF RetireStaleShells
<1>5. ASSUME NEW t \in Tab
      PROVE  PageFits(page'[t]) /\ (t \notin late' => Told(page'[t], waiting'))
  <2>1. CASE page'[t] = page[t]
    BY <2>1 DEF RetireStaleShells
  <2>2. CASE IsOpen(t) /\ page'[t] = TakenOver(page[t])
    BY <2>2, TakenOverFits DEF RetireStaleShells, IsOpen
  <2> QED BY <2>1, <2>2 DEF RetireStaleShells
<1> QED BY <1>2, <1>3, <1>4, <1>5, PartsInv
-------------------------------------------------------------------------------
(* A page that is loaded watches nothing yet. *)
LEMMA LoadKeeps ==
  ASSUME Inv, NEW t \in Tab, Load(t), visits' \in Nat
  PROVE  Inv'
<1> USE InvParts
<1>1. PICK p \in NavigationResponse : page' = [page EXCEPT ![t] = p]
  BY DEF Load
<1>2. PageFits(p) /\ Told(p, waiting)
  <2>1. deployed \in Worker /\ deployed # 0 /\ active \in Worker
    BY Workers DEF BrowserTyped
  <2>2. p \in {Blank(deployed, active), Blank(active, active), Closed}
    BY <1>1 DEF NavigationResponse
  <2> QED BY <2>1, <2>2, Workers, BlankFits DEF Closed
<1>3. /\ late' = late \ {t} /\ extras' = extras /\ told' = told
      /\ UNCHANGED <<deployed, installing, waiting, active, activating, cache, robbed>>
  BY DEF Load, browser
<1>4. late' \subseteq Tab /\ extras' \in Nat /\ told' \in BOOLEAN
  BY <1>3 DEF BrowserTyped
<1> QED BY <1>1, <1>2, <1>3, <1>4, OnePage

(* So is a page that a user opens, or that reloads. *)
LEMMA LoadsKeep == ASSUME Inv, NEW t \in Tab, Visit(t) \/ Reload(t) PROVE Inv'
<1>1. Load(t)
  BY DEF Visit, Reload
<1>2. visits \in Nat
  BY InvParts DEF BrowserTyped
<1> QED BY <1>1, <1>2, LoadKeeps DEF Visit, Reload

(* A page that is closed is forgotten. *)
LEMMA CloseKeeps == ASSUME Inv, NEW t \in Tab, Close(t) PROVE Inv'
<1>1. PageFits(Closed) /\ Told(Closed, waiting)
  BY Workers, BlankFits DEF Closed
<1>2. /\ page' = [page EXCEPT ![t] = Closed] /\ late' = late \ {t}
      /\ visits' = visits /\ extras' = extras /\ told' = told
      /\ UNCHANGED <<deployed, installing, waiting, active, activating, cache, robbed>>
  BY DEF Close, browser, bounded
<1>3. late' \subseteq Tab /\ visits' \in Nat /\ extras' \in Nat /\ told' \in BOOLEAN
  BY <1>2, InvParts DEF BrowserTyped
<1> QED BY <1>1, <1>2, <1>3, OnePage

(* A page of which only what it is told, asks or is about to do changes     *)
(* fits, if it is open.                                                     *)
LEMMA OpenFits ==
  ASSUME NEW p \in Page, p.build # 0, p.toast => p.offered # 0
  PROVE  PageFits(p)
  BY DEF PageFits

(* The page that offers the worker that waits has been told of it. *)
LEMMA OfferFits ==
  ASSUME NEW p, PageFits(p), p.build # 0, NEW b \in Build
  PROVE  PageFits(Offer(p, b)) /\ Told(Offer(p, b), b) /\ Offer(p, b).build # 0
<1>1. p \in Page /\ b \in Worker /\ b # 0
  BY Workers DEF PageFits
<1>2. Offer(p, b) \in Page
  BY <1>1 DEF Offer, Page
<1>3. Offer(p, b).build = p.build /\ Offer(p, b).offered = b
  BY <1>1 DEF Offer, Page
<1> QED BY <1>1, <1>2, <1>3, OpenFits DEF Told

(* Who begins to watch is offered the worker that waits, or is late. *)
LEMMA WatchKeeps == ASSUME Inv, NEW t \in Tab, Watch(t) PROVE Inv'
<1> USE InvParts
<1> DEFINE p == [page[t] EXCEPT !.watched = "yes"]
           q == IF waiting # 0 /\ p.controlled THEN Offer(p, waiting) ELSE p
<1>1. page[t] \in Page /\ page[t].build # 0
  BY DEF Watch, IsOpen, PageFits
<1>2. p \in Page /\ p.build # 0 /\ (p.toast => p.offered # 0)
  BY <1>1 DEF Page, PageFits
<1>3. PageFits(p)
  BY <1>2, OpenFits
<1>4. waiting # 0 => waiting \in Build
  BY Workers DEF BrowserTyped
<1>5. PageFits(q)
  BY <1>2, <1>3, <1>4, OfferFits
<1>6. /\ page' = [page EXCEPT ![t] = q]
      /\ late' = IF waiting # 0 /\ ~page[t].controlled THEN late \cup {t} ELSE late
      /\ visits' = visits /\ extras' = extras /\ told' = told
      /\ UNCHANGED <<deployed, installing, waiting, active, activating, cache, robbed>>
  BY DEF Watch, browser, bounded
<1>7. t \notin late' => Told(q, waiting)
  <2>1. CASE waiting = 0
    BY <2>1 DEF Told
  <2>2. CASE waiting # 0 /\ page[t].controlled
    <3>1. p.controlled
      BY <1>1, <2>2 DEF Page
    <3> QED BY <1>2, <1>3, <1>4, <2>2, <3>1, OfferFits
  <2>3. CASE waiting # 0 /\ ~page[t].controlled
    BY <1>6, <2>3
  <2> QED BY <2>1, <2>2, <2>3
<1>8. /\ late \ {t} \subseteq late' /\ late' \subseteq Tab
      /\ visits' \in Nat /\ extras' \in Nat /\ told' \in BOOLEAN
  BY <1>6 DEF BrowserTyped
<1> HIDE DEF q
<1> QED BY <1>5, <1>6, <1>7, <1>8, OnePage

(* When nothing is registered yet, nothing waits. *)
LEMMA WatchFirstKeeps == ASSUME Inv, NEW t \in Tab, WatchFirst(t) PROVE Inv'
<1> USE InvParts
<1>1. BrowserTyped' /\ Registered' /\ ShellWhole'
  <2>1. late' \in SUBSET Tab /\ StartInstall /\ Newest = 0
    BY DEF WatchFirst, BrowserTyped
  <2>2. deployed # 0
    BY Workers DEF BrowserTyped
  <2> QED BY <2>1, <2>2, StartInstallKeeps
<1>2. /\ page' = [page EXCEPT ![t].watched = "yes"]
      /\ late' = late /\ waiting' = 0
  <2>1. waiting = 0
    BY DEF WatchFirst, Newest
  <2> QED BY <2>1 DEF WatchFirst, StartInstall
<1>3. page' = [u \in Tab |-> page'[u]]
  BY <1>2
<1>4. ASSUME NEW u \in Tab
      PROVE  PageFits(page'[u]) /\ (u \notin late' => Told(page'[u], waiting'))
  <2>1. CASE u = t
    <3>1. page[t] \in Page /\ page[t].build # 0 /\ (page[t].toast => page[t].offered # 0)
      BY DEF WatchFirst, IsOpen, PageFits
    <3>2. page'[t] = [page[t] EXCEPT !.watched = "yes"]
      BY <1>2
    <3>3. /\ page'[t] \in Page /\ page'[t].build # 0
          /\ page'[t].toast => page'[t].offered # 0
      BY <3>1, <3>2 DEF Page
    <3> QED BY <1>2, <2>1, <3>3, OpenFits DEF Told
  <2>2. CASE u # t
    BY <1>2, <2>2 DEF Told
  <2> QED BY <2>1, <2>2
<1> QED BY <1>1, <1>3, <1>4, PartsInv

(* The event of the worker that waits is an offer, or the page is late; the *)
(* event of another leaves the page with what it was told.                  *)
LEMMA HearKeeps ==
  ASSUME Inv, NEW t \in Tab, NEW b \in Build, Hear(t, b)
  PROVE  Inv'
<1> USE InvParts
<1> DEFINE p == [page[t] EXCEPT !.news = @ \ {b}, !.follows = @ \ {b}]
           watched == Watching(t) /\ page[t].controlled /\ waiting = b
           followed == b \in page[t].follows /\ b \in {waiting, active}
           q == IF watched \/ followed THEN Offer(p, b) ELSE p
<1>1. page[t] \in Page /\ page[t].build # 0
  <2>1. Closed.news = {}
    BY DEF Closed, Blank
  <2> QED BY <2>1 DEF Hear, PageFits
<1>2. /\ p \in Page /\ p.build # 0 /\ (p.toast => p.offered # 0)
      /\ p.news = page[t].news \ {b} /\ p.watched = page[t].watched
      /\ p.offered = page[t].offered
  BY <1>1 DEF Page, PageFits
<1>3. PageFits(p)
  BY <1>2, OpenFits
<1>4. PageFits(q)
  BY <1>2, <1>3, OfferFits
<1>5. /\ page' = [page EXCEPT ![t] = q]
      /\ late' = IF page[t].controlled /\ b # active THEN late ELSE late \cup {t}
      /\ visits' = visits /\ extras' = extras /\ told' = told
      /\ UNCHANGED <<deployed, installing, waiting, active, activating, cache, robbed>>
  BY DEF Hear, browser, bounded
<1>6. ASSUME t \notin late' PROVE Told(q, waiting)
  <2>1. page[t].controlled /\ b # active /\ t \notin late
    BY <1>5, <1>6
  <2>2. Told(page[t], waiting)
    BY <2>1
  <2>3. CASE b = waiting
    <3>1. CASE Watching(t)
      BY <1>2, <1>3, <2>1, <2>3, <3>1, OfferFits
    <3>2. CASE ~Watching(t)
      <4>1. q.watched # "yes"
        BY <1>2, <3>2 DEF Watching, Offer, Page
      <4> QED BY <4>1 DEF Told
    <3> QED BY <3>1, <3>2
  <2>4. CASE b # waiting
    <3>1. q = p
      BY <2>1, <2>4
    <3> QED BY <1>2, <2>2, <2>4, <3>1 DEF Told
  <2> QED BY <2>3, <2>4
<1>7. /\ late \ {t} \subseteq late' /\ late' \subseteq Tab
      /\ visits' \in Nat /\ extras' \in Nat /\ told' \in BOOLEAN
  BY <1>5 DEF BrowserTyped
<1> HIDE DEF q
<1> QED BY <1>4, <1>5, <1>6, <1>7, OnePage

(* A step of an open page that changes nothing but its toast, what it asks  *)
(* or follows and whether it reloads, or offers the worker that waits.      *)
LEMMA OwnStep ==
  ASSUME Inv, NEW t \in Tab, NEW q \in Page, page[t].build # 0,
         page' = [page EXCEPT ![t] = q],
         \/ /\ q.build = page[t].build /\ q.watched = page[t].watched
            /\ q.offered = page[t].offered /\ q.news = page[t].news
            /\ q.toast => page[t].toast
         \/ q.build # 0 /\ q.offered = waiting /\ waiting # 0,
         told' \in BOOLEAN, extras' \in Nat,
         UNCHANGED <<deployed, installing, waiting, active, activating, cache,
                     robbed, late, visits>>
  PROVE  Inv'
<1>1. PageFits(page[t]) /\ (t \notin late => Told(page[t], waiting))
  BY InvParts
<1>2. PageFits(q)
  BY <1>1, OpenFits DEF PageFits
<1>3. t \notin late' => Told(q, waiting)
  BY <1>1 DEF Told
<1>4. late' \subseteq Tab /\ visits' \in Nat
  BY InvParts DEF BrowserTyped
<1> QED BY <1>2, <1>3, <1>4, OnePage

(* Asking by hand offers the worker that waits or asks the server. *)
LEMMA CheckNowKeeps == ASSUME Inv, NEW t \in Tab, CheckNow(t) PROVE Inv'
<1> USE InvParts
<1>1. page[t] \in Page /\ page[t].build # 0
  <2>1. Closed.watched = "no"
    BY DEF Closed, Blank
  <2> QED BY <2>1 DEF CheckNow, PageFits
<1>2. /\ extras' \in Nat /\ told' \in BOOLEAN
      /\ UNCHANGED <<deployed, installing, waiting, active, activating, cache,
                     robbed, late, visits>>
  BY DEF CheckNow, BrowserTyped, browser
<1>3. CASE Watching(t) /\ waiting # 0
  <2>1. page' = [page EXCEPT ![t] = Offer(page[t], waiting)]
    BY <1>3 DEF CheckNow
  <2>2. waiting \in Worker
    BY DEF BrowserTyped
  <2>3. /\ Offer(page[t], waiting) \in Page
        /\ Offer(page[t], waiting).build # 0
        /\ Offer(page[t], waiting).offered = waiting
    BY <1>1, <2>2 DEF Offer, Page
  <2> QED BY <1>1, <1>2, <1>3, <2>1, <2>3, OwnStep
<1>4. CASE ~(Watching(t) /\ waiting # 0)
  <2> DEFINE q == [page[t] EXCEPT !.asked = TRUE]
  <2>1. page' = [page EXCEPT ![t] = q]
    BY <1>4 DEF CheckNow
  <2>2. /\ q \in Page /\ q.build = page[t].build /\ q.watched = page[t].watched
        /\ q.offered = page[t].offered /\ q.news = page[t].news
        /\ q.toast = page[t].toast
    BY <1>1 DEF Page
  <2> HIDE DEF q
  <2> QED BY <1>1, <1>2, <2>1, <2>2, OwnStep
<1> QED BY <1>3, <1>4

(* The answer is followed, or offered when it is the worker that waits. *)
LEMMA CheckAnsweredKeeps == ASSUME Inv, NEW t \in Tab, CheckAnswered(t) PROVE Inv'
<1> USE InvParts
<1> DEFINE p == [page[t] EXCEPT !.asked = FALSE]
           found == IF ~Watching(t) THEN 0
                    ELSE IF installing # 0 THEN installing ELSE waiting
<1>1. page[t] \in Page /\ page[t].build # 0
  <2>1. ~Closed.asked
    BY DEF Closed, Blank
  <2> QED BY <2>1 DEF CheckAnswered, PageFits
<1>2. /\ extras' \in Nat /\ told' \in BOOLEAN
      /\ UNCHANGED <<deployed, installing, waiting, active, activating, cache,
                     robbed, late, visits>>
  BY DEF CheckAnswered, BrowserTyped, browser, bounded
<1>3. /\ p \in Page /\ p.build = page[t].build /\ p.watched = page[t].watched
      /\ p.offered = page[t].offered /\ p.news = page[t].news
      /\ p.toast = page[t].toast
  BY <1>1 DEF Page
<1>4. \/ page' = [page EXCEPT ![t] = p]
      \/ found # 0 /\ page' = [page EXCEPT ![t] = Follow(p, found)]
  BY DEF CheckAnswered
<1> HIDE DEF p
<1>5. CASE page' = [page EXCEPT ![t] = p]
  BY <1>1, <1>2, <1>3, <1>5, OwnStep
<1>6. CASE found # 0 /\ page' = [page EXCEPT ![t] = Follow(p, found)]
  <2>1. found \in Build
    BY <1>6, Workers DEF BrowserTyped
  <2>2. CASE found = installing
    <3>1. /\ Follow(p, found) \in Page /\ Follow(p, found).build = p.build
          /\ Follow(p, found).watched = p.watched
          /\ Follow(p, found).offered = p.offered
          /\ Follow(p, found).news = p.news /\ Follow(p, found).toast = p.toast
      <4>1. Follow(p, found) = [p EXCEPT !.follows = @ \cup {found}]
        BY <2>2 DEF Follow
      <4> HIDE DEF found
      <4> QED BY <1>3, <2>1, <4>1 DEF Page
    <3> HIDE DEF found
    <3> QED BY <1>1, <1>2, <1>3, <1>6, <3>1, OwnStep
  <2>3. CASE found # installing
    <3>1. found = waiting /\ waiting \in Worker
      BY <1>6, <2>3 DEF BrowserTyped
    <3>2. Follow(p, found) = Offer(p, waiting)
      BY <2>3, <3>1 DEF Follow
    <3>3. /\ Offer(p, waiting) \in Page /\ Offer(p, waiting).build = p.build
          /\ Offer(p, waiting).offered = waiting
      BY <1>3, <3>1 DEF Offer, Page
    <3>4. page' = [page EXCEPT ![t] = Offer(p, waiting)] /\ waiting # 0
      BY <1>6, <3>1, <3>2
    <3> QED BY <1>1, <1>2, <1>3, <3>3, <3>4, OwnStep
  <2> QED BY <2>2, <2>3
<1> QED BY <1>4, <1>5, <1>6

(* The toast goes: dismissed, or tapped, and the page is about to reload. *)
LEMMA ToastKeeps ==
  ASSUME Inv, NEW t \in Tab, Dismiss(t) \/ Apply(t)
  PROVE  Inv'
<1> USE InvParts
<1>1. page[t] \in Page /\ page[t].build # 0
  <2>1. ~Closed.toast
    BY DEF Closed, Blank
  <2> QED BY <2>1 DEF Dismiss, Apply, PageFits
<1>2. /\ extras' \in Nat /\ told' \in BOOLEAN
      /\ UNCHANGED <<deployed, installing, waiting, active, activating, cache,
                     robbed, late, visits>>
  BY DEF Dismiss, Apply, BrowserTyped, browser, bounded
<1>3. PICK r \in {"no", "armed", "due"} :
        page' = [page EXCEPT ![t] = [page[t] EXCEPT !.toast = FALSE, !.reload = r]]
  <2>1. CASE Dismiss(t)
    <3>1. [page[t] EXCEPT !.toast = FALSE]
            = [page[t] EXCEPT !.toast = FALSE, !.reload = page[t].reload]
      BY <1>1 DEF Page
    <3> QED BY <1>1, <2>1, <3>1 DEF Dismiss, Page
  <2>2. CASE Apply(t)
    BY <2>2 DEF Apply
  <2> QED BY <2>1, <2>2
<1> DEFINE q == [page[t] EXCEPT !.toast = FALSE, !.reload = r]
<1>4. /\ q \in Page /\ q.build = page[t].build /\ q.watched = page[t].watched
      /\ q.offered = page[t].offered /\ q.news = page[t].news /\ ~q.toast
  BY <1>1 DEF Page
<1> HIDE DEF q
<1> QED BY <1>1, <1>2, <1>3, <1>4, OwnStep DEF q
-------------------------------------------------------------------------------
(* No step breaks the invariant. *)
LEMMA NextInv == Inv /\ [Next]_vars => Inv'
<1> SUFFICES ASSUME Inv, [Next]_vars PROVE Inv'
  OBVIOUS
<1>1. CASE UNCHANGED vars
  <2>1. UNCHANGED <<deployed, installing, waiting, active, activating, cache, told,
                    page, visits, extras, robbed, late>>
    BY <1>1 DEF vars, browser, bounded
  <2> QED BY <2>1 DEF Inv, TypeOK, Registered, WaitingOffered, ShellWhole, IsOpen, Watching
<1>2. ASSUME NEW t \in Tab, User(t) \/ Reload(t) \/ Heed(t) PROVE Inv'
  BY <1>2, LoadsKeep, CloseKeeps, CheckNowKeeps, ToastKeeps, WatchKeeps, WatchFirstKeeps,
     CheckAnsweredKeeps, HearKeeps DEF User, Heed
<1> QED BY <1>1, <1>2, DeployKeeps, FindKeeps, InstalledKeeps, InstallFailsKeeps,
           ActivateKeeps, RetireStaleShellsKeeps DEF Next

(* The invariant holds of every reachable state. *)
LEMMA Invariant == Spec => []Inv
  BY InitInv, NextInv, PTL DEF Spec

(* Workers, caches and pages have their types: a worker is of a later build *)
(* than the one before it, and a toast names its worker.                    *)
THEOREM UpdatesTyped == Spec => []TypeOK
<1>1. Inv => TypeOK
  BY DEF Inv
<1> QED BY <1>1, Invariant, PTL

(* For any tabs and builds, whoever watches has been offered the worker     *)
(* that waits, but for pages that could not heed it.                        *)
THEOREM WaitingIsOffered == Spec => []WaitingOffered
<1>1. Inv => WaitingOffered
  BY DEF Inv
<1> QED BY <1>1, Invariant, PTL

(* For any builds, a worker that waits or serves has its whole shell, but   *)
(* for one that installed or waited while another took over.                *)
THEOREM ShellsWhole == Spec => []ShellWhole
<1>1. Inv => ShellWhole
  BY DEF Inv
<1> QED BY <1>1, Invariant, PTL-------------------------------------------------------------------------------
(* Why a page is going to reload now and was not before: it waited for the  *)
(* change of control, or its toast was tapped.                              *)
Asked(t) ==
  (page'[t].reload = "due" /\ page[t].reload # "due") =>
    page[t].reload = "armed" \/ (page[t].toast /\ ~page'[t].toast)

(* A page that changes in any other way is not going to reload. *)
LEMMA OnePageAsked ==
  ASSUME Inv, NEW t \in Tab, NEW p, page' = [page EXCEPT ![t] = p],
         p.reload # "due" \/ p.reload = page[t].reload
           \/ (page[t].toast /\ ~p.toast)
  PROVE  \A u \in Tab : Asked(u)
<1> SUFFICES ASSUME NEW u \in Tab PROVE Asked(u)
  OBVIOUS
<1>1. CASE u = t
  <2>1. page'[t] = p
    BY InvParts
  <2> QED BY <1>1, <2>1 DEF Asked
<1>2. CASE u # t
  BY <1>2, InvParts DEF Asked
<1> QED BY <1>1, <1>2

(* A page whose control changes reloads if it waited for that. *)
LEMMA TakenOverAsked ==
  ASSUME NEW p \in Page
  PROVE  TakenOver(p).reload = "due" /\ p.reload # "due" => p.reload = "armed"
  BY DEF TakenOver, Page

(* Workers come and go: only those that wait for it reload. *)
LEMMA BrowserAsked ==
  ASSUME Inv, Installed \/ InstallFails \/ Activate \/ RetireStaleShells
  PROVE  \A u \in Tab : Asked(u)
<1> SUFFICES ASSUME NEW u \in Tab PROVE Asked(u)
  OBVIOUS
<1>1. page[u] \in Page
  BY InvParts DEF PageFits
<1>2. CASE page'[u] \in {page[u], TakenOver(page[u])}
  BY <1>1, <1>2, TakenOverAsked DEF Asked
<1>3. CASE page'[u].reload = page[u].reload
  BY <1>3 DEF Asked
<1>4. CASE Installed
  <2>1. page'[u].reload = page[u].reload
    BY <1>1, <1>4 DEF Installed, Page
  <2> QED BY <1>3, <2>1
<1>5. CASE InstallFails
  <2>1. page'[u].reload = page[u].reload
    BY <1>1, <1>5 DEF InstallFails, Page
  <2> QED BY <1>3, <2>1
<1>6. CASE Activate
  <2>1. page'[u] \in {page[u], TakenOver(page[u])}
    BY <1>6 DEF Activate
  <2> QED BY <1>2, <2>1
<1>7. CASE RetireStaleShells
  <2>1. page'[u] \in {page[u], TakenOver(page[u])}
    BY <1>7 DEF RetireStaleShells
  <2> QED BY <1>2, <2>1
<1> QED BY <1>4, <1>5, <1>6, <1>7

(* A page that is loaded, closed, or heeds a worker is not going to reload. *)
LEMMA PageAsked ==
  ASSUME Inv, NEW t \in Tab,
         Visit(t) \/ Reload(t) \/ Close(t) \/ CheckNow(t) \/ Dismiss(t) \/ Heed(t)
  PROVE  \A u \in Tab : Asked(u)
<1>1. page[t] \in Page
  BY InvParts DEF PageFits
<1>2. ASSUME NEW p, page' = [page EXCEPT ![t] = p],
             p.reload \in {"no", page[t].reload}
      PROVE  \A u \in Tab : Asked(u)
  BY <1>2, OnePageAsked
<1>3. ASSUME NEW p \in Page, NEW b PROVE Offer(p, b).reload = p.reload
  BY DEF Offer, Page
<1>4. \A b, by : Blank(b, by).reload = "no"
  BY DEF Blank
<1>5. CASE Visit(t) \/ Reload(t)
  <2>1. PICK p \in NavigationResponse : page' = [page EXCEPT ![t] = p]
    BY <1>5 DEF Visit, Reload, Load
  <2>2. p.reload = "no"
    BY <1>4, <2>1 DEF NavigationResponse, Closed
  <2> QED BY <1>2, <2>1, <2>2
<1>6. CASE Close(t)
  BY <1>2, <1>4, <1>6 DEF Close, Closed
<1>7. CASE CheckNow(t)
  <2>1. PICK p : /\ page' = [page EXCEPT ![t] = p]
                 /\ \/ p = Offer(page[t], waiting)
                    \/ p = [page[t] EXCEPT !.asked = TRUE]
    BY <1>7 DEF CheckNow
  <2>2. p.reload = page[t].reload
    BY <1>1, <1>3, <2>1 DEF Page
  <2> QED BY <1>2, <2>1, <2>2
<1>8. CASE Dismiss(t)
  <2>1. [page[t] EXCEPT !.toast = FALSE].reload = page[t].reload
    BY <1>1 DEF Page
  <2> QED BY <1>2, <1>8, <2>1 DEF Dismiss
<1>9. CASE Watch(t) \/ WatchFirst(t)
  <2> DEFINE p == [page[t] EXCEPT !.watched = "yes"]
  <2>1. PICK q : /\ page' = [page EXCEPT ![t] = q]
                 /\ q = p \/ q = Offer(p, waiting)
    BY <1>9 DEF Watch, WatchFirst
  <2>2. p \in Page /\ p.reload = page[t].reload
    BY <1>1 DEF Page
  <2> HIDE DEF p
  <2>3. q.reload = page[t].reload
    BY <1>3, <2>1, <2>2
  <2> QED BY <1>2, <2>1, <2>3
<1>10. CASE CheckAnswered(t)
  <2> DEFINE p == [page[t] EXCEPT !.asked = FALSE]
             found == IF ~Watching(t) THEN 0
                      ELSE IF installing # 0 THEN installing ELSE waiting
  <2>1. PICK q : /\ page' = [page EXCEPT ![t] = q]
                 /\ q = p \/ q = Follow(p, found)
    BY <1>10 DEF CheckAnswered
  <2>2. p \in Page /\ p.reload = page[t].reload
    BY <1>1 DEF Page
  <2> HIDE DEF p, found
  <2>3. Follow(p, found).reload = p.reload
    <3>1. CASE found = installing
      BY <2>2, <3>1 DEF Follow, Page
    <3>2. CASE found # installing
      BY <1>3, <2>2, <3>2 DEF Follow
    <3> QED BY <3>1, <3>2
  <2> QED BY <1>2, <2>1, <2>2, <2>3
<1>11. ASSUME NEW b \in Build, Hear(t, b)
       PROVE  \A u \in Tab : Asked(u)
  <2> DEFINE p == [page[t] EXCEPT !.news = @ \ {b}, !.follows = @ \ {b}]
  <2>1. PICK q : /\ page' = [page EXCEPT ![t] = q]
                 /\ q = p \/ q = Offer(p, b)
    BY <1>11 DEF Hear
  <2>2. p \in Page /\ p.reload = page[t].reload
    BY <1>1 DEF Page
  <2> HIDE DEF p
  <2>3. q.reload = page[t].reload
    BY <1>3, <2>1, <2>2
  <2> QED BY <1>2, <2>1, <2>3
<1> QED BY <1>5, <1>6, <1>7, <1>8, <1>9, <1>10, <1>11 DEF Heed

(* A toast that is tapped is gone. *)
LEMMA ApplyAsked ==
  ASSUME Inv, NEW t \in Tab, Apply(t)
  PROVE  \A u \in Tab : Asked(u)
<1>1. page[t] \in Page
  BY InvParts DEF PageFits
<1>2. PICK r \in {"armed", "due"} :
        page' = [page EXCEPT ![t] = [page[t] EXCEPT !.toast = FALSE, !.reload = r]]
  BY DEF Apply
<1>3. page[t].toast /\ ~[page[t] EXCEPT !.toast = FALSE, !.reload = r].toast
  BY <1>1 DEF Apply, Page
<1> QED BY <1>2, <1>3, OnePageAsked

(* "Nothing reloads by itself", for any tabs and builds. *)
THEOREM NoReloadUnasked == Spec => ReloadsAsked
<1>1. Inv /\ [Next]_vars => [\A t \in Tab : Asked(t)]_vars
  <2> SUFFICES ASSUME Inv, Next PROVE \A t \in Tab : Asked(t)
    OBVIOUS
  <2>1. CASE Deploy \/ Find
    <3>1. page' = page
      BY <2>1 DEF Deploy, Find
    <3> QED BY <3>1 DEF Asked
  <2> QED BY <2>1, BrowserAsked, PageAsked, ApplyAsked DEF Next, User
<1>2. [\A t \in Tab : Asked(t)]_vars
        => [\A t \in Tab :
              (page'[t].reload = "due" /\ page[t].reload # "due") =>
                \/ page[t].reload = "armed"
                \/ page[t].toast /\ ~page'[t].toast]_vars
  BY DEF Asked
<1> QED BY <1>1, <1>2, Invariant, PTL DEF Spec, ReloadsAsked
===============================================================================
