------------------------------ MODULE HomeInfo ------------------------------
(***************************************************************************)
(* The home-screen navigation of legacy/firmware/layout2.c: the poll       *)
(* function layoutHomeInfo(), the screens it switches between (layoutHome, *)
(* layoutDeviceInfo, layoutScreensaver) and the calls other firmware code  *)
(* makes that change layoutLast, the "current screen" of the device.      *)
(*                                                                         *)
(* One Tick is one whole call of layoutHomeInfo() from the main loop,      *)
(* together with the time that passed since the previous call.  The code *)
(* keeps uint32 millisecond stamps and compares timer_ms() - stamp with a  *)
(* threshold; the model keeps that elapsed time itself, saturated at the   *)
(* threshold, which is all the comparisons tell apart while the elapsed    *)
(* time stays below 2^32 ms (49 days).                                     *)
(***************************************************************************)
EXTENDS Naturals, FiniteSets

CONSTANTS
    MaxStep,        \* most time units that pass between two polls
    InfoTimeout,    \* 10 * 1000 ms: device-info pages revert to home
    LogoPeriod,     \* 1000 ms: status-logo poll period on the home screen
    AutoLockDelay,  \* config_getAutoLockDelayMs()
    EdgeSets,       \* the sets of button edges one poll may see
    TimerMod        \* 2^32 ms in time units, or 0 for stamps that never wrap

\* DEVICE_INFO_PAGE_NUM
DEVICE_INFO_PAGE_NUM == 4

\* The four button-release edges buttonUpdate() reports: button.NoUp,
\* button.YesUp, button.UpUp, button.DownUp.
Buttons == {"No", "Yes", "Up", "Down"}

ASSUME /\ MaxStep >= 1
       /\ LogoPeriod >= 1
       /\ InfoTimeout >= 1 /\ AutoLockDelay >= 1
       /\ {} \in EdgeSets /\ EdgeSets \subseteq SUBSET Buttons
       /\ TimerMod = 0 \/ (TimerMod > AutoLockDelay /\ TimerMod > InfoTimeout)

\* The values layoutLast can hold.  "Other" stands for every layout function
\* that is not one of the three screens of the home navigation
\* (layoutDialogSwipe, layoutProgressSwipe, layoutAddress, layoutXPUB, ...).
Layouts == {"Home", "DeviceInfo", "Screensaver", "Other"}

VARIABLES
    layoutLast,       \* void *layoutLast
    info_page,        \* static uint8_t info_page in layoutHomeInfo
    lockElapsed,      \* timer_ms() - system_millis_lock_start
    infoElapsed,      \* timer_ms() - system_millis_display_info_start
    logoElapsed,      \* timer_ms() - system_millis_logo_refresh
    sessionUnlocked,  \* session secrets cached (cleared by session_clear(true))
    opActive,         \* a signing or recovery operation is in flight
    powered,          \* FALSE after shutdown()
    pressed,          \* the NoUp/YesUp edges the last Tick consumed
    quiet,            \* the last step was a Tick with no input at all
    elapsedBit        \* flips on every poll after time has passed

\* The largest elapsed time the model keeps for a timer with threshold cap.
TimerTop(cap) == IF TimerMod = 0 THEN cap ELSE TimerMod - 1

vars == <<layoutLast, info_page, lockElapsed, infoElapsed, logoElapsed,
          sessionUnlocked, opActive, powered, pressed, quiet, elapsedBit>>

TypeOK ==
    /\ layoutLast \in Layouts
    /\ info_page \in 0..DEVICE_INFO_PAGE_NUM
    /\ lockElapsed \in 0..TimerTop(AutoLockDelay)
    /\ infoElapsed \in 0..TimerTop(InfoTimeout)
    /\ logoElapsed \in 0..TimerTop(LogoPeriod)
    /\ {sessionUnlocked, opActive, powered, quiet, elapsedBit} \subseteq BOOLEAN
    /\ pressed \subseteq {"No", "Yes"}

-----------------------------------------------------------------------------
(***************************************************************************)
(* The state of the navigation as one record, so that the steps of one    *)
(* call of layoutHomeInfo() can be composed in the order the code takes    *)
(* them.                                                                   *)
(***************************************************************************)
St == [layoutLast |-> layoutLast, info_page |-> info_page,
       lockElapsed |-> lockElapsed, infoElapsed |-> infoElapsed,
       logoElapsed |-> logoElapsed, sessionUnlocked |-> sessionUnlocked,
       opActive |-> opActive, powered |-> powered]

\* Take the record s as the next state.
Becomes(s) ==
    /\ layoutLast' = s.layoutLast
    /\ info_page' = s.info_page
    /\ lockElapsed' = s.lockElapsed
    /\ infoElapsed' = s.infoElapsed
    /\ logoElapsed' = s.logoElapsed
    /\ sessionUnlocked' = s.sessionUnlocked
    /\ opActive' = s.opActive
    /\ powered' = s.powered

\* d time units pass before the poll: every elapsed time grows.  With
\* stamps that never wrap it saturates at its threshold, which is all the
\* comparisons tell apart; with uint32 stamps timer_ms() - stamp is the
\* time since the stamp modulo 2^32 (TimerMod).
Sat(x, d, cap) == IF x + d > cap THEN cap ELSE x + d

Elapse(x, d, cap) == IF TimerMod = 0 THEN Sat(x, d, cap) ELSE (x + d) % TimerMod

Advance(s, d) ==
    [s EXCEPT !.lockElapsed = Elapse(@, d, AutoLockDelay),
              !.infoElapsed = Elapse(@, d, InfoTimeout),
              !.logoElapsed = Elapse(@, d, LogoPeriod)]

\* recovery_abort(); signing_abort(); session_clear(true);
AbortAndClear(s) == [s EXCEPT !.opActive = FALSE, !.sessionUnlocked = FALSE]

(***************************************************************************)
(* layoutHome(): redraws the home screen; on the device it asks           *)
(* layoutStatusLogo(true) and, when that reports a status event (tamper), *)
(* aborts signing and recovery and clears the session; it then restarts  *)
(* the auto-lock timer.                                                   *)
(***************************************************************************)
\* Mutant: the auto-lock timer is not restarted.
LayoutHomeNoRestart(s, tamper) ==
    LET t == IF tamper THEN AbortAndClear(s) ELSE s
    IN  [t EXCEPT !.layoutLast = "Home"]

LayoutHome(s, tamper) ==
    LET t == IF tamper THEN AbortAndClear(s) ELSE s
    IN  [t EXCEPT !.layoutLast = "Home", !.lockElapsed = 0]

\* layoutDeviceInfo(ucPage): draws page ucPage (nothing for 0), then sets
\* layoutLast and restarts the 10-second display timer.
LayoutDeviceInfo(s) ==
    [s EXCEPT !.layoutLast = "DeviceInfo", !.infoElapsed = 0]

\* layoutScreensaver()
LayoutScreensaver(s) == [s EXCEPT !.layoutLast = "Screensaver"]

\* shutdown(): the device powers off; nothing after it runs.
Shutdown(s) == [s EXCEPT !.powered = FALSE]

-----------------------------------------------------------------------------
(***************************************************************************)
(* The steps of layoutHomeInfo(), in the order of the code.               *)
(***************************************************************************)

\* if (layoutNeedRefresh()) layoutHome();
RefreshStep(s, refresh, tamper) ==
    IF refresh THEN LayoutHome(s, tamper) ELSE s

\* From the home screen UpUp opens the last info page, DownUp the first.
HomeButtons(s, b) ==
    IF b \cap {"Up", "Down"} = {} THEN s
    ELSE LayoutDeviceInfo([s EXCEPT !.info_page =
                              IF "Up" \in b THEN DEVICE_INFO_PAGE_NUM ELSE 1])

\* Mutant: DownUp steps past the last page (info_page <= PAGE_NUM).
InfoButtonsPastLast(s, b, tamper) ==
    LET p0 == IF s.infoElapsed >= InfoTimeout THEN 0 ELSE s.info_page
        s1 == CASE "Up" \in b ->
                     IF p0 # 0 THEN LayoutDeviceInfo([s EXCEPT !.info_page = p0 - 1])
                     ELSE [s EXCEPT !.info_page = p0]
                [] "Down" \in b ->
                     IF p0 <= DEVICE_INFO_PAGE_NUM
                     THEN LayoutDeviceInfo([s EXCEPT !.info_page = p0 + 1])
                     ELSE [s EXCEPT !.info_page = 0]
                [] "No" \in b -> [s EXCEPT !.info_page = 0]
                [] OTHER -> [s EXCEPT !.info_page = p0]
    IN  IF s1.info_page = 0 THEN LayoutHome(s1, tamper) ELSE s1

\* Mutant: the trailing "if (info_page == 0) layoutHome();" is missing.
InfoButtonsNoHome(s, b, tamper) ==
    LET p0 == IF s.infoElapsed >= InfoTimeout THEN 0 ELSE s.info_page
    IN  CASE "Up" \in b ->
               IF p0 # 0 THEN LayoutDeviceInfo([s EXCEPT !.info_page = p0 - 1])
               ELSE [s EXCEPT !.info_page = p0]
          [] "Down" \in b ->
               IF p0 < DEVICE_INFO_PAGE_NUM
               THEN LayoutDeviceInfo([s EXCEPT !.info_page = p0 + 1])
               ELSE [s EXCEPT !.info_page = 0]
          [] "No" \in b -> [s EXCEPT !.info_page = 0]
          [] OTHER -> [s EXCEPT !.info_page = p0]

\* On an info page: the 10-second timeout clears info_page; UpUp goes a
\* page back, DownUp a page on (past the last page to 0), NoUp to 0; a page
\* of 0 shows home.  UpUp wins over DownUp, DownUp over NoUp.
InfoButtons(s, b, tamper) ==
    LET p0 == IF s.infoElapsed >= InfoTimeout THEN 0 ELSE s.info_page
        s1 == CASE "Up" \in b ->
                     IF p0 # 0
                     THEN LayoutDeviceInfo([s EXCEPT !.info_page = p0 - 1])
                     ELSE [s EXCEPT !.info_page = p0]
                [] "Down" \in b ->
                     IF p0 < DEVICE_INFO_PAGE_NUM
                     THEN LayoutDeviceInfo([s EXCEPT !.info_page = p0 + 1])
                     ELSE [s EXCEPT !.info_page = 0]
                [] "No" \in b -> [s EXCEPT !.info_page = 0]
                [] OTHER -> [s EXCEPT !.info_page = p0]
    IN  IF s1.info_page = 0 THEN LayoutHome(s1, tamper) ELSE s1

NavigateStep(s, b, tamper) ==
    CASE s.layoutLast = "Home"       -> HomeButtons(s, b)
      [] s.layoutLast = "DeviceInfo" -> InfoButtons(s, b, tamper)
      [] OTHER                       -> s

\* Mutant: the screen is locked without session_clear(true).
AutoLockNoClear(s, transport) ==
    IF s.lockElapsed < AutoLockDelay THEN s
    ELSE IF transport THEN LayoutScreensaver(s) ELSE Shutdown(s)

\* Home shown for AutoLockDelay: with USB or NFC present the session is
\* cleared and the screensaver shown, otherwise the device shuts down.
AutoLock(s, transport) ==
    IF s.lockElapsed < AutoLockDelay THEN s
    ELSE IF transport
         THEN LayoutScreensaver([s EXCEPT !.sessionUnlocked = FALSE])
         ELSE Shutdown(s)

LogoPoll(s, tamper) ==
    IF s.logoElapsed < LogoPeriod THEN s
    ELSE LET t == IF tamper THEN LayoutHome(AbortAndClear(s), tamper) ELSE s
         IN  [t EXCEPT !.logoElapsed = 0]

\* The block guarded by layoutLast == layoutHome, evaluated once: the
\* auto-lock check and then the status poll, which still runs after the
\* screensaver has just been shown.
HomeTimersStep(s, tamper, transport) ==
    IF s.layoutLast # "Home" THEN s
    ELSE LET l == AutoLock(s, transport)
         IN  IF ~l.powered THEN l ELSE LogoPoll(l, tamper)

\* Any button wakes the screensaver to home (and returns); otherwise NoUp
\* on a screen that is neither home nor the screensaver aborts signing and
\* recovery.
WakeOrCancelStep(s, b, tamper) ==
    CASE ~s.powered -> s
      [] s.layoutLast = "Screensaver" /\ b # {} -> LayoutHome(s, tamper)
      [] s.layoutLast \notin {"Home", "Screensaver"} /\ "No" \in b ->
             [s EXCEPT !.opActive = FALSE]
      [] OTHER -> s

\* One call of layoutHomeInfo() made d time units after the previous one.
LayoutHomeInfo(s, b, refresh, tamper, transport) ==
    LET s1 == RefreshStep(s, refresh, tamper)
        s2 == NavigateStep(s1, b, tamper)
        s3 == HomeTimersStep(s2, tamper, transport)
    IN  WakeOrCancelStep(s3, b, tamper)

Tick(d, b, refresh, tamper, transport) ==
    /\ powered
    /\ Becomes(LayoutHomeInfo(Advance(St, d), b, refresh, tamper, transport))
    /\ pressed' = b \cap {"No", "Yes"}
    /\ quiet' = (d > 0 /\ b = {} /\ ~refresh /\ ~tamper)
    /\ elapsedBit' = IF d > 0 THEN ~elapsedBit ELSE elapsedBit

-----------------------------------------------------------------------------
(***************************************************************************)
(* What the rest of the firmware does to this state between two polls.    *)
(***************************************************************************)

\* Any other layout function (layoutDialogSwipe, layoutProgressSwipe, ...)
\* takes the screen.
ShowDialog ==
    /\ powered
    /\ layoutLast' = "Other"
    /\ UNCHANGED <<info_page, lockElapsed, infoElapsed, logoElapsed,
                   sessionUnlocked, opActive, powered>>

\* The PIN is entered on a dialog and the session unlocked.
Unlock ==
    /\ powered
    /\ layoutLast' = "Other"
    /\ sessionUnlocked' = TRUE
    /\ UNCHANGED <<info_page, lockElapsed, infoElapsed, logoElapsed,
                   opActive, powered>>

\* A signing or recovery starts on an unlocked session; it shows its own
\* dialogs and progress screens.
StartOp ==
    /\ powered
    /\ sessionUnlocked
    /\ ~opActive
    /\ opActive' = TRUE
    /\ layoutLast' = "Other"
    /\ UNCHANGED <<info_page, lockElapsed, infoElapsed, logoElapsed,
                   sessionUnlocked, powered>>

\* The firmware calls layoutHome() when no operation is in flight, or the
\* operation finishes (or fails) and the firmware returns to home.
ExternalHome(tamper) ==
    /\ powered
    /\ Becomes(LayoutHome([St EXCEPT !.opActive = FALSE], tamper))

\* Power-on after shutdown(): RAM starts afresh and main() shows home.
PowerOn ==
    /\ ~powered
    /\ layoutLast' = "Home"
    /\ info_page' = 0
    /\ lockElapsed' = 0
    /\ infoElapsed' = 0
    /\ logoElapsed' = 0
    /\ sessionUnlocked' = FALSE
    /\ opActive' = FALSE
    /\ powered' = TRUE

Environment ==
    /\ \/ ShowDialog
       \/ Unlock
       \/ StartOp
       \/ \E tamper \in BOOLEAN : ExternalHome(tamper)
       \/ PowerOn
    /\ pressed' = {}
    /\ quiet' = FALSE
    /\ UNCHANGED elapsedBit

-----------------------------------------------------------------------------
Init ==
    /\ layoutLast = "Home"
    /\ info_page = 0
    /\ lockElapsed = 0
    /\ infoElapsed = 0
    /\ logoElapsed = 0
    /\ sessionUnlocked = FALSE
    /\ opActive = FALSE
    /\ powered = TRUE
    /\ pressed = {}
    /\ quiet = FALSE
    /\ elapsedBit = FALSE

Poll ==
    \E d \in 0..MaxStep, b \in EdgeSets,
       refresh, tamper, transport \in BOOLEAN :
        Tick(d, b, refresh, tamper, transport)

\* A poll in which time passes and nothing else happens.
IdlePoll ==
    \E d \in 1..MaxStep, transport \in BOOLEAN :
        Tick(d, {}, FALSE, FALSE, transport)

Next == Poll \/ Environment

(***************************************************************************)
(* The main loop calls layoutHomeInfo() over and over, and time passes:    *)
(* weak fairness of IdlePoll, which is enabled exactly when the device is *)
(* powered.  elapsedBit makes every poll after which time has passed a    *)
(* change of state, as it is on the device, even where the saturated      *)
(* timers no longer move; an IdlePoll step is then exactly a step that    *)
(* changes vars and sets quiet, so WF_vars(IdlePoll) is written through   *)
(* quiet, which TLC checks without evaluating the poll again on every     *)
(* transition.                                                             *)
(***************************************************************************)
IdlePollFair == []<>~powered \/ []<><<quiet'>>_vars

Spec == Init /\ [][Next]_vars /\ IdlePollFair

-----------------------------------------------------------------------------
(***************************************************************************)
(* Properties.                                                            *)
(***************************************************************************)

\* The screensaver is never shown over an unlocked session: every path of
\* layoutHomeInfo() to layoutScreensaver() first calls session_clear(true),
\* and only a PIN dialog (which replaces the screensaver) unlocks again.
ScreensaverLocked == layoutLast = "Screensaver" => ~sessionUnlocked

\* A device-info page on screen is one of the pages 1..4 that
\* layoutDeviceInfo() draws: stepping back from page 1, forward past page 4,
\* the 10-second timeout and NoUp all lead to layoutHome(), never to a
\* blank info screen (page 0) that would linger.
InfoPageShown ==
    layoutLast = "DeviceInfo" => info_page \in 1..DEVICE_INFO_PAGE_NUM

StampsFresh ==
    /\ (powered /\ layoutLast = "Home") => lockElapsed < AutoLockDelay
    /\ (powered /\ layoutLast = "DeviceInfo") => infoElapsed < InfoTimeout

\* (spec 4.3) A NoUp edge while a dialog of an operation is on screen aborts
\* signing and recovery in the same call of layoutHomeInfo().
CancelAborts ==
    [][("No" \in pressed' /\ layoutLast = "Other" /\ opActive) => ~opActive']_vars

\* (spec 1, 4.3) No signing or recovery is still in flight once the device
\* has auto-locked to the screensaver.
ScreensaverIdle == layoutLast = "Screensaver" => ~opActive

\* (spec 4.3) Any button edge on the home screen is activity and restarts
\* the auto-lock timer.
ButtonRestartsLock ==
    [][("No" \in pressed' \/ "Yes" \in pressed')
        /\ layoutLast = "Home" /\ layoutLast' = "Home" /\ powered'
        => lockElapsed' = 0]_vars

-----------------------------------------------------------------------------
(***************************************************************************)
(* Refinement: the navigation implements the promises of NavAbstract.     *)
(* The abstract screen is read off layoutLast and info_page; a device     *)
(* that is off shows nothing and holds no session and no operation.       *)
(***************************************************************************)
AbsScreen ==
    IF ~powered THEN [s |-> "Off", page |-> 0]
    ELSE CASE layoutLast = "DeviceInfo" -> [s |-> "Info", page |-> info_page]
           [] layoutLast = "Other"      -> [s |-> "Dialog", page |-> 0]
           [] OTHER                     -> [s |-> layoutLast, page |-> 0]

Nav == INSTANCE NavAbstract
         WITH screen <- AbsScreen,
              unlocked <- sessionUnlocked /\ powered,
              busy <- opActive /\ powered

\* Every step of layoutHomeInfo() and of the firmware around it is a step of
\* NavAbstract: a poll only moves between home, the info pages 1..4 and the
\* screensaver, clears but never unlocks or starts, and reaches the
\* screensaver only through the auto-lock that clears the session.
RefinesNav == Nav!Spec

=============================================================================
