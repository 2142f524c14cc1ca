--------------------------- MODULE RootPort_proof ---------------------------
(***************************************************************************)
(* The hub driver, the port of the HCD and the device on it agree at any   *)
(* time (Consistent), in every environment that is tame: proved for any    *)
(* set of them.  PortInv is inductive.  It says for each state of the port *)
(* what the core and the daemon know (CoreInv), for each place of the      *)
(* daemon what it has in hand (DaemonInv, PlaceInv), for each state of the *)
(* root hub port which device and port go with it (RootInv, DeviceInv),    *)
(* for each request what it was made for and that it still holds           *)
(* (RequestInv), and that nothing is requested too late (LateInv).         *)
(***************************************************************************)
EXTENDS RootPort, TLAPS

-----------------------------------------------------------------------------
(* The inductive invariant *)

Asked(r) == r \in reqs \cup taken
On       == hcd \in {"ENABLED", "SUSPENDING", "SUSPENDED", "RESUMING"}
Failed   == ev \in {"DISCONNECTION", "ERROR", "OVERCURRENT"}
Failing  == hcd = "RECOVERY" /\ pend
\* The core has no connection, or reports nothing more.
Still    == ~seen \/ lock
ReqPlace == \/ pc \in {"req", "powerOn", "powered", "suspending", "suspended", "resumeHold",
                       "resumeSettle", "resumed"}
            \/ pc = "disabling" /\ why = "req"
\* The daemon will take requests, after the event that it has in hand.
ReqComes == "REQ" \in actions \/ {"EVENT", "REQ"} \subseteq todo
\* The daemon handles a connection.
Connecting == \/ pc \in {"debounce", "hold", "settle", "new", "enabled", "giveUp", "disabling"}
              \/ pc = "event" /\ ev = "CONNECTION"
\* The power is being switched, or has been.
Switching == \/ user = "stopping" \/ ~wantOn
             \/ root = "NOT_POWERED" /\ (life # "none" \/ hcd = "RECOVERY" \/ user = "idle")
\* Somebody suspends the port, or has.
Suspends == \/ asked \/ clear \/ Asked("SUSPEND") \/ Asked("RESUME") \/ Asked("EXIT")
            \/ root = "SUSPENDED" \/ hcd \in {"SUSPENDING", "SUSPENDED", "RESUMING"} \/ halted

\* What the HCD takes the port for is what the core has reported.
CoreInv ==
    /\ hcd = "NOT_POWERED" =>
          /\ ~power /\ ~lock /\ ~pend /\ (conn => seen)
          /\ seen => life # "none" /\ root = "NOT_POWERED" /\ user = "idle"
    /\ hcd = "DISCONNECTED" =>
          /\ power /\ ~conn /\ (seen <=> lock) /\ (pend => lock)
          /\ lock => last = "CONNECTION" /\ (pend <=> pc # "debounce")
    /\ hcd = "DISABLED" => power /\ seen /\ ~lock /\ ~conn /\ ~pend
    /\ hcd = "RESETTING" => power /\ seen /\ ~lock /\ ~pend
    /\ On => /\ power /\ seen /\ ~lock /\ conn
             /\ pend => hcd = "SUSPENDED" /\ last = "REMOTE_WAKEUP"
    /\ hcd = "RECOVERY" =>
          /\ ~conn /\ (lock => ~seen /\ last = "DISCONNECTION")
          /\ ~lock => /\ last \in {"ERROR", "OVERCURRENT"} /\ (last = "ERROR" => seen)
                      /\ last = "OVERCURRENT" => ~power
          /\ last # "DISCONNECTION" => Calm
    /\ disReq => pc = "disabling" /\ hcd = "ENABLED"

\* What the daemon has in hand, and that it is woken for what there is to do.
DaemonInv ==
    /\ pc = "usbh" => todo = {}
    /\ taken # {} => ReqPlace
    /\ ReqPlace => todo = {}
    /\ pc \in {"debounce", "event", "hold", "settle", "new", "enabled", "giveUp", "disabling"} =>
          "EVENT" \notin todo
    /\ pc \in {"hold", "settle"} => why # "req" /\ (why = "usbh" => life = "reset" /\ todo = {})
    /\ pc = "disabling" => why # "usbh"
    /\ reqs # {} => "REQ" \in actions \cup todo
    /\ pend => "EVENT" \in actions \cup todo

\* In the middle of a command or an event the port is as the daemon left it, or it failed.
PlaceInv ==
    /\ pc = "debounce" => hcd = "DISCONNECTED" /\ lock /\ ev = "CONNECTION" /\ life = "none"
    /\ pc = "event" =>
          \/ /\ ev = "CONNECTION" /\ life = "none" /\ root = "POWERED"
             /\ hcd \in {"DISABLED", "DISCONNECTED"} \/ Failing
          \/ Failed /\ hcd = "RECOVERY"
          \/ ev = "REMOTE_WAKEUP" /\ root = "SUSPENDED"
    /\ pc \in {"hold", "settle"} /\ why = "hub" => root = "POWERED" /\ life = "none"
    /\ pc \in {"new", "giveUp"} =>
          (hcd = "ENABLED" \/ Failing) /\ root = "POWERED" /\ life = "none"
    /\ pc = "enabled" => (hcd = "ENABLED" \/ Failing) /\ root = "POWERED" /\ life = "enum"
    /\ pc = "disabling" =>
          /\ life = "none" /\ (hcd = "DISABLED" \/ (hcd = "ENABLED" /\ disReq) \/ Failing)
          /\ why = "hub" => root = "POWERED"
          /\ why = "req" => root = "ENABLED" /\ "freeAll" \in Uses
    /\ pc \in {"suspending", "suspended"} =>
          /\ root = "ENABLED" /\ life = "idle" /\ halted /\ ~asked /\ reqs = {} /\ taken = {}
          /\ \/ Failing
             \/ pc = "suspending" /\ hcd = "SUSPENDING"
             \/ pc = "suspended" /\ hcd = "SUSPENDED"
    /\ pc \in {"resumeHold", "resumeSettle", "resumed"} =>
          /\ root = "SUSPENDED" /\ life = "idle"
          /\ hcd \in {"RECOVERY", IF pc = "resumed" THEN "ENABLED" ELSE "RESUMING"}
    /\ pc \in {"powerOn", "powered"} =>
          /\ life = "none" /\ user = "idle" /\ reqs = {} /\ taken = {}
          /\ pc = "powerOn" => hcd = "NOT_POWERED"
          /\ pc = "powered" => /\ root # "NOT_POWERED" /\ Still
                               /\ hcd = "DISCONNECTED" \/ Failing

\* What goes with each state of the root hub port
RootInv ==
    /\ root = "POWERED" =>
          /\ user = "idle" /\ ~asked /\ reqs \cup taken \subseteq {"RECOVER"}
          /\ life = "none" \/ (pc = "enabled" /\ life = "enum")
          /\ hcd \notin {"SUSPENDING", "SUSPENDED", "RESUMING"}
          /\ hcd = "NOT_POWERED" => pc = "powerOn"
          /\ hcd = "ENABLED" => pc \in {"settle", "new", "enabled", "giveUp", "disabling"}
    /\ root = "ENABLED" =>
          /\ user = "idle" /\ hcd # "RESUMING"
          /\ hcd = "SUSPENDING" => pc = "suspending"
          /\ hcd = "SUSPENDED" => pc = "suspended"
          /\ hcd = "DISCONNECTED" => pc = "powered" /\ life = "none"
          /\ hcd = "RESETTING" => life = "reset"
          /\ hcd = "NOT_POWERED" => pc = "powerOn" /\ life = "none"
          /\ hcd = "DISABLED" => life = "none" /\ "freeAll" \in Uses
    /\ root = "SUSPENDED" =>
          /\ life = "idle" /\ user = "idle" /\ ~asked
          /\ reqs \cup taken \subseteq {"RESUME", "EXIT"}
          /\ hcd = "RESUMING" => pc \in {"resumeHold", "resumeSettle"}
          /\ hcd = "ENABLED" => pc = "resumed"
          /\ \/ hcd \in {"SUSPENDED", "RESUMING"} /\ halted
             \/ hcd = "RECOVERY" /\ (pend \/ (pc = "event" /\ Failed))
             \/ pc = "resumed"
    /\ root = "NOT_POWERED" =>
          \/ /\ user = "stopping"
             /\ IF life = "none" THEN hcd = "DISCONNECTED"
                ELSE /\ life # "gone"
                     /\ hcd \in {"ENABLED", "SUSPENDED"} \/ (hcd = "RESETTING" /\ life = "reset")
          \/ user = "starting" /\ hcd = "NOT_POWERED" /\ life = "none"
          \/ user = "started" /\ hcd = "DISCONNECTED" /\ life = "none"
          \/ user = "idle" /\ ~power /\ hcd \in {"NOT_POWERED", "RECOVERY"}
    /\ ~wantOn => ~power /\ root = "NOT_POWERED" /\ user \in {"idle", "stopping"}

\* The user's calls: what the daemon may do meanwhile
UserInv ==
    /\ user \in {"starting", "stopping"} =>
          /\ "EVENT" \notin actions \cup todo /\ ~pend
          /\ \/ pc \in {"usbh", "hub", "req"}
             \/ user = "stopping" /\ pc \in {"hold", "settle"} /\ why = "usbh"
          /\ hcd = "DISCONNECTED" => ~seen
    /\ user \in {"starting", "started"} =>
          /\ reqs = {} /\ taken = {} /\ "REQ" \notin actions \cup todo
          /\ pc \in {"usbh", "hub", "debounce"} /\ (user = "starting" => pc = "usbh")
    /\ Switching => "switch" \in Uses /\ Calm
    /\ Suspends => Uses \cap {"suspend", "sleep"} # {} /\ Calm

\* What goes with each state of the device
DeviceInv ==
    /\ life \in {"enum", "reset", "address"} => state.now = "new" /\ held /\ ~freeing
    /\ life = "idle" => state.now # "none"
    /\ life = "gone" => hcd = "RECOVERY" /\ root \in {"ENABLED", "NOT_POWERED"}
    /\ life # "none" => seen \/ hcd = "RECOVERY"
    /\ freeing => "freeAll" \in Uses /\ life \in {"idle", "gone"}
    /\ root = "ENABLED" /\ life = "idle" => state.now \in {"new", "configured"}
    /\ root = "SUSPENDED" =>
          IF Asked("EXIT") THEN state.now \in {"new", "configured"}
          ELSE state.now = "suspended" /\ state.last \in {"new", "configured"}
    /\ halted /\ life # "none" =>
          /\ life \in {"idle", "gone"}
          /\ \/ Asked("SUSPEND") \/ pc \in {"suspending", "suspended"}
             \/ root \in {"SUSPENDED", "NOT_POWERED"} \/ hcd = "RECOVERY" \/ clear
    /\ clear => /\ life \in {"idle", "gone"} /\ root \in {"ENABLED", "NOT_POWERED"}
                /\ ~asked /\ ~Asked("SUSPEND") /\ pc \notin {"suspending", "suspended"}
    /\ asked => /\ life = "idle" /\ root \in {"ENABLED", "NOT_POWERED"} /\ reqs = {} /\ taken = {}
                /\ hcd = "ENABLED" \/ (hcd = "NOT_POWERED" /\ root = "NOT_POWERED")

\* What each request was made for still holds.
RequestInv ==
    /\ Asked("SUSPEND") =>
          /\ root = "ENABLED" /\ hcd = "ENABLED" /\ life = "idle" /\ halted /\ ~asked
          /\ ~("SUSPEND" \in reqs /\ "SUSPEND" \in taken) /\ ~Asked("DISABLE") /\ ~Asked("RESUME")
    /\ Asked("EXIT") =>
          /\ root = "SUSPENDED" /\ hcd = "SUSPENDED" /\ life = "idle" /\ ~pend
          /\ "EVENT" \notin actions \cup todo /\ pc \in {"usbh", "hub", "req"}
          /\ ~("EXIT" \in reqs /\ "EXIT" \in taken) /\ ~Asked("RESUME")
    /\ "RESUME" \in reqs => life \in {"idle", "gone"} /\ (pc = "usbh" => root = "SUSPENDED")
    /\ Asked("DISABLE") =>
          /\ life \in {"idle", "gone"} \/ (life = "none" /\ "freeAll" \in Uses)
          /\ root \in {"ENABLED", "NOT_POWERED"}
          /\ halted /\ life # "none" => hcd = "RECOVERY"
    /\ "DISABLE" \in reqs /\ pc = "usbh" => life # "gone"
    /\ Asked("RECOVER") =>
          /\ life = "none" /\ hcd = "RECOVERY"
          /\ pend => "RECOVER" \notin taken /\ ("EVENT" \in todo \/ "REQ" \notin todo)
    /\ "RECOVER" \in taken => reqs = {} /\ taken \cap {"SUSPEND", "RESUME", "EXIT"} = {}

\* A port that has failed is not forgotten, and no request is handled before its event.
LateInv ==
    /\ hcd = "RECOVERY" /\ "freeAll" \notin Uses =>
          pend \/ pc \in {"event", "enabled"} \/ life # "none" \/ Asked("RECOVER")
    /\ root = "ENABLED" /\ life = "none" /\ "freeAll" \notin Uses =>
          pc \in {"powerOn", "powered"} \/ (hcd = "RECOVERY" /\ Asked("RECOVER"))
    /\ root = "NOT_POWERED" /\ life = "none" /\ hcd = "RECOVERY" => Asked("RECOVER")
    /\ root = "POWERED" /\ ReqComes /\ ~Asked("RECOVER") => Still
    /\ Connecting /\ root = "POWERED" => "REQ" \notin actions
    /\ pc = "event" /\ Failed /\ root = "POWERED" /\ "REQ" \in todo /\ "RECOVER" \notin reqs =>
          ~pend /\ Still
    /\ root = "POWERED" /\ "EVENT" \in todo /\ "REQ" \in actions => "RECOVER" \in reqs

PortInv ==
    /\ TypeOK /\ crash = "none" /\ IsTame(env)
    /\ CoreInv /\ DaemonInv /\ PlaceInv /\ RootInv /\ UserInv /\ DeviceInv /\ RequestInv /\ LateInv

-----------------------------------------------------------------------------
(* Steps.  Every action keeps PortInv: one lemma for each *)

USE DEF hwVars, hcdVars, hubVars, pmVars, devVars, taskVars, userVars, Uses, Calm
USE DEF HcdState, RootState, Event, DevState, Life, Place, ReqRank, Req
USE DEF Asked, On, Failed, Failing, Still, ReqPlace, ReqComes, Suspends,
        Switching, Connecting
USE DEF PipesHalted, Request, Raise, MayInterrupt, StartReset, StartDisable, NextReq,
        ReturnEarly, TellSuspended, ResumeDelayEnd, CanSuspend, CanResume, SuspendAtOnce,
        MarkExit, MarkSuspend, MuxFree, Settled, MaySwitch

\* The clock of a tame environment obeys, and the user waits after a resumption.
LEMMA ClockObeys ==
    ASSUME PortInv PROVE ~ClockFails /\ "eager" \notin Uses
BY DEF PortInv, IsTame, ClockFails

\* The user switches only a calm port, and is to switch on only one that is off.
LEMMA UserIsAlone ==
    ASSUME PortInv
    PROVE  /\ user = "stopping" => "switch" \in Uses /\ Calm
           /\ user = "starting" => root = "NOT_POWERED" /\ hcd = "NOT_POWERED" /\ life = "none"
<1> USE DEF PortInv
<1>1. ASSUME user = "stopping" PROVE "switch" \in Uses /\ Calm
  BY <1>1 DEF UserInv
<1>2. ASSUME user = "starting" PROVE root = "NOT_POWERED"
  BY <1>2 DEF RootInv, TypeOK
<1>3. ASSUME user = "starting" PROVE hcd = "NOT_POWERED" /\ life = "none"
  BY <1>2, <1>3 DEF RootInv
<1> QED BY <1>1, <1>2, <1>3

\* Where devices may be freed at any time, no port is suspended or switched.
LEMMA FreedIsAlone ==
    ASSUME PortInv, "freeAll" \in Uses
    PROVE  /\ "suspend" \notin Uses /\ "sleep" \notin Uses /\ "switch" \notin Uses
           /\ user # "stopping" /\ wantOn /\ ~Suspends
<1>1. "suspend" \notin Uses /\ "sleep" \notin Uses /\ "switch" \notin Uses
  BY DEF PortInv, IsTame
<1>2. user # "stopping" /\ wantOn
  BY <1>1 DEF PortInv, UserInv, TypeOK
<1>3. ~Suspends
  <2>1. {"suspend", "sleep"} \cap Uses = {}
    BY <1>1
  <2>2. Suspends => Uses \cap {"suspend", "sleep"} # {} /\ Calm
    BY Zenon DEF PortInv, UserInv
  <2> QED BY <2>1, <2>2
<1> QED BY <1>1, <1>2, <1>3

\* A connection is reported while the core has none, and locks the port interrupt.
LEMMA KeepsIntrConn ==
    ASSUME PortInv, IntrConn PROVE PortInv'
<1> USE DEF PortInv
<1>1. TypeOK'
  BY DEF IntrConn, TypeOK
<1>2. crash' = "none" /\ IsTame(env)'
  BY DEF IntrConn
<1>3. CoreInv'
  BY DEF IntrConn, CoreInv, PlaceInv
<1>4. DaemonInv'
  BY DEF IntrConn, DaemonInv
<1>5. PlaceInv'
  BY DEF IntrConn, PlaceInv
<1>6. RootInv'
  BY DEF IntrConn, RootInv
<1>7. UserInv'
  <2>1. user \notin {"starting", "stopping"}
    BY UserIsAlone DEF IntrConn
  <2> QED BY <2>1, SMTT(30) DEF IntrConn, UserInv, RootInv
<1>8. DeviceInv'
  BY DEF IntrConn, DeviceInv
<1>9. RequestInv'
  BY DEF IntrConn, RequestInv, CoreInv
<1>10. LateInv'
  BY DEF IntrConn, LateInv, CoreInv, PlaceInv
<1> QED BY <1>1, <1>2, <1>3, <1>4, <1>5, <1>6, <1>7, <1>8, <1>9, <1>10

\* The end of a connection takes the port to recovery and is to be handled.
LEMMA KeepsIntrDisconn ==
    ASSUME PortInv, IntrDisconn PROVE PortInv'
<1> USE DEF PortInv
<1>1. TypeOK'
  <2>1. seen' \in BOOLEAN /\ lock' \in BOOLEAN /\ conn' \in BOOLEAN
    BY ZenonT(30) DEF IntrDisconn
  <2> QED BY <2>1, SMTT(30) DEF IntrDisconn, TypeOK
<1>2. crash' = "none" /\ IsTame(env)'
  BY DEF IntrDisconn
<1>3. CoreInv'
  BY DEF IntrDisconn, CoreInv
<1>4. DaemonInv'
  BY DEF IntrDisconn, DaemonInv
<1>5. PlaceInv'
  BY DEF IntrDisconn, PlaceInv, CoreInv
<1>6. RootInv'
  <2>1. user # "starting" /\ user # "stopping"
    BY UserIsAlone DEF IntrDisconn, CoreInv
  <2> QED BY <2>1, SMTT(30) DEF IntrDisconn, RootInv, CoreInv
<1>7. UserInv'
  <2>1. user \notin {"starting", "stopping"}
    BY UserIsAlone DEF IntrDisconn, CoreInv
  <2> QED BY <2>1, SMTT(30) DEF IntrDisconn, UserInv, RootInv, CoreInv
<1>8. DeviceInv'
  BY DEF IntrDisconn, DeviceInv, UserInv
<1>9. RequestInv'
  BY DEF IntrDisconn, RequestInv, CoreInv, UserInv
<1>10. LateInv'
  BY DEF IntrDisconn, LateInv, CoreInv, RootInv
<1> QED BY <1>1, <1>2, <1>3, <1>4, <1>5, <1>6, <1>7, <1>8, <1>9, <1>10

\* The core enables the port at the end of a reset.
LEMMA KeepsIntrEnabled ==
    ASSUME PortInv, IntrEnabled PROVE PortInv'
<1> USE DEF PortInv
<1>1. TypeOK'
  BY DEF IntrEnabled, TypeOK
<1>2. crash' = "none" /\ IsTame(env)'
  BY DEF IntrEnabled
<1>3. CoreInv'
  BY DEF IntrEnabled, CoreInv
<1>4. DaemonInv'
  BY DEF IntrEnabled, DaemonInv
<1>5. PlaceInv'
  BY DEF IntrEnabled, PlaceInv
<1>6. RootInv'
  BY DEF IntrEnabled, RootInv
<1>7. UserInv'
  BY DEF IntrEnabled, UserInv
<1>8. DeviceInv'
  BY DEF IntrEnabled, DeviceInv
<1>9. RequestInv'
  BY DEF IntrEnabled, RequestInv
<1>10. LateInv'
  BY DEF IntrEnabled, LateInv
<1> QED BY <1>1, <1>2, <1>3, <1>4, <1>5, <1>6, <1>7, <1>8, <1>9, <1>10

\* A reset of an enabled port disables it first.
LEMMA KeepsIntrDisabledByReset ==
    ASSUME PortInv, IntrDisabledByReset PROVE PortInv'
<1> USE DEF PortInv
<1>1. TypeOK'
  <2>1. conn' \in BOOLEAN
    BY ZenonT(30) DEF IntrDisabledByReset
  <2> QED BY <2>1, SMTT(30) DEF IntrDisabledByReset, TypeOK
<1>2. crash' = "none" /\ IsTame(env)'
  BY DEF IntrDisabledByReset
<1>3. CoreInv'
  BY DEF IntrDisabledByReset, CoreInv
<1>4. DaemonInv'
  BY DEF IntrDisabledByReset, DaemonInv
<1>5. PlaceInv'
  BY DEF IntrDisabledByReset, PlaceInv
<1>6. RootInv'
  BY DEF IntrDisabledByReset, RootInv
<1>7. UserInv'
  BY DEF IntrDisabledByReset, UserInv
<1>8. DeviceInv'
  BY DEF IntrDisabledByReset, DeviceInv
<1>9. RequestInv'
  BY DEF IntrDisabledByReset, RequestInv
<1>10. LateInv'
  BY DEF IntrDisabledByReset, LateInv
<1> QED BY <1>1, <1>2, <1>3, <1>4, <1>5, <1>6, <1>7, <1>8, <1>9, <1>10

\* The daemon waits for the port that it has asked to be disabled.
LEMMA KeepsIntrDisabledOnRequest ==
    ASSUME PortInv, IntrDisabledOnRequest PROVE PortInv'
<1> USE DEF PortInv
<1>1. TypeOK'
  <2>1. conn' \in BOOLEAN /\ disReq' \in BOOLEAN
    BY ZenonT(30) DEF IntrDisabledOnRequest
  <2> QED BY <2>1, SMTT(30) DEF IntrDisabledOnRequest, TypeOK
<1>2. crash' = "none" /\ IsTame(env)'
  BY DEF IntrDisabledOnRequest
<1>3. CoreInv'
  BY DEF IntrDisabledOnRequest, CoreInv
<1>4. DaemonInv'
  BY DEF IntrDisabledOnRequest, DaemonInv
<1>5. PlaceInv'
  BY DEF IntrDisabledOnRequest, PlaceInv, CoreInv
<1>6. RootInv'
  BY DEF IntrDisabledOnRequest, RootInv, CoreInv, PlaceInv, LateInv
<1>7. UserInv'
  BY DEF IntrDisabledOnRequest, UserInv
<1>8. DeviceInv'
  BY DEF IntrDisabledOnRequest, DeviceInv, CoreInv, PlaceInv
<1>9. RequestInv'
  BY DEF IntrDisabledOnRequest, RequestInv, CoreInv, PlaceInv
<1>10. LateInv'
  BY DEF IntrDisabledOnRequest, LateInv, CoreInv
<1> QED BY <1>1, <1>2, <1>3, <1>4, <1>5, <1>6, <1>7, <1>8, <1>9, <1>10

\* A port error comes only where the port is calm.
LEMMA KeepsIntrDisabledByError ==
    ASSUME PortInv, IntrDisabledByError PROVE PortInv'
<1> USE DEF PortInv
<1>1. TypeOK'
  <2>1. conn' \in BOOLEAN
    BY ZenonT(30) DEF IntrDisabledByError
  <2> QED BY <2>1, SMTT(30) DEF IntrDisabledByError, TypeOK
<1>2. crash' = "none" /\ IsTame(env)'
  BY DEF IntrDisabledByError
<1>3. CoreInv'
  BY DEF IntrDisabledByError, CoreInv, IsTame, TypeOK
<1>4. DaemonInv'
  BY DEF IntrDisabledByError, DaemonInv
<1>5. PlaceInv'
  BY DEF IntrDisabledByError, PlaceInv, CoreInv
<1>6. RootInv'
  BY DEF IntrDisabledByError, RootInv, IsTame
<1>7. UserInv'
  BY DEF IntrDisabledByError, UserInv, IsTame
<1>8. DeviceInv'
  BY DEF IntrDisabledByError, DeviceInv, IsTame
<1>9. RequestInv'
  BY DEF IntrDisabledByError, RequestInv, IsTame
<1>10. LateInv'
  BY DEF IntrDisabledByError, LateInv, CoreInv, RootInv, TypeOK
<1> QED BY <1>1, <1>2, <1>3, <1>4, <1>5, <1>6, <1>7, <1>8, <1>9, <1>10

\* So does an overcurrent, which takes the power too.
LEMMA KeepsIntrOvercurrent ==
    ASSUME PortInv, IntrOvercurrent PROVE PortInv'
<1> USE DEF PortInv
<1>1. TypeOK'
  <2>1. power' \in BOOLEAN /\ conn' \in BOOLEAN
    BY ZenonT(30) DEF IntrOvercurrent
  <2> QED BY <2>1, SMTT(30) DEF IntrOvercurrent, TypeOK
<1>2. crash' = "none" /\ IsTame(env)'
  BY DEF IntrOvercurrent
<1>3. CoreInv'
  BY DEF IntrOvercurrent, CoreInv, IsTame
<1>4. DaemonInv'
  BY DEF IntrOvercurrent, DaemonInv
<1>5. PlaceInv'
  BY DEF IntrOvercurrent, PlaceInv
<1>6. RootInv'
  BY DEF IntrOvercurrent, RootInv, IsTame
<1>7. UserInv'
  BY DEF IntrOvercurrent, UserInv, IsTame
<1>8. DeviceInv'
  BY DEF IntrOvercurrent, DeviceInv, IsTame
<1>9. RequestInv'
  BY DEF IntrOvercurrent, RequestInv, IsTame
<1>10. LateInv'
  BY DEF IntrOvercurrent, LateInv, CoreInv, PlaceInv, RootInv, IsTame
<1> QED BY <1>1, <1>2, <1>3, <1>4, <1>5, <1>6, <1>7, <1>8, <1>9, <1>10

\* A remote wakeup comes to a suspended port that nobody recovers.
LEMMA KeepsIntrRemoteWakeup ==
    ASSUME PortInv, IntrRemoteWakeup PROVE PortInv'
<1> USE DEF PortInv
<1>1. TypeOK'
  BY DEF IntrRemoteWakeup, TypeOK
<1>2. crash' = "none" /\ IsTame(env)'
  BY DEF IntrRemoteWakeup
<1>3. CoreInv'
  BY DEF IntrRemoteWakeup, CoreInv
<1>4. DaemonInv'
  BY DEF IntrRemoteWakeup, DaemonInv
<1>5. PlaceInv'
  BY DEF IntrRemoteWakeup, PlaceInv
<1>6. RootInv'
  BY DEF IntrRemoteWakeup, RootInv
<1>7. UserInv'
  BY DEF IntrRemoteWakeup, UserInv
<1>8. DeviceInv'
  BY DEF IntrRemoteWakeup, DeviceInv
<1>9. RequestInv'
  BY DEF IntrRemoteWakeup, RequestInv, IsTame
<1>10. LateInv'
  BY DEF IntrRemoteWakeup, LateInv, RootInv
<1> QED BY <1>1, <1>2, <1>3, <1>4, <1>5, <1>6, <1>7, <1>8, <1>9, <1>10

\* The core learns of a new device later.
LEMMA KeepsAttach ==
    ASSUME PortInv, Attach PROVE PortInv'
<1> USE DEF PortInv
<1>1. TypeOK'
  BY DEF Attach, TypeOK
<1>2. crash' = "none" /\ IsTame(env)'
  BY DEF Attach
<1>3. CoreInv'
  BY DEF Attach, CoreInv
<1>4. DaemonInv'
  BY DEF Attach, DaemonInv
<1>5. PlaceInv'
  BY DEF Attach, PlaceInv
<1>6. RootInv'
  BY DEF Attach, RootInv
<1>7. UserInv'
  BY DEF Attach, UserInv
<1>8. DeviceInv'
  BY DEF Attach, DeviceInv
<1>9. RequestInv'
  BY DEF Attach, RequestInv
<1>10. LateInv'
  BY DEF Attach, LateInv
<1> QED BY <1>1, <1>2, <1>3, <1>4, <1>5, <1>6, <1>7, <1>8, <1>9, <1>10

\* It learns later that the device is unplugged.
LEMMA KeepsDetach ==
    ASSUME PortInv, Detach PROVE PortInv'
<1> USE DEF PortInv
<1>1. TypeOK'
  <2>1. plug' \in BOOLEAN
    BY ZenonT(30) DEF Detach
  <2> QED BY <2>1, SMTT(30) DEF Detach, TypeOK
<1>2. crash' = "none" /\ IsTame(env)'
  BY DEF Detach
<1>3. CoreInv'
  BY DEF Detach, CoreInv
<1>4. DaemonInv'
  BY DEF Detach, DaemonInv
<1>5. PlaceInv'
  BY DEF Detach, PlaceInv
<1>6. RootInv'
  BY DEF Detach, RootInv
<1>7. UserInv'
  BY DEF Detach, UserInv
<1>8. DeviceInv'
  BY DEF Detach, DeviceInv
<1>9. RequestInv'
  BY DEF Detach, RequestInv
<1>10. LateInv'
  BY DEF Detach, LateInv
<1> QED BY <1>1, <1>2, <1>3, <1>4, <1>5, <1>6, <1>7, <1>8, <1>9, <1>10

\* The daemon takes what it was woken for, and nothing else.
LEMMA KeepsHubTake ==
    ASSUME PortInv, HubTake PROVE PortInv'
<1> USE DEF PortInv
<1>1. TypeOK'
  BY DEF HubTake, TypeOK
<1>2. crash' = "none" /\ IsTame(env)'
  BY DEF HubTake
<1>3. CoreInv'
  BY DEF HubTake, CoreInv
<1>4. DaemonInv'
  BY DEF HubTake, DaemonInv
<1>5. PlaceInv'
  BY DEF HubTake, PlaceInv
<1>6. RootInv'
  BY DEF HubTake, RootInv
<1>7. UserInv'
  BY DEF HubTake, UserInv, TypeOK
<1>8. DeviceInv'
  BY DEF HubTake, DeviceInv
<1>9. RequestInv'
  BY DEF HubTake, RequestInv, DaemonInv
<1>10. LateInv'
  BY DEF HubTake, LateInv
<1> QED BY <1>1, <1>2, <1>3, <1>4, <1>5, <1>6, <1>7, <1>8, <1>9, <1>10

\* The hub driver has nothing more to do.
LEMMA KeepsHubDone ==
    ASSUME PortInv, HubDone PROVE PortInv'
<1> USE DEF PortInv
<1>1. TypeOK'
  BY DEF HubDone, TypeOK
<1>2. crash' = "none" /\ IsTame(env)'
  BY DEF HubDone
<1>3. CoreInv'
  BY DEF HubDone, CoreInv
<1>4. DaemonInv'
  BY DEF HubDone, DaemonInv
<1>5. PlaceInv'
  BY DEF HubDone, PlaceInv
<1>6. RootInv'
  BY DEF HubDone, RootInv
<1>7. UserInv'
  BY DEF HubDone, UserInv
<1>8. DeviceInv'
  BY DEF HubDone, DeviceInv
<1>9. RequestInv'
  BY DEF HubDone, RequestInv, DaemonInv
<1>10. LateInv'
  BY DEF HubDone, LateInv
<1> QED BY <1>1, <1>2, <1>3, <1>4, <1>5, <1>6, <1>7, <1>8, <1>9, <1>10

\* The event that is pending is taken, and no other.
LEMMA KeepsTakeEvent ==
    ASSUME PortInv, TakeEvent PROVE PortInv'
<1> USE DEF PortInv
<1>1. TypeOK'
  <2>1. pend' \in BOOLEAN
    BY ZenonT(30) DEF TakeEvent
  <2> QED BY <2>1, SMTT(30) DEF TakeEvent, TypeOK
<1>2. crash' = "none" /\ IsTame(env)'
  BY DEF TakeEvent
<1>3. CoreInv'
  BY DEF TakeEvent, CoreInv
<1>4. DaemonInv'
  BY DEF TakeEvent, DaemonInv
<1>5. PlaceInv'
  BY DEF TakeEvent, PlaceInv, CoreInv, RootInv, UserInv, TypeOK
<1>6. RootInv'
  BY DEF TakeEvent, RootInv, CoreInv
<1>7. UserInv'
  BY DEF TakeEvent, UserInv, CoreInv, RootInv, TypeOK
<1>8. DeviceInv'
  BY DEF TakeEvent, DeviceInv
<1>9. RequestInv'
  BY DEF TakeEvent, RequestInv
<1>10. LateInv'
  BY DEF TakeEvent, LateInv, CoreInv, RequestInv
<1> QED BY <1>1, <1>2, <1>3, <1>4, <1>5, <1>6, <1>7, <1>8, <1>9, <1>10

\* After the debounce the core is looked at anew.
LEMMA KeepsDebounced ==
    ASSUME PortInv, Debounced PROVE PortInv'
<1> USE DEF PortInv
<1>1. TypeOK'
  <2>1. seen' \in BOOLEAN /\ lock' \in BOOLEAN
    BY ZenonT(30) DEF Debounced
  <2> QED BY <2>1, SMTT(30) DEF Debounced, TypeOK
<1>2. crash' = "none" /\ IsTame(env)'
  BY DEF Debounced
<1>3. CoreInv'
  BY DEF Debounced, CoreInv, PlaceInv
<1>4. DaemonInv'
  BY DEF Debounced, DaemonInv
<1>5. PlaceInv'
  BY DEF Debounced, PlaceInv, RootInv, UserInv, TypeOK
<1>6. RootInv'
  BY DEF Debounced, RootInv, PlaceInv, UserInv
<1>7. UserInv'
  BY DEF Debounced, UserInv
<1>8. DeviceInv'
  BY DEF Debounced, DeviceInv, PlaceInv
<1>9. RequestInv'
  BY DEF Debounced, RequestInv, PlaceInv
<1>10. LateInv'
  <2>1. "EVENT" \notin todo /\ (root = "POWERED" => "REQ" \notin actions)
    BY SMTT(30) DEF Debounced, DaemonInv, LateInv, TypeOK
  <2>2. hcd # "RECOVERY" /\ ev = "CONNECTION" /\ life = "none" /\ hcd = "DISCONNECTED"
    BY DEF Debounced, PlaceInv
  <2> QED BY <2>1, <2>2, SMTT(30) DEF Debounced, LateInv
<1> QED BY <1>1, <1>2, <1>3, <1>4, <1>5, <1>6, <1>7, <1>8, <1>9, <1>10

\* A connection is answered by a reset of a port without a device.
LEMMA KeepsConnected ==
    ASSUME PortInv, Connected PROVE PortInv'
<1>0. ~ClockFails /\ "eager" \notin Uses
  BY ClockObeys
<1> USE <1>0 DEF PortInv
<1>1. TypeOK'
  BY DEF Connected, TypeOK
<1>2. crash' = "none" /\ IsTame(env)'
  BY DEF Connected
<1>3. CoreInv'
  BY DEF Connected, CoreInv
<1>4. DaemonInv'
  BY DEF Connected, DaemonInv
<1>5. PlaceInv'
  BY DEF Connected, PlaceInv
<1>6. RootInv'
  BY DEF Connected, RootInv, PlaceInv
<1>7. UserInv'
  BY DEF Connected, UserInv
<1>8. DeviceInv'
  BY DEF Connected, DeviceInv, PlaceInv
<1>9. RequestInv'
  BY DEF Connected, RequestInv, PlaceInv
<1>10. LateInv'
  BY DEF Connected, LateInv, PlaceInv
<1> QED BY <1>1, <1>2, <1>3, <1>4, <1>5, <1>6, <1>7, <1>8, <1>9, <1>10

\* A failed port is recovered at once, or its device is reported gone.
LEMMA KeepsPortFailed ==
    ASSUME PortInv, PortFailed PROVE PortInv'
<1> USE DEF PortInv
<1>1. TypeOK'
  <2>1. plug' \in BOOLEAN
    BY ZenonT(30) DEF PortFailed, TypeOK
  <2>2. reqs' \subseteq Req /\ actions' \subseteq {"EVENT", "REQ"}
    BY DEF PortFailed, TypeOK
  <2> QED BY <2>1, <2>2, SMTT(30) DEF PortFailed, TypeOK
<1>2. crash' = "none" /\ IsTame(env)'
  BY DEF PortFailed
<1>3. CoreInv'
  BY DEF PortFailed, CoreInv
<1>4. DaemonInv'
  BY DEF PortFailed, DaemonInv
<1>5. PlaceInv'
  BY DEF PortFailed, PlaceInv
<1>6. RootInv'
  BY DEF PortFailed, RootInv, PlaceInv
<1>7. UserInv'
  BY DEF PortFailed, UserInv
<1>8. DeviceInv'
  BY DEF PortFailed, DeviceInv, PlaceInv, TypeOK
<1>9. RequestInv'
  BY DEF PortFailed, RequestInv, DaemonInv, PlaceInv, RootInv, LateInv
<1>10. LateInv'
  BY DEF PortFailed, LateInv, RootInv, TypeOK
<1> QED BY <1>1, <1>2, <1>3, <1>4, <1>5, <1>6, <1>7, <1>8, <1>9, <1>10

\* A remote wakeup asks for a resume of a suspended port.
LEMMA KeepsRemoteWakeup ==
    ASSUME PortInv, RemoteWakeup PROVE PortInv'
<1> USE DEF PortInv
<1>1. TypeOK'
  <2>1. plug' \in BOOLEAN
    BY ZenonT(30) DEF RemoteWakeup, TypeOK
  <2>2. reqs' \subseteq Req /\ actions' \subseteq {"EVENT", "REQ"}
    BY DEF RemoteWakeup, TypeOK
  <2> QED BY <2>1, <2>2, SMTT(30) DEF RemoteWakeup, TypeOK
<1>2. crash' = "none" /\ IsTame(env)'
  BY DEF RemoteWakeup
<1>3. CoreInv'
  BY DEF RemoteWakeup, CoreInv
<1>4. DaemonInv'
  BY DEF RemoteWakeup, DaemonInv
<1>5. PlaceInv'
  BY DEF RemoteWakeup, PlaceInv
<1>6. RootInv'
  BY DEF RemoteWakeup, RootInv
<1>7. UserInv'
  BY DEF RemoteWakeup, UserInv
<1>8. DeviceInv'
  BY DEF RemoteWakeup, DeviceInv
<1>9. RequestInv'
  BY DEF RemoteWakeup, RequestInv, RootInv
<1>10. LateInv'
  BY DEF RemoteWakeup, LateInv, PlaceInv, RootInv
<1> QED BY <1>1, <1>2, <1>3, <1>4, <1>5, <1>6, <1>7, <1>8, <1>9, <1>10

\* The first half of a reset leaves the hub driver's state alone.
LEMMA KeepsHoldEnd ==
    ASSUME PortInv, HoldEnd PROVE PortInv'
<1> USE DEF PortInv
<1>1. TypeOK'
  BY DEF HoldEnd, TypeOK
<1>2. crash' = "none" /\ IsTame(env)'
  BY DEF HoldEnd
<1>3. CoreInv'
  BY DEF HoldEnd, CoreInv, TypeOK
<1>4. DaemonInv'
  BY DEF HoldEnd, DaemonInv, TypeOK
<1>5. PlaceInv'
  BY DEF HoldEnd, PlaceInv, TypeOK
<1>6. RootInv'
  BY DEF HoldEnd, RootInv
<1>7. UserInv'
  BY DEF HoldEnd, UserInv
<1>8. DeviceInv'
  BY DEF HoldEnd, DeviceInv, TypeOK
<1>9. RequestInv'
  BY DEF HoldEnd, RequestInv, DaemonInv
<1>10. LateInv'
  BY DEF HoldEnd, LateInv, TypeOK
<1> QED BY <1>1, <1>2, <1>3, <1>4, <1>5, <1>6, <1>7, <1>8, <1>9, <1>10

\* The second half lets enumeration go on, or a device be made.
LEMMA KeepsSettleEnd ==
    ASSUME PortInv, SettleEnd PROVE PortInv'
<1> USE DEF PortInv
<1>1. TypeOK'
  BY DEF SettleEnd, TypeOK
<1>2. crash' = "none" /\ IsTame(env)'
  BY DEF SettleEnd
<1>3. CoreInv'
  BY DEF SettleEnd, CoreInv, TypeOK
<1>4. DaemonInv'
  BY DEF SettleEnd, DaemonInv, TypeOK
<1>5. PlaceInv'
  BY DEF SettleEnd, PlaceInv, TypeOK
<1>6. RootInv'
  BY DEF SettleEnd, RootInv, CoreInv, DaemonInv, TypeOK
<1>7. UserInv'
  BY DEF SettleEnd, UserInv
<1>8. DeviceInv'
  BY DEF SettleEnd, DeviceInv, TypeOK
<1>9. RequestInv'
  BY DEF SettleEnd, RequestInv, DaemonInv
<1>10. LateInv'
  BY DEF SettleEnd, LateInv, TypeOK
<1> QED BY <1>1, <1>2, <1>3, <1>4, <1>5, <1>6, <1>7, <1>8, <1>9, <1>10

\* A new device is made where there is none.
LEMMA KeepsNewDevice ==
    ASSUME PortInv, NewDevice PROVE PortInv'
<1> USE DEF PortInv
<1>1. TypeOK'
  <2>1. held' \in BOOLEAN /\ halted' \in BOOLEAN
    BY ZenonT(30) DEF NewDevice, TypeOK
  <2> QED BY <2>1, SMTT(30) DEF NewDevice, TypeOK
<1>2. crash' = "none" /\ IsTame(env)'
  BY DEF NewDevice
<1>3. CoreInv'
  BY DEF NewDevice, CoreInv
<1>4. DaemonInv'
  BY DEF NewDevice, DaemonInv
<1>5. PlaceInv'
  BY DEF NewDevice, PlaceInv
<1>6. RootInv'
  BY DEF NewDevice, RootInv, CoreInv
<1>7. UserInv'
  BY DEF NewDevice, UserInv, PlaceInv, RootInv
<1>8. DeviceInv'
  BY DEF NewDevice, DeviceInv, CoreInv, PlaceInv
<1>9. RequestInv'
  BY DEF NewDevice, RequestInv, CoreInv, PlaceInv
<1>10. LateInv'
  BY DEF NewDevice, LateInv
<1> QED BY <1>1, <1>2, <1>3, <1>4, <1>5, <1>6, <1>7, <1>8, <1>9, <1>10

\* A device is enumerated on an enabled port.
LEMMA KeepsSetEnabled ==
    ASSUME PortInv, SetEnabled PROVE PortInv'
<1> USE DEF PortInv
<1>1. TypeOK'
  BY DEF SetEnabled, TypeOK
<1>2. crash' = "none" /\ IsTame(env)'
  BY DEF SetEnabled
<1>3. CoreInv'
  BY DEF SetEnabled, CoreInv, PlaceInv
<1>4. DaemonInv'
  BY DEF SetEnabled, DaemonInv
<1>5. PlaceInv'
  BY DEF SetEnabled, PlaceInv
<1>6. RootInv'
  BY DEF SetEnabled, RootInv, PlaceInv
<1>7. UserInv'
  BY DEF SetEnabled, UserInv
<1>8. DeviceInv'
  BY DEF SetEnabled, DeviceInv, PlaceInv
<1>9. RequestInv'
  BY DEF SetEnabled, RequestInv
<1>10. LateInv'
  BY DEF SetEnabled, LateInv, PlaceInv
<1> QED BY <1>1, <1>2, <1>3, <1>4, <1>5, <1>6, <1>7, <1>8, <1>9, <1>10

\* A port whose device cannot be made is disabled.
LEMMA KeepsGiveUp ==
    ASSUME PortInv, GiveUp PROVE PortInv'
<1>0. ~ClockFails /\ "eager" \notin Uses
  BY ClockObeys
<1> USE <1>0 DEF PortInv
<1>1. TypeOK'
  <2>1. disReq' \in BOOLEAN
    BY ZenonT(30) DEF GiveUp, TypeOK
  <2> QED BY <2>1, SMTT(30) DEF GiveUp, TypeOK
<1>2. crash' = "none" /\ IsTame(env)'
  BY DEF GiveUp
<1>3. CoreInv'
  BY DEF GiveUp, CoreInv, PlaceInv
<1>4. DaemonInv'
  BY DEF GiveUp, DaemonInv
<1>5. PlaceInv'
  BY DEF GiveUp, PlaceInv
<1>6. RootInv'
  BY DEF GiveUp, RootInv, CoreInv
<1>7. UserInv'
  BY DEF GiveUp, UserInv
<1>8. DeviceInv'
  BY DEF GiveUp, DeviceInv
<1>9. RequestInv'
  BY DEF GiveUp, RequestInv
<1>10. LateInv'
  BY DEF GiveUp, LateInv
<1> QED BY <1>1, <1>2, <1>3, <1>4, <1>5, <1>6, <1>7, <1>8, <1>9, <1>10

\* The command that disables a port returns to where it came from.
LEMMA KeepsDisableEnd ==
    ASSUME PortInv, DisableEnd PROVE PortInv'
<1> USE DEF PortInv
<1>1. TypeOK'
  BY DEF DisableEnd, TypeOK
<1>2. crash' = "none" /\ IsTame(env)'
  BY DEF DisableEnd
<1>3. CoreInv'
  BY DEF DisableEnd, CoreInv, TypeOK
<1>4. DaemonInv'
  BY DEF DisableEnd, DaemonInv, TypeOK
<1>5. PlaceInv'
  BY DEF DisableEnd, PlaceInv, TypeOK
<1>6. RootInv'
  BY DEF DisableEnd, RootInv, PlaceInv
<1>7. UserInv'
  BY DEF DisableEnd, UserInv
<1>8. DeviceInv'
  BY DEF DisableEnd, DeviceInv, TypeOK
<1>9. RequestInv'
  BY DEF DisableEnd, RequestInv, PlaceInv
<1>10. LateInv'
  BY DEF DisableEnd, LateInv, TypeOK
<1> QED BY <1>1, <1>2, <1>3, <1>4, <1>5, <1>6, <1>7, <1>8, <1>9, <1>10

\* The requests are taken after the event.
LEMMA KeepsTakeReqs ==
    ASSUME PortInv, TakeReqs PROVE PortInv'
<1> USE DEF PortInv
<1>1. TypeOK'
  BY DEF TakeReqs, TypeOK
<1>2. crash' = "none" /\ IsTame(env)'
  BY DEF TakeReqs
<1>3. CoreInv'
  BY DEF TakeReqs, CoreInv
<1>4. DaemonInv'
  BY DEF TakeReqs, DaemonInv
<1>5. PlaceInv'
  BY DEF TakeReqs, PlaceInv
<1>6. RootInv'
  BY DEF TakeReqs, RootInv
<1>7. UserInv'
  BY DEF TakeReqs, UserInv
<1>8. DeviceInv'
  BY DEF TakeReqs, DeviceInv, DaemonInv
<1>9. RequestInv'
  BY DEF TakeReqs, RequestInv
<1>10. LateInv'
  BY DEF TakeReqs, LateInv, DaemonInv
<1> QED BY <1>1, <1>2, <1>3, <1>4, <1>5, <1>6, <1>7, <1>8, <1>9, <1>10

\* All requests are handled.
LEMMA KeepsReqsDone ==
    ASSUME PortInv, ReqsDone PROVE PortInv'
<1> USE DEF PortInv
<1>1. TypeOK'
  BY DEF ReqsDone, TypeOK
<1>2. crash' = "none" /\ IsTame(env)'
  BY DEF ReqsDone
<1>3. CoreInv'
  BY DEF ReqsDone, CoreInv
<1>4. DaemonInv'
  BY DEF ReqsDone, DaemonInv
<1>5. PlaceInv'
  BY DEF ReqsDone, PlaceInv
<1>6. RootInv'
  BY DEF ReqsDone, RootInv
<1>7. UserInv'
  BY DEF ReqsDone, UserInv
<1>8. DeviceInv'
  BY DEF ReqsDone, DeviceInv
<1>9. RequestInv'
  BY DEF ReqsDone, RequestInv
<1>10. LateInv'
  BY DEF ReqsDone, LateInv
<1> QED BY <1>1, <1>2, <1>3, <1>4, <1>5, <1>6, <1>7, <1>8, <1>9, <1>10

\* A request to disable finds the device freed, or the port as it was.
LEMMA KeepsDoDisable ==
    ASSUME PortInv, DoDisable PROVE PortInv'
<1>0. ~ClockFails /\ "eager" \notin Uses
  BY ClockObeys
<1> USE <1>0 DEF PortInv
<1>1. TypeOK'
  <2>1. disReq' \in BOOLEAN
    BY ZenonT(30) DEF DoDisable, TypeOK
  <2> QED BY <2>1, SMTT(30) DEF DoDisable, TypeOK
<1>2. crash' = "none" /\ IsTame(env)'
  BY DEF DoDisable
<1>3. CoreInv'
  BY DEF DoDisable, CoreInv, RootInv, RequestInv
<1>4. DaemonInv'
  BY DEF DoDisable, DaemonInv
<1>5. PlaceInv'
  BY DEF DoDisable, PlaceInv, RootInv, RequestInv
<1>6. RootInv'
  BY DEF DoDisable, RootInv
<1>7. UserInv'
  <2>1. user = "stopping" => ~(hcd \in {"ENABLED", "SUSPENDED"} /\ PipesHalted)
    BY FreedIsAlone DEF DoDisable, RequestInv
  <2>2. "DISABLE" \in taken /\ user # "starting" /\ user # "started"
    BY DEF DoDisable, UserInv
  <2> QED BY <2>1, <2>2, SMTT(30) DEF DoDisable, UserInv
<1>8. DeviceInv'
  BY DEF DoDisable, DeviceInv
<1>9. RequestInv'
  BY DEF DoDisable, RequestInv
<1>10. LateInv'
  BY DEF DoDisable, LateInv, RootInv
<1> QED BY <1>1, <1>2, <1>3, <1>4, <1>5, <1>6, <1>7, <1>8, <1>9, <1>10

\* A request to recover finds a port that waits for it: hcd_port_recover() succeeds.
LEMMA KeepsDoRecover ==
    ASSUME PortInv, DoRecover PROVE PortInv'
<1> USE DEF PortInv
<1>1. TypeOK'
  <2>1. power' \in BOOLEAN /\ seen' \in BOOLEAN /\ lock' \in BOOLEAN
    BY ZenonT(30) DEF DoRecover, TypeOK
  <2> QED BY <2>1, SMTT(30) DEF DoRecover, TypeOK
<1>2. crash' = "none" /\ IsTame(env)'
  BY DEF DoRecover, CoreInv, RequestInv
<1>3. CoreInv'
  BY DEF DoRecover, CoreInv
<1>4. DaemonInv'
  BY DEF DoRecover, DaemonInv, CoreInv, RequestInv
<1>5. PlaceInv'
  BY DEF DoRecover, PlaceInv, RootInv, RequestInv, TypeOK
<1>6. RootInv'
  BY DEF DoRecover, RootInv
<1>7. UserInv'
  BY DEF DoRecover, UserInv, RootInv, TypeOK
<1>8. DeviceInv'
  BY DEF DoRecover, DeviceInv
<1>9. RequestInv'
  BY DEF DoRecover, RequestInv
<1>10. LateInv'
  BY DEF DoRecover, LateInv, DaemonInv
<1> QED BY <1>1, <1>2, <1>3, <1>4, <1>5, <1>6, <1>7, <1>8, <1>9, <1>10

\* A recovered port can be powered on.
LEMMA KeepsPowerOnAgain ==
    ASSUME PortInv, PowerOnAgain PROVE PortInv'
<1> USE DEF PortInv
<1>1. TypeOK'
  <2>1. power' \in BOOLEAN
    BY ZenonT(30) DEF PowerOnAgain, TypeOK
  <2> QED BY <2>1, SMTT(30) DEF PowerOnAgain, TypeOK
<1>2. crash' = "none" /\ IsTame(env)'
  BY DEF PowerOnAgain, CoreInv, PlaceInv
<1>3. CoreInv'
  BY DEF PowerOnAgain, CoreInv
<1>4. DaemonInv'
  BY DEF PowerOnAgain, DaemonInv, CoreInv, PlaceInv
<1>5. PlaceInv'
  BY DEF PowerOnAgain, PlaceInv, CoreInv
<1>6. RootInv'
  BY DEF PowerOnAgain, RootInv
<1>7. UserInv'
  BY DEF PowerOnAgain, UserInv
<1>8. DeviceInv'
  BY DEF PowerOnAgain, DeviceInv
<1>9. RequestInv'
  BY DEF PowerOnAgain, RequestInv, PlaceInv
<1>10. LateInv'
  BY DEF PowerOnAgain, LateInv
<1> QED BY <1>1, <1>2, <1>3, <1>4, <1>5, <1>6, <1>7, <1>8, <1>9, <1>10

\* The hub driver learns that the port is powered.
LEMMA KeepsSetPowered ==
    ASSUME PortInv, SetPowered PROVE PortInv'
<1> USE DEF PortInv
<1>1. TypeOK'
  BY DEF SetPowered, TypeOK
<1>2. crash' = "none" /\ IsTame(env)'
  BY DEF SetPowered
<1>3. CoreInv'
  BY DEF SetPowered, CoreInv, PlaceInv
<1>4. DaemonInv'
  BY DEF SetPowered, DaemonInv
<1>5. PlaceInv'
  BY DEF SetPowered, PlaceInv
<1>6. RootInv'
  BY DEF SetPowered, RootInv, PlaceInv, DeviceInv
<1>7. UserInv'
  BY DEF SetPowered, UserInv
<1>8. DeviceInv'
  BY DEF SetPowered, DeviceInv, PlaceInv
<1>9. RequestInv'
  BY DEF SetPowered, RequestInv, PlaceInv
<1>10. LateInv'
  BY DEF SetPowered, LateInv, DaemonInv, PlaceInv
<1> QED BY <1>1, <1>2, <1>3, <1>4, <1>5, <1>6, <1>7, <1>8, <1>9, <1>10

\* A request to suspend finds the pipes halted: the command succeeds.
LEMMA KeepsDoSuspend ==
    ASSUME PortInv, DoSuspend PROVE PortInv'
<1> USE DEF PortInv
<1>1. TypeOK'
  BY DEF DoSuspend, TypeOK
<1>2. crash' = "none" /\ IsTame(env)'
  BY DEF DoSuspend, CoreInv, RequestInv
<1>3. CoreInv'
  BY DEF DoSuspend, CoreInv, RequestInv
<1>4. DaemonInv'
  BY DEF DoSuspend, DaemonInv, CoreInv, RequestInv
<1>5. PlaceInv'
  BY DEF DoSuspend, PlaceInv, RequestInv, TypeOK
<1>6. RootInv'
  BY DEF DoSuspend, RootInv, RequestInv
<1>7. UserInv'
  BY DEF DoSuspend, UserInv, RootInv, RequestInv
<1>8. DeviceInv'
  BY DEF DoSuspend, DeviceInv, RequestInv
<1>9. RequestInv'
  BY DEF DoSuspend, RequestInv
<1>10. LateInv'
  BY DEF DoSuspend, LateInv, RequestInv
<1> QED BY <1>1, <1>2, <1>3, <1>4, <1>5, <1>6, <1>7, <1>8, <1>9, <1>10

\* The port is suspended unless it has failed.
LEMMA KeepsSuspendEnd ==
    ASSUME PortInv, SuspendEnd PROVE PortInv'
<1>0. ~ClockFails /\ "eager" \notin Uses
  BY ClockObeys
<1> USE <1>0 DEF PortInv
<1>1. TypeOK'
  BY DEF SuspendEnd, TypeOK
<1>2. crash' = "none" /\ IsTame(env)'
  BY DEF SuspendEnd
<1>3. CoreInv'
  BY DEF SuspendEnd, CoreInv
<1>4. DaemonInv'
  BY DEF SuspendEnd, DaemonInv
<1>5. PlaceInv'
  BY DEF SuspendEnd, PlaceInv
<1>6. RootInv'
  BY DEF SuspendEnd, RootInv
<1>7. UserInv'
  BY DEF SuspendEnd, UserInv
<1>8. DeviceInv'
  BY DEF SuspendEnd, DeviceInv, PlaceInv
<1>9. RequestInv'
  BY DEF SuspendEnd, RequestInv, PlaceInv
<1>10. LateInv'
  BY DEF SuspendEnd, LateInv, PlaceInv
<1> QED BY <1>1, <1>2, <1>3, <1>4, <1>5, <1>6, <1>7, <1>8, <1>9, <1>10

\* The hub driver and the clients learn of the suspended port.
LEMMA KeepsSetSuspended ==
    ASSUME PortInv, SetSuspended PROVE PortInv'
<1> USE DEF PortInv
<1>1. TypeOK'
  BY DEF SetSuspended, TypeOK
<1>2. crash' = "none" /\ IsTame(env)'
  BY DEF SetSuspended
<1>3. CoreInv'
  BY DEF SetSuspended, CoreInv, PlaceInv
<1>4. DaemonInv'
  BY DEF SetSuspended, DaemonInv
<1>5. PlaceInv'
  BY DEF SetSuspended, PlaceInv
<1>6. RootInv'
  BY DEF SetSuspended, RootInv, PlaceInv
<1>7. UserInv'
  BY DEF SetSuspended, UserInv, PlaceInv
<1>8. DeviceInv'
  BY DEF SetSuspended, DeviceInv, PlaceInv
<1>9. RequestInv'
  BY DEF SetSuspended, RequestInv, PlaceInv
<1>10. LateInv'
  BY DEF SetSuspended, LateInv
<1> QED BY <1>1, <1>2, <1>3, <1>4, <1>5, <1>6, <1>7, <1>8, <1>9, <1>10

\* A request to resume starts a resume, or comes too late.
LEMMA KeepsDoResume ==
    ASSUME PortInv, DoResume PROVE PortInv'
<1>0. ~ClockFails /\ "eager" \notin Uses
  BY ClockObeys
<1> USE <1>0 DEF PortInv
<1>1. TypeOK'
  BY DEF DoResume, TypeOK
<1>2. crash' = "none" /\ IsTame(env)'
  BY DEF DoResume
<1>3. CoreInv'
  BY DEF DoResume, CoreInv
<1>4. DaemonInv'
  BY DEF DoResume, DaemonInv
<1>5. PlaceInv'
  BY DEF DoResume, PlaceInv, RootInv
<1>6. RootInv'
  BY DEF DoResume, RootInv
<1>7. UserInv'
  BY DEF DoResume, UserInv, RootInv
<1>8. DeviceInv'
  BY DEF DoResume, DeviceInv, RequestInv
<1>9. RequestInv'
  BY DEF DoResume, RequestInv
<1>10. LateInv'
  BY DEF DoResume, LateInv
<1> QED BY <1>1, <1>2, <1>3, <1>4, <1>5, <1>6, <1>7, <1>8, <1>9, <1>10

\* The first half of a resume.
LEMMA KeepsResumeHoldEnd ==
    ASSUME PortInv, ResumeHoldEnd PROVE PortInv'
<1> USE DEF PortInv
<1>1. TypeOK'
  BY DEF ResumeHoldEnd, TypeOK
<1>2. crash' = "none" /\ IsTame(env)'
  BY DEF ResumeHoldEnd
<1>3. CoreInv'
  BY DEF ResumeHoldEnd, CoreInv
<1>4. DaemonInv'
  BY DEF ResumeHoldEnd, DaemonInv
<1>5. PlaceInv'
  BY DEF ResumeHoldEnd, PlaceInv
<1>6. RootInv'
  BY DEF ResumeHoldEnd, RootInv, CoreInv
<1>7. UserInv'
  BY DEF ResumeHoldEnd, UserInv
<1>8. DeviceInv'
  BY DEF ResumeHoldEnd, DeviceInv, PlaceInv, RequestInv
<1>9. RequestInv'
  BY DEF ResumeHoldEnd, RequestInv
<1>10. LateInv'
  BY DEF ResumeHoldEnd, LateInv, PlaceInv
<1> QED BY <1>1, <1>2, <1>3, <1>4, <1>5, <1>6, <1>7, <1>8, <1>9, <1>10

\* The second half of a resume.
LEMMA KeepsResumeSettleEnd ==
    ASSUME PortInv, ResumeSettleEnd PROVE PortInv'
<1> USE DEF PortInv
<1>1. TypeOK'
  BY DEF ResumeSettleEnd, TypeOK
<1>2. crash' = "none" /\ IsTame(env)'
  BY DEF ResumeSettleEnd
<1>3. CoreInv'
  BY DEF ResumeSettleEnd, CoreInv
<1>4. DaemonInv'
  BY DEF ResumeSettleEnd, DaemonInv
<1>5. PlaceInv'
  BY DEF ResumeSettleEnd, PlaceInv
<1>6. RootInv'
  BY DEF ResumeSettleEnd, RootInv, CoreInv
<1>7. UserInv'
  BY DEF ResumeSettleEnd, UserInv
<1>8. DeviceInv'
  BY DEF ResumeSettleEnd, DeviceInv, PlaceInv, RequestInv
<1>9. RequestInv'
  BY DEF ResumeSettleEnd, RequestInv
<1>10. LateInv'
  BY DEF ResumeSettleEnd, LateInv, PlaceInv
<1> QED BY <1>1, <1>2, <1>3, <1>4, <1>5, <1>6, <1>7, <1>8, <1>9, <1>10

\* The hub driver and the clients learn of the resumed port.
LEMMA KeepsSetResumed ==
    ASSUME PortInv, SetResumed PROVE PortInv'
<1> USE DEF PortInv
<1>1. TypeOK'
  <2>1. clear' \in BOOLEAN
    BY ZenonT(30) DEF SetResumed
  <2> QED BY <2>1, SMTT(30) DEF SetResumed, TypeOK
<1>2. crash' = "none" /\ IsTame(env)'
  BY DEF SetResumed
<1>3. CoreInv'
  BY DEF SetResumed, CoreInv, PlaceInv
<1>4. DaemonInv'
  BY DEF SetResumed, DaemonInv
<1>5. PlaceInv'
  BY DEF SetResumed, PlaceInv
<1>6. RootInv'
  BY DEF SetResumed, RootInv, PlaceInv
<1>7. UserInv'
  BY DEF SetResumed, UserInv, PlaceInv
<1>8. DeviceInv'
  BY DEF SetResumed, DeviceInv, PlaceInv, RequestInv
<1>9. RequestInv'
  BY DEF SetResumed, RequestInv, PlaceInv
<1>10. LateInv'
  BY DEF SetResumed, LateInv, PlaceInv
<1> QED BY <1>1, <1>2, <1>3, <1>4, <1>5, <1>6, <1>7, <1>8, <1>9, <1>10

\* The clients are told what a light sleep has done, unless the port failed.
LEMMA KeepsDoExit ==
    ASSUME PortInv, DoExit PROVE PortInv'
<1> USE DEF PortInv
<1>1. TypeOK'
  BY DEF DoExit, TypeOK
<1>2. crash' = "none" /\ IsTame(env)'
  BY DEF DoExit
<1>3. CoreInv'
  BY DEF DoExit, CoreInv
<1>4. DaemonInv'
  BY DEF DoExit, DaemonInv
<1>5. PlaceInv'
  BY DEF DoExit, PlaceInv
<1>6. RootInv'
  BY DEF DoExit, RootInv
<1>7. UserInv'
  BY DEF DoExit, UserInv
<1>8. DeviceInv'
  BY DEF DoExit, DeviceInv, RequestInv
<1>9. RequestInv'
  BY DEF DoExit, RequestInv
<1>10. LateInv'
  BY DEF DoExit, LateInv
<1> QED BY <1>1, <1>2, <1>3, <1>4, <1>5, <1>6, <1>7, <1>8, <1>9, <1>10

\* The enumerator resets the port again.
LEMMA KeepsSecondReset ==
    ASSUME PortInv, SecondReset PROVE PortInv'
<1>0. ~ClockFails /\ "eager" \notin Uses
  BY ClockObeys
<1> USE <1>0 DEF PortInv
<1>1. TypeOK'
  BY DEF SecondReset, TypeOK
<1>2. crash' = "none" /\ IsTame(env)'
  BY DEF SecondReset
<1>3. CoreInv'
  BY DEF SecondReset, CoreInv
<1>4. DaemonInv'
  BY DEF SecondReset, DaemonInv
<1>5. PlaceInv'
  BY DEF SecondReset, PlaceInv
<1>6. RootInv'
  BY DEF SecondReset, RootInv
<1>7. UserInv'
  BY DEF SecondReset, UserInv, RootInv, TypeOK
<1>8. DeviceInv'
  BY DEF SecondReset, DeviceInv
<1>9. RequestInv'
  BY DEF SecondReset, RequestInv
<1>10. LateInv'
  BY DEF SecondReset, LateInv, RootInv
<1> QED BY <1>1, <1>2, <1>3, <1>4, <1>5, <1>6, <1>7, <1>8, <1>9, <1>10

\* An enumerated device is left to the clients.
LEMMA KeepsEnumDone ==
    ASSUME PortInv, EnumDone PROVE PortInv'
<1> USE DEF PortInv
<1>1. TypeOK'
  BY DEF EnumDone, TypeOK
<1>2. crash' = "none" /\ IsTame(env)'
  BY DEF EnumDone
<1>3. CoreInv'
  BY DEF EnumDone, CoreInv
<1>4. DaemonInv'
  BY DEF EnumDone, DaemonInv
<1>5. PlaceInv'
  BY DEF EnumDone, PlaceInv
<1>6. RootInv'
  BY DEF EnumDone, RootInv
<1>7. UserInv'
  BY DEF EnumDone, UserInv
<1>8. DeviceInv'
  BY DEF EnumDone, DeviceInv
<1>9. RequestInv'
  BY DEF EnumDone, RequestInv
<1>10. LateInv'
  BY DEF EnumDone, LateInv
<1> QED BY <1>1, <1>2, <1>3, <1>4, <1>5, <1>6, <1>7, <1>8, <1>9, <1>10

\* A device is freed only when its port is enabled or has failed (root_port_recycle()).
LEMMA DevFreeIsSafe ==
    ASSUME PortInv, DevFree
    PROVE  /\ hcd = "RECOVERY" \/ (hcd = "ENABLED" /\ root = "ENABLED")
           /\ life = "gone" \/ ("freeAll" \in Uses /\ user # "stopping" /\ wantOn)
<1> USE DEF PortInv, DevFree
<1>1. CASE life = "gone"
  BY <1>1 DEF DeviceInv
<1>2. CASE life = "idle" /\ freeing
  <2>1. "freeAll" \in Uses
    BY <1>2 DEF DeviceInv
  <2>2. user # "stopping" /\ wantOn /\ ~Suspends /\ "switch" \notin Uses
    BY <2>1, FreedIsAlone
  <2>3. root = "ENABLED"
    BY <1>2, <2>2 DEF RootInv, UserInv, TypeOK
  <2>4. hcd \in {"ENABLED", "RECOVERY"}
    BY <1>2, <2>2, <2>3 DEF RootInv, TypeOK
  <2> QED BY <2>1, <2>2, <2>3, <2>4
<1> QED BY <1>1, <1>2

\* A freed device leaves its port to be disabled or recovered.
LEMMA KeepsDevFree ==
    ASSUME PortInv, DevFree PROVE PortInv'
<1> USE DEF PortInv
<1>1. TypeOK'
  <2>1. freeing' \in BOOLEAN /\ asked' \in BOOLEAN /\ clear' \in BOOLEAN
    BY ZenonT(30) DEF DevFree
  <2>2. reqs' \subseteq Req /\ actions' \subseteq {"EVENT", "REQ"}
    BY DEF DevFree, TypeOK
  <2> QED BY <2>1, <2>2, SMTT(30) DEF DevFree, TypeOK
<1>2. crash' = "none" /\ IsTame(env)'
  <2>1. IsTame(env)'
    BY DEF DevFree, IsTame
  <2> QED BY <2>1, DevFreeIsSafe DEF DevFree
<1>3. CoreInv'
  <2>0. hcd = "RECOVERY" \/ (hcd = "ENABLED" /\ root = "ENABLED")
    BY DevFreeIsSafe
  <2>1. CASE hcd = "RECOVERY"
    BY <2>1, SMTT(30) DEF DevFree, CoreInv
  <2>2. CASE hcd = "ENABLED"
    BY <2>2, SMTT(30) DEF DevFree, CoreInv, On, TypeOK
  <2> QED BY <2>0, <2>1, <2>2
<1>4. DaemonInv'
  BY DEF DevFree, DaemonInv
<1>5. PlaceInv'
  BY DEF DevFree, PlaceInv
<1>6. RootInv'
  <2>0. hcd = "RECOVERY" \/ (hcd = "ENABLED" /\ root = "ENABLED")
    BY DevFreeIsSafe
  <2>1. CASE life = "gone"
    BY <2>1, <2>0, SMTT(30) DEF DevFree, RootInv, DeviceInv, UserInv
  <2>2. CASE life # "gone"
    <3>1. "freeAll" \in Uses /\ user # "stopping" /\ wantOn
      BY <2>2, DevFreeIsSafe
    <3>2. root # "SUSPENDED" /\ root # "NOT_POWERED" /\ root # "POWERED"
      BY <2>2, <3>1, FreedIsAlone DEF DevFree, RootInv, UserInv
    <3> QED BY <3>1, <3>2, <2>0, SMTT(30) DEF DevFree, RootInv
  <2> QED BY <2>1, <2>2
<1>7. UserInv'
  BY DEF DevFree, UserInv, RootInv, TypeOK
<1>8. DeviceInv'
  BY DEF DevFree, DeviceInv, RootInv, UserInv, IsTame
<1>9. RequestInv'
  BY DEF DevFree, RequestInv, DaemonInv, RootInv, UserInv, DeviceInv, IsTame, TypeOK
<1>10. LateInv'
  BY DEF DevFree, LateInv, RootInv, DeviceInv
<1> QED BY <1>1, <1>2, <1>3, <1>4, <1>5, <1>6, <1>7, <1>8, <1>9, <1>10

\* All pipes are halted before the port is suspended, and cleared after it is resumed.
LEMMA KeepsUsbhProcess ==
    ASSUME PortInv, UsbhProcess PROVE PortInv'
<1> USE DEF PortInv
<1>a. /\ pc = "usbh" /\ ~asked' /\ ~clear'
      /\ UNCHANGED <<hwVars, hcdVars, root, life, held, freeing, state, taskVars,
                     userVars, crash>>
  BY Zenon DEF UsbhProcess
<1>b. /\ asked => halted' /\ ~clear /\ MarkSuspend
      /\ ~asked => clear /\ (halted' => halted /\ ~conn) /\ UNCHANGED <<reqs, actions>>
  BY Zenon DEF UsbhProcess, DeviceInv
<1>1. TypeOK'
  <2>1. asked' \in BOOLEAN /\ clear' \in BOOLEAN /\ halted' \in BOOLEAN
    BY ZenonT(30) DEF UsbhProcess, TypeOK
  <2>2. reqs' \subseteq Req /\ actions' \subseteq {"EVENT", "REQ"}
    BY <1>b DEF TypeOK
  <2> QED BY <1>a, <2>1, <2>2, SMTT(30) DEF TypeOK
<1>2. crash' = "none" /\ IsTame(env)'
  BY <1>a
<1>3. CoreInv'
  BY <1>a DEF CoreInv
<1>4. DaemonInv'
  BY <1>a, <1>b DEF DaemonInv
<1>5. PlaceInv'
  BY <1>a, <1>b DEF PlaceInv
<1>6. RootInv'
  BY <1>a, <1>b DEF RootInv, DeviceInv
<1>7. UserInv'
  BY <1>a, <1>b DEF UserInv, RootInv
<1>8. DeviceInv'
  BY <1>a, <1>b, SMTT(30) DEF DeviceInv, CoreInv, RootInv, TypeOK
<1>9. RequestInv'
  BY <1>a, <1>b DEF RequestInv, DeviceInv
<1>10. LateInv'
  BY <1>a, <1>b DEF LateInv
<1> QED BY <1>1, <1>2, <1>3, <1>4, <1>5, <1>6, <1>7, <1>8, <1>9, <1>10

\* A device whose enumeration failed has its port disabled.
LEMMA KeepsEnumFails ==
    ASSUME PortInv, EnumFails PROVE PortInv'
<1> USE DEF PortInv
<1>1. TypeOK'
  <2>1. held' \in BOOLEAN
    BY ZenonT(30) DEF EnumFails
  <2>2. reqs' \subseteq Req /\ actions' \subseteq {"EVENT", "REQ"}
    BY DEF EnumFails, TypeOK
  <2> QED BY <2>1, <2>2, SMTT(30) DEF EnumFails, TypeOK
<1>2. crash' = "none" /\ IsTame(env)'
  BY DEF EnumFails
<1>3. CoreInv'
  BY DEF EnumFails, CoreInv
<1>4. DaemonInv'
  BY DEF EnumFails, DaemonInv
<1>5. PlaceInv'
  BY DEF EnumFails, PlaceInv
<1>6. RootInv'
  BY DEF EnumFails, RootInv
<1>7. UserInv'
  BY DEF EnumFails, UserInv, RootInv, TypeOK
<1>8. DeviceInv'
  BY DEF EnumFails, DeviceInv
<1>9. RequestInv'
  BY DEF EnumFails, RequestInv, RootInv, DeviceInv, TypeOK
<1>10. LateInv'
  BY DEF EnumFails, LateInv, RootInv
<1> QED BY <1>1, <1>2, <1>3, <1>4, <1>5, <1>6, <1>7, <1>8, <1>9, <1>10

\* A client opens the device.
LEMMA KeepsOpen ==
    ASSUME PortInv, Open PROVE PortInv'
<1> USE DEF PortInv
<1>1. TypeOK'
  BY DEF Open, TypeOK
<1>2. crash' = "none" /\ IsTame(env)'
  BY DEF Open
<1>3. CoreInv'
  BY DEF Open, CoreInv
<1>4. DaemonInv'
  BY DEF Open, DaemonInv
<1>5. PlaceInv'
  BY DEF Open, PlaceInv
<1>6. RootInv'
  BY DEF Open, RootInv
<1>7. UserInv'
  BY DEF Open, UserInv
<1>8. DeviceInv'
  BY DEF Open, DeviceInv
<1>9. RequestInv'
  BY DEF Open, RequestInv
<1>10. LateInv'
  BY DEF Open, LateInv, RootInv
<1> QED BY <1>1, <1>2, <1>3, <1>4, <1>5, <1>6, <1>7, <1>8, <1>9, <1>10

\* A client closes the device.
LEMMA KeepsClose ==
    ASSUME PortInv, Close PROVE PortInv'
<1> USE DEF PortInv
<1>1. TypeOK'
  <2>1. held' \in BOOLEAN
    BY ZenonT(30) DEF Close
  <2> QED BY <2>1, SMTT(30) DEF Close, TypeOK
<1>2. crash' = "none" /\ IsTame(env)'
  BY DEF Close
<1>3. CoreInv'
  BY DEF Close, CoreInv
<1>4. DaemonInv'
  BY DEF Close, DaemonInv
<1>5. PlaceInv'
  BY DEF Close, PlaceInv
<1>6. RootInv'
  BY DEF Close, RootInv
<1>7. UserInv'
  BY DEF Close, UserInv
<1>8. DeviceInv'
  BY DEF Close, DeviceInv
<1>9. RequestInv'
  BY DEF Close, RequestInv
<1>10. LateInv'
  BY DEF Close, LateInv
<1> QED BY <1>1, <1>2, <1>3, <1>4, <1>5, <1>6, <1>7, <1>8, <1>9, <1>10

\* A device is to be freed, where nothing suspends or switches the port.
LEMMA KeepsFreeAll ==
    ASSUME PortInv, FreeAll PROVE PortInv'
<1> USE DEF PortInv
<1>1. TypeOK'
  BY DEF FreeAll, TypeOK
<1>2. crash' = "none" /\ IsTame(env)'
  BY DEF FreeAll
<1>3. CoreInv'
  BY DEF FreeAll, CoreInv
<1>4. DaemonInv'
  BY DEF FreeAll, DaemonInv
<1>5. PlaceInv'
  BY DEF FreeAll, PlaceInv
<1>6. RootInv'
  BY DEF FreeAll, RootInv
<1>7. UserInv'
  BY DEF FreeAll, UserInv
<1>8. DeviceInv'
  BY DEF FreeAll, DeviceInv
<1>9. RequestInv'
  BY DEF FreeAll, RequestInv
<1>10. LateInv'
  BY DEF FreeAll, LateInv, RootInv
<1> QED BY <1>1, <1>2, <1>3, <1>4, <1>5, <1>6, <1>7, <1>8, <1>9, <1>10

\* A port that is calm and enabled is to be suspended.
LEMMA KeepsAskSuspend ==
    ASSUME PortInv, AskSuspend PROVE PortInv'
<1>0. ~ClockFails /\ "eager" \notin Uses
  BY ClockObeys
<1> USE <1>0 DEF PortInv
<1>1. TypeOK'
  BY DEF AskSuspend, TypeOK
<1>2. crash' = "none" /\ IsTame(env)'
  BY DEF AskSuspend
<1>3. CoreInv'
  BY DEF AskSuspend, CoreInv
<1>4. DaemonInv'
  BY DEF AskSuspend, DaemonInv
<1>5. PlaceInv'
  BY DEF AskSuspend, PlaceInv, IsTame
<1>6. RootInv'
  BY DEF AskSuspend, RootInv
<1>7. UserInv'
  BY DEF AskSuspend, UserInv, IsTame
<1>8. DeviceInv'
  BY DEF AskSuspend, DeviceInv, IsTame
<1>9. RequestInv'
  BY DEF AskSuspend, RequestInv, IsTame
<1>10. LateInv'
  BY DEF AskSuspend, LateInv
<1> QED BY <1>1, <1>2, <1>3, <1>4, <1>5, <1>6, <1>7, <1>8, <1>9, <1>10

\* A suspended port is to be resumed.
LEMMA KeepsMarkResume ==
    ASSUME PortInv, MarkResume PROVE PortInv'
<1> USE DEF PortInv
<1>1. TypeOK'
  BY DEF MarkResume, TypeOK
<1>2. crash' = "none" /\ IsTame(env)'
  BY DEF MarkResume
<1>3. CoreInv'
  BY DEF MarkResume, CoreInv
<1>4. DaemonInv'
  BY DEF MarkResume, DaemonInv
<1>5. PlaceInv'
  BY DEF MarkResume, PlaceInv
<1>6. RootInv'
  BY DEF MarkResume, RootInv
<1>7. UserInv'
  BY DEF MarkResume, UserInv, RootInv
<1>8. DeviceInv'
  BY DEF MarkResume, DeviceInv
<1>9. RequestInv'
  BY DEF MarkResume, RequestInv, RootInv, UserInv
<1>10. LateInv'
  BY DEF MarkResume, LateInv
<1> QED BY <1>1, <1>2, <1>3, <1>4, <1>5, <1>6, <1>7, <1>8, <1>9, <1>10

\* A light sleep suspends an enabled port at once.
LEMMA KeepsLightSleep ==
    ASSUME PortInv, LightSleep PROVE PortInv'
<1> USE DEF PortInv
<1>1. TypeOK'
  BY DEF LightSleep, TypeOK
<1>2. crash' = "none" /\ IsTame(env)'
  BY DEF LightSleep
<1>3. CoreInv'
  BY DEF LightSleep, CoreInv
<1>4. DaemonInv'
  BY DEF LightSleep, DaemonInv
<1>5. PlaceInv'
  BY DEF LightSleep, PlaceInv
<1>6. RootInv'
  BY DEF LightSleep, RootInv, DaemonInv, DeviceInv
<1>7. UserInv'
  BY DEF LightSleep, UserInv, IsTame
<1>8. DeviceInv'
  BY DEF LightSleep, DeviceInv
<1>9. RequestInv'
  BY DEF LightSleep, RequestInv, DaemonInv
<1>10. LateInv'
  BY DEF LightSleep, LateInv
<1> QED BY <1>1, <1>2, <1>3, <1>4, <1>5, <1>6, <1>7, <1>8, <1>9, <1>10

\* The hub driver takes a settled port for off.
LEMMA KeepsStop ==
    ASSUME PortInv, Stop PROVE PortInv'
<1> USE DEF PortInv
<1>1. TypeOK'
  BY DEF Stop, TypeOK
<1>2. crash' = "none" /\ IsTame(env)'
  BY DEF Stop
<1>3. CoreInv'
  BY DEF Stop, CoreInv
<1>4. DaemonInv'
  BY DEF Stop, DaemonInv
<1>5. PlaceInv'
  BY DEF Stop, PlaceInv, IsTame
<1>6. RootInv'
  BY DEF Stop, RootInv, CoreInv, IsTame, TypeOK
<1>7. UserInv'
  BY DEF Stop, UserInv, CoreInv, DaemonInv, IsTame
<1>8. DeviceInv'
  BY DEF Stop, DeviceInv
<1>9. RequestInv'
  BY DEF Stop, RequestInv, DaemonInv, IsTame
<1>10. LateInv'
  BY DEF Stop, LateInv, IsTame
<1> QED BY <1>1, <1>2, <1>3, <1>4, <1>5, <1>6, <1>7, <1>8, <1>9, <1>10

\* The user switches on a port that is off.
LEMMA KeepsStart ==
    ASSUME PortInv, Start PROVE PortInv'
<1> USE DEF PortInv
<1>1. TypeOK'
  BY DEF Start, TypeOK
<1>2. crash' = "none" /\ IsTame(env)'
  BY DEF Start
<1>3. CoreInv'
  BY DEF Start, CoreInv, IsTame
<1>4. DaemonInv'
  BY DEF Start, DaemonInv
<1>5. PlaceInv'
  BY DEF Start, PlaceInv, IsTame
<1>6. RootInv'
  BY DEF Start, RootInv, DeviceInv, IsTame
<1>7. UserInv'
  BY DEF Start, UserInv, DaemonInv, RootInv, IsTame
<1>8. DeviceInv'
  BY DEF Start, DeviceInv
<1>9. RequestInv'
  BY DEF Start, RequestInv
<1>10. LateInv'
  BY DEF Start, LateInv
<1> QED BY <1>1, <1>2, <1>3, <1>4, <1>5, <1>6, <1>7, <1>8, <1>9, <1>10

\* The power goes off: the command succeeds.
LEMMA KeepsPowerOff ==
    ASSUME PortInv, PowerOff PROVE PortInv'
<1>0. ~ClockFails /\ "eager" \notin Uses
  BY ClockObeys
<1> USE <1>0 DEF PortInv
<1>1. TypeOK'
  <2>1. power' \in BOOLEAN /\ wantOn' \in BOOLEAN
    BY ZenonT(30) DEF PowerOff, TypeOK
  <2> QED BY <2>1, SMTT(30) DEF PowerOff, TypeOK
<1>2. crash' = "none" /\ IsTame(env)'
  BY DEF PowerOff, RootInv, UserInv, TypeOK
<1>3. CoreInv'
  BY DEF PowerOff, CoreInv, RootInv, TypeOK
<1>4. DaemonInv'
  BY DEF PowerOff, DaemonInv
<1>5. PlaceInv'
  BY DEF PowerOff, PlaceInv, RootInv, TypeOK
<1>6. RootInv'
  BY DEF PowerOff, RootInv, TypeOK
<1>7. UserInv'
  BY DEF PowerOff, UserInv
<1>8. DeviceInv'
  BY DEF PowerOff, DeviceInv, RootInv, TypeOK
<1>9. RequestInv'
  BY DEF PowerOff, RequestInv, RootInv, TypeOK
<1>10. LateInv'
  BY DEF PowerOff, LateInv, RootInv
<1> QED BY <1>1, <1>2, <1>3, <1>4, <1>5, <1>6, <1>7, <1>8, <1>9, <1>10

\* The power goes on; a refused command leaves the port off.
LEMMA KeepsPowerOn ==
    ASSUME PortInv, PowerOn PROVE PortInv'
<1> USE DEF PortInv
<1>1. TypeOK'
  <2>1. power' \in BOOLEAN /\ lock' \in BOOLEAN
    BY ZenonT(30) DEF PowerOn, TypeOK
  <2> QED BY <2>1, SMTT(30) DEF PowerOn, TypeOK
<1>2. crash' = "none" /\ IsTame(env)'
  BY DEF PowerOn
<1>3. CoreInv'
  BY DEF PowerOn, CoreInv
<1>4. DaemonInv'
  BY DEF PowerOn, DaemonInv
<1>5. PlaceInv'
  BY DEF PowerOn, PlaceInv
<1>6. RootInv'
  BY DEF PowerOn, RootInv, UserInv
<1>7. UserInv'
  BY DEF PowerOn, UserInv, RootInv
<1>8. DeviceInv'
  BY DEF PowerOn, DeviceInv, CoreInv
<1>9. RequestInv'
  BY DEF PowerOn, RequestInv, UserInv
<1>10. LateInv'
  BY DEF PowerOn, LateInv, RootInv
<1> QED BY <1>1, <1>2, <1>3, <1>4, <1>5, <1>6, <1>7, <1>8, <1>9, <1>10

\* The hub driver learns that the port is on.
LEMMA KeepsStartDone ==
    ASSUME PortInv, StartDone PROVE PortInv'
<1> USE DEF PortInv
<1>1. TypeOK'
  BY DEF StartDone, TypeOK
<1>2. crash' = "none" /\ IsTame(env)'
  BY DEF StartDone
<1>3. CoreInv'
  BY DEF StartDone, CoreInv
<1>4. DaemonInv'
  BY DEF StartDone, DaemonInv
<1>5. PlaceInv'
  BY DEF StartDone, PlaceInv, RootInv
<1>6. RootInv'
  BY DEF StartDone, RootInv, UserInv, DeviceInv, TypeOK
<1>7. UserInv'
  BY DEF StartDone, UserInv
<1>8. DeviceInv'
  BY DEF StartDone, DeviceInv, RootInv
<1>9. RequestInv'
  BY DEF StartDone, RequestInv, UserInv
<1>10. LateInv'
  BY DEF StartDone, LateInv, UserInv
<1> QED BY <1>1, <1>2, <1>3, <1>4, <1>5, <1>6, <1>7, <1>8, <1>9, <1>10

-----------------------------------------------------------------------------
(* The invariant holds at first, every step keeps it, and it says what is claimed *)

\* hub_install() and usb_host_install() leave the port off and its power to be switched on.
LEMMA InitHolds ==
    ASSUME Tame, Init PROVE PortInv
<1> USE DEF Init
<1>1. TypeOK
  BY DEF TypeOK
<1>2. crash = "none" /\ IsTame(env)
  BY DEF Tame
<1>3. CoreInv /\ DaemonInv
  BY DEF CoreInv, DaemonInv
<1>4. PlaceInv
  BY DEF PlaceInv
<1>5. RootInv /\ UserInv
  BY DEF RootInv, UserInv
<1>6. DeviceInv /\ RequestInv /\ LateInv
  BY DEF DeviceInv, RequestInv, LateInv
<1> QED BY <1>1, <1>2, <1>3, <1>4, <1>5, <1>6 DEF PortInv

\* A step that changes nothing of this module keeps the invariant.
LEMMA KeepsStutter ==
    ASSUME PortInv, UNCHANGED vars PROVE PortInv'
<1> USE DEF PortInv, vars
<1>1. TypeOK' /\ crash' = "none" /\ IsTame(env)'
  BY DEF TypeOK, IsTame
<1>2. CoreInv' /\ DaemonInv'
  BY DEF CoreInv, DaemonInv
<1>3. PlaceInv' /\ RootInv'
  BY DEF PlaceInv, RootInv
<1>4. UserInv' /\ DeviceInv'
  BY DEF UserInv, DeviceInv
<1>5. RequestInv' /\ LateInv'
  BY DEF RequestInv, LateInv
<1> QED BY <1>1, <1>2, <1>3, <1>4, <1>5

\* The port interrupt keeps the invariant, whichever it is.
LEMMA KeepsInterrupt ==
    ASSUME PortInv, Interrupt PROVE PortInv'
BY KeepsIntrConn, KeepsIntrDisconn, KeepsIntrEnabled, KeepsIntrDisabledByReset,
   KeepsIntrDisabledOnRequest, KeepsIntrDisabledByError, KeepsIntrOvercurrent,
   KeepsIntrRemoteWakeup
   DEF Interrupt

\* So does the daemon, at any place of hub_process() and of its port commands.
LEMMA KeepsHubStep ==
    ASSUME PortInv, HubStep PROVE PortInv'
<1>1. CASE HubTake \/ HubDone \/ TakeEvent \/ Debounced \/ Connected \/ PortFailed
  BY <1>1, KeepsHubTake, KeepsHubDone, KeepsTakeEvent, KeepsDebounced, KeepsConnected,
     KeepsPortFailed
<1>2. CASE RemoteWakeup \/ HoldEnd \/ SettleEnd \/ NewDevice \/ SetEnabled \/ GiveUp
  BY <1>2, KeepsRemoteWakeup, KeepsHoldEnd, KeepsSettleEnd, KeepsNewDevice,
     KeepsSetEnabled, KeepsGiveUp
<1>3. CASE DisableEnd \/ TakeReqs \/ ReqsDone \/ DoDisable \/ DoRecover
  BY <1>3, KeepsDisableEnd, KeepsTakeReqs, KeepsReqsDone, KeepsDoDisable, KeepsDoRecover
<1>4. CASE PowerOnAgain \/ SetPowered \/ DoSuspend \/ SuspendEnd \/ SetSuspended
  BY <1>4, KeepsPowerOnAgain, KeepsSetPowered, KeepsDoSuspend, KeepsSuspendEnd,
     KeepsSetSuspended
<1>5. CASE DoResume \/ ResumeHoldEnd \/ ResumeSettleEnd \/ SetResumed \/ DoExit
  BY <1>5, KeepsDoResume, KeepsResumeHoldEnd, KeepsResumeSettleEnd, KeepsSetResumed,
     KeepsDoExit
<1> QED BY <1>1, <1>2, <1>3, <1>4, <1>5 DEF HubStep

\* So do the rest of the program, the application and the hardware.
LEMMA KeepsPortInv ==
    ASSUME PortInv, [Next]_vars PROVE PortInv'
<1>1. CASE Interrupt \/ HubStep \/ Attach \/ Detach
  BY <1>1, KeepsInterrupt, KeepsHubStep, KeepsAttach, KeepsDetach
<1>2. CASE DeviceStep \/ EnumFails \/ Open \/ Close \/ FreeAll
  BY <1>2, KeepsSecondReset, KeepsEnumDone, KeepsDevFree, KeepsUsbhProcess,
     KeepsEnumFails, KeepsOpen, KeepsClose, KeepsFreeAll
     DEF DeviceStep
<1>3. CASE AskSuspend \/ MarkResume \/ LightSleep
  BY <1>3, KeepsAskSuspend, KeepsMarkResume, KeepsLightSleep
<1>4. CASE Stop \/ Start \/ SwitchStep
  BY <1>4, KeepsStop, KeepsStart, KeepsPowerOff, KeepsPowerOn, KeepsStartDone
     DEF SwitchStep
<1>5. CASE UNCHANGED vars
  BY <1>5, KeepsStutter
<1> QED BY <1>1, <1>2, <1>3, <1>4, <1>5 DEF Next

\* What the invariant knows of each place of the daemon is what the program promises.
LEMMA PortInvIsConsistent ==
    ASSUME PortInv PROVE Consistent
<1> USE DEF PortInv
<1>1. NobodyStranded
  BY DEF NobodyStranded, LateInv
<1>2. PortIsVacated
  BY DEF PortIsVacated, RequestInv, PlaceInv
<1>3. SuspendAgrees
  BY DEF SuspendAgrees, RootInv
<1>4. StateAgrees
  BY DEF StateAgrees, DeviceInv, RootInv, RequestInv, DaemonInv
<1>5. OffStaysOff
  BY DEF OffStaysOff, RootInv
<1> QED BY <1>1, <1>2, <1>3, <1>4, <1>5 DEF Consistent, NoAbort

\* The hub driver, the port of the HCD and the device on it agree at any time: no
\* ESP_ERROR_CHECK() or abort() of hub.c fails, a port in recovery is not forgotten, its
\* soft reset finds no device, and suspended is who is known to be.
THEOREM RootPortConsistent ==
    ASSUME Tame PROVE FairSpec => []Consistent
<1>1. Init => PortInv
  BY InitHolds
<1>2. PortInv /\ [Next]_vars => PortInv'
  BY KeepsPortInv
<1>3. PortInv => Consistent
  BY PortInvIsConsistent
<1> QED
  BY <1>1, <1>2, <1>3, PTL DEF FairSpec, Spec
=============================================================================
