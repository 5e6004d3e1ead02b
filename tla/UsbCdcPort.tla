------------------------------ MODULE UsbCdcPort ------------------------------
(***************************************************************************)
(* The USB CDC-ACM port (esp32_usb_cdc_acm_port.c) between two tasks: the  *)
(* application, which opens the device, flashes the target and waits for   *)
(* the device to go (app_main of esp32_usb_cdc_acm_example), and the USB   *)
(* driver, which calls handle_usb_event and handle_usb_data.  They share   *)
(* the handles of the device, of the stream buffer and of the semaphore    *)
(* the application waits for.  The user may unplug and plug the device at  *)
(* any time.                                                               *)
(***************************************************************************)
EXTENDS Naturals, FiniteSets

CONSTANT MaxSessions   \* bound on the calls of ..._cdc_acm_init

ASSUME SessionsAssumption == MaxSessions \in Nat

VARIABLES
  preempts,   \* the tasks share a core, the driver's with the higher priority; fixed
  device,     \* s_acm_device: the session that opened it, or Null
  stream,     \* s_rx_stream_buffer, likewise
  callback,   \* is s_device_disconnected_callback set?
  sem,        \* device_disconnected_sem, likewise
  pc,         \* where each task is
  opened,     \* devices open in the driver (external)
  live,       \* stream buffers that are allocated (external)
  semaphores, \* semaphores that are allocated (external)
  given,      \* those of them that are given
  attached,   \* open devices that are plugged in
  plugged,    \* is there a device to open?
  event,      \* a disconnection the driver has not handled
  session,    \* calls of ..._cdc_acm_init so far
  intact,     \* history: the device has been there since this session opened it
  overtaking  \* history: sessions begun while the driver's task handled an event

handles == <<device, stream, callback, sem>>
kernel  == <<opened, live, semaphores, given>>
world   == <<attached, plugged, event, intact>>
history == <<preempts, session, overtaking>>
vars    == <<handles, pc, kernel, world, history>>

Null  == 0
Tasks == {"app", "driver"}

Init ==
  /\ preempts \in BOOLEAN
  /\ device = Null /\ stream = Null /\ sem = Null
  /\ callback = FALSE
  /\ pc = [app |-> "init", driver |-> "idle"]
  /\ opened = {} /\ live = {} /\ semaphores = {} /\ given = {}
  /\ attached = {}
  /\ plugged = FALSE
  /\ event = FALSE
  /\ session = 0
  /\ intact = FALSE
  /\ overtaking = {}

Goto(task, label) == pc' = [pc EXCEPT ![task] = label]

\* A failed assertion stops the whole program; "exhausted" is the one behind
\* the creation of a semaphore.
Aborts   == Goto("app", "aborted")
Stopped == pc.app \in {"aborted", "exhausted"}

\* On one core the application waits until the driver has nothing to do; on two
\* the tasks interleave.
AppRuns == preempts => pc.driver = "idle" /\ ~event

-----------------------------------------------------------------------------
(* loader_port_esp32_usb_cdc_acm_deinit, called by either task.  To give up *)
(* what is given up already is undefined: nothing happens, or it aborts.    *)
(* Closing an open device is taken to succeed.                              *)

Clear(task) ==
  /\ pc[task] = "clear"
  /\ callback' = FALSE
  /\ Goto(task, "delete")
  /\ UNCHANGED <<device, stream, sem, kernel, world, history>>

Delete(task) ==
  /\ pc[task] = "delete"
  /\ live' = live \ {stream}
  /\ \/ stream = Null /\ Goto(task, "close")
     \/ stream # Null /\ Goto(task, "deleted")
     \/ stream \notin live \cup {Null} /\ Aborts
  /\ UNCHANGED <<handles, opened, semaphores, given, world, history>>

\* s_rx_stream_buffer = NULL
ForgetStream(task) ==
  /\ pc[task] = "deleted"
  /\ stream' = Null
  /\ Goto(task, "close")
  /\ UNCHANGED <<device, callback, sem, kernel, world, history>>

Returns(task) == Goto(task, IF task = "app" THEN "init" ELSE "idle")

Close(task) ==
  /\ pc[task] = "close"
  /\ opened' = opened \ {device}
  /\ attached' = attached \ {device}
  /\ \/ device = Null /\ Returns(task)
     \/ device # Null /\ Goto(task, "closed")
     \/ device \notin opened \cup {Null} /\ Aborts
  /\ UNCHANGED <<handles, live, semaphores, given, plugged, event, intact, history>>

\* s_acm_device = NULL
ForgetDevice(task) ==
  /\ pc[task] = "closed"
  /\ device' = Null
  /\ Returns(task)
  /\ UNCHANGED <<stream, callback, sem, kernel, world, history>>

Deinit(task) ==
  Clear(task) \/ Delete(task) \/ ForgetStream(task) \/ Close(task) \/ ForgetDevice(task)

-----------------------------------------------------------------------------
(* The application *)

\* ..._cdc_acm_init sets the callbacks, creates the stream buffer, for which
\* there may be no memory, and opens the device.
SetCallbacks ==
  /\ pc.app = "init" /\ session < MaxSessions
  /\ session' = session + 1
  /\ overtaking' = IF pc.driver = "idle" THEN overtaking ELSE overtaking \cup {session'}
  /\ callback' = TRUE
  /\ Goto("app", "stream")
  /\ UNCHANGED <<preempts, device, stream, sem, kernel, world>>

Mut_CreateStream ==
  /\ pc.app = "stream"
  /\ \/ stream' = session /\ live' = live \cup {session}
     \/ stream' = Null /\ UNCHANGED live
  /\ Goto("app", "open")
  /\ UNCHANGED <<device, callback, sem, opened, semaphores, given, world, history>>
CreateStream ==
  /\ pc.app = "stream"
  /\ \/ stream' = session /\ live' = live \cup {session} /\ Goto("app", "open")
     \/ stream' = Null /\ UNCHANGED live /\ Goto("app", "init")
  /\ UNCHANGED <<device, callback, sem, opened, semaphores, given, world, history>>

\* cdc_acm_host_open: the device is open, and may go, before the handle is
\* stored.  When it fails the init undoes what it has done.
Mut_Open ==
  /\ pc.app = "open"
  /\ \/ /\ plugged
        /\ opened' = opened \cup {session}
        /\ attached' = attached \cup {session}
        /\ intact' = TRUE
        /\ Goto("app", "opened")
        /\ UNCHANGED device
     \/ /\ device' \in {device, Null}
        /\ Goto("app", "init")
        /\ UNCHANGED <<opened, attached, intact>>
  /\ UNCHANGED <<stream, callback, sem, live, semaphores, given, plugged, event, history>>
Open ==
  /\ pc.app = "open"
  /\ \/ /\ plugged
        /\ opened' = opened \cup {session}
        /\ attached' = attached \cup {session}
        /\ intact' = TRUE
        /\ Goto("app", "opened")
        /\ UNCHANGED device
     \/ /\ device' \in {device, Null}
        /\ Goto("app", "clear")
        /\ UNCHANGED <<opened, attached, intact>>
  /\ UNCHANGED <<stream, callback, sem, live, semaphores, given, plugged, event, history>>

StoreHandle ==
  /\ pc.app = "opened"
  /\ device' = session
  /\ Goto("app", "create")
  /\ UNCHANGED <<stream, callback, sem, kernel, world, history>>

\* xSemaphoreCreateBinary: a new one for each session, which nobody deletes,
\* until there is no memory for another.
CreateSemaphore ==
  /\ pc.app = "create"
  /\ \/ sem' = session /\ semaphores' = semaphores \cup {session} /\ Goto("app", "flash")
     \/ sem' = Null /\ UNCHANGED semaphores /\ Goto("app", "exhausted")
  /\ UNCHANGED <<device, stream, callback, opened, live, given, world, history>>

\* The assertions at the head of loader_port_write, loader_port_read,
\* loader_port_enter_bootloader and loader_port_reset_target.
PortCall ==
  /\ pc.app = "flash"
  /\ IF device = Null \/ stream = Null THEN Aborts ELSE Goto("app", "calling")
  /\ UNCHANGED <<handles, kernel, world, history>>

\* The call returns, and the application goes on, is done, or gives up; or it
\* used what was gone, which is undefined.
CallReturns ==
  /\ pc.app = "calling"
  /\ \/ Goto("app", "flash")
     \/ Goto("app", "wait")
     \/ ~(session \in live /\ session \in opened) /\ Aborts
  /\ UNCHANGED <<handles, kernel, world, history>>

TakeSemaphore ==
  /\ pc.app = "wait"
  /\ sem \in given
  /\ given' = given \ {sem}
  /\ Goto("app", "init")
  /\ UNCHANGED <<handles, opened, live, semaphores, world, history>>

App ==
  /\ AppRuns
  /\ \/ SetCallbacks \/ CreateStream \/ Open \/ StoreHandle
     \/ CreateSemaphore \/ PortCall \/ CallReturns \/ TakeSemaphore
     \/ Deinit("app")

-----------------------------------------------------------------------------
(* The driver's task: handle_usb_event with CDC_ACM_HOST_DEVICE_DISCONNECTED, *)
(* and handle_usb_data.                                                       *)

Notify ==
  /\ pc.driver = "idle" /\ event
  /\ event' = FALSE
  /\ Goto("driver", IF callback THEN "notify" ELSE "clear")
  /\ UNCHANGED <<handles, kernel, attached, plugged, intact, history>>

\* device_disconnected_callback: it aborts before the first semaphore is there,
\* and gives the one of the session before as long as there is no new one.
Mut_Give ==
  /\ pc.driver = "notify"
  /\ Goto("driver", "clear")
  /\ UNCHANGED <<handles, kernel, world, history>>
Give ==
  /\ pc.driver = "notify"
  /\ \/ sem # Null /\ given' = given \cup {sem} /\ Goto("driver", "clear")
     \/ sem = Null /\ UNCHANGED given /\ Aborts
  /\ UNCHANGED <<handles, opened, live, semaphores, world, history>>

\* Bytes for a stream buffer that is not there; else they change nothing here.
HandleData ==
  /\ pc.driver = "idle"
  /\ attached # {} /\ stream \notin live
  /\ Aborts
  /\ UNCHANGED <<handles, kernel, world, history>>

Driver ==
  /\ ~Stopped
  /\ Notify \/ Give \/ HandleData \/ Deinit("driver")

Unplug ==
  /\ plugged
  /\ plugged' = FALSE
  /\ attached' = {}
  /\ event' = (event \/ attached # {})
  /\ intact' = FALSE
  /\ UNCHANGED <<handles, pc, kernel, history>>

Plug ==
  /\ ~plugged
  /\ plugged' = TRUE
  /\ UNCHANGED <<handles, pc, kernel, attached, event, intact, history>>

Next == App \/ Driver \/ Unplug \/ Plug

\* Both tasks are scheduled; the user does as he likes.
Spec == Init /\ [][Next]_vars /\ WF_vars(App) /\ WF_vars(Driver)

-----------------------------------------------------------------------------
(* Properties *)

\* What nobody has a handle of any more.  A device being opened has none yet.
Leaked ==
  (live \ {stream}) \cup (opened \ ({device} \cup IF pc.app = "opened" THEN {session} ELSE {}))

\* Failed inits and unplugged devices leave no stream buffer and no open device
\* behind, but where two cores let the application begin its next session
\* before the driver's task has ended its deinit: then what the session before
\* or the one that overtook it had may be lost, and no other.  (Semaphores are
\* another matter: every session leaves one behind.)
LeaksOnlyWhenOvertaken ==
  /\ ~Stopped => \A s \in Leaked : {s, s + 1} \cap overtaking # {}
  /\ preempts => overtaking = {}

\* The handles stay valid for as long as the device is there: no port call and
\* no data of the device meets a handle that is gone, and nothing is given up
\* twice, in a session whose device was never unplugged and that has not begun
\* before the driver's task had ended its deinit of an earlier one.
IntactWhilePlugged == pc.app = "aborted" /\ intact => session \in overtaking

\* On one core an unplugged device brings the application back to its init, or
\* to an assertion: it does not wait for a semaphore that nobody gives.
UnplugNoticed == (preempts /\ event /\ session < MaxSessions) ~> (pc.app = "init" \/ Stopped)
=============================================================================
