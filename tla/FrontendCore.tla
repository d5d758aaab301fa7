---------------------------- MODULE FrontendCore ----------------------------
(***************************************************************************)
(* The frontend core: one frontend device, its tuning thread and the       *)
(* processes that have it open (src/neumo/dvb-core/neumo-dvb-frontend.c,   *)
(* with dvb_generic_open and dvb_generic_release of neumo-dvbdev.c).       *)
(*                                                                         *)
(* A process opens the device read-write (one at a time: dvbdev->writers)  *)
(* or read-only, and makes one call after the other.  The calls and the    *)
(* thread exclude each other by the semaphore fepriv->sem, which the       *)
(* kernel serves in the order of arrival.  Not everything is under it:     *)
(* open starts and stops the thread, FE_GET_EVENT looks at the event queue *)
(* and gives the semaphore away while it does, and the conditions of the   *)
(* thread's sleep are evaluated without it.                                *)
(*                                                                         *)
(* The frontend uses DVBFE_ALGO_HW (hw_algo), as the satellite drivers of  *)
(* this repository do.  What the driver finds (status, lock) is a choice,  *)
(* and so is when it returns, which stands for task_should_stop.  Times    *)
(* are left out: the thread's sleep may always time out, and shutdown_due  *)
(* says that dvb_shutdown_timeout has passed since the last close.         *)
(***************************************************************************)
EXTENDS Naturals, Sequences, FiniteSets

CONSTANTS
  Procs,     \* processes that may open the frontend
  Uses,      \* what each of them does with it: a set of calls
  Jobs,      \* states of a driver operation that runs once
  BusCtrl,   \* the frontend has the ts_bus_ctrl operation
  Suspends,  \* the machine is suspended and resumed at times
  Kthread,   \* the tuning thread, as a user of the semaphore
  MaxEvent   \* slots of the event queue (MAX_EVENT, 64 in the code)

ASSUME ConstantsAssumption ==
  /\ IsFiniteSet(Procs) /\ Kthread \notin Procs
  /\ Uses \in [Procs -> SUBSET {"ro", "rw", "ioctl", "stop", "event"}]
  /\ Jobs \subseteq {"SCANNING", "GETTING_SPECTRUM"}
  /\ BusCtrl \in BOOLEAN /\ Suspends \in BOOLEAN
  /\ MaxEvent \in Nat /\ MaxEvent > 1

VARIABLES
  pc,           \* where each process is in its call
  mode,         \* how it has the device open
  thr,          \* where the thread is; "none" when there is no thread
  should_stop,  \* kthread_stop was called for the thread
  sem,          \* fepriv->sem: count, queue of waiters, and those let in
  exit,         \* fe->exit
  state,        \* fepriv->state
  wakeup,       \* fepriv->wakeup
  reinitialise, \* fepriv->reinitialise
  shutdown_due, \* time_after_eq(jiffies, release_jiffies + timeout)
  events,       \* fepriv->events: eventr, eventw, overflow
  wp,           \* local of add_event, used under events->mtx
  stopped,      \* DTV_STOP has returned and nothing was asked for since
  lost          \* an event was dropped and nobody has been told

thread == <<thr, should_stop>>
loop == <<state, wakeup, reinitialise>>
queue == <<events, wp, lost>>
flags == <<shutdown_due, stopped>>
vars == <<pc, mode, thr, should_stop, sem, exit, state, wakeup, reinitialise,
          shutdown_due, events, wp, stopped, lost>>

-----------------------------------------------------------------------------
\* Where processes and the thread can be.

Opening == {"start", "start_exit", "stop", "kthread_stop", "join", "start_down",
            "run", "opened", "oops"}
GetEvent == {"overflow", "event_up", "event_test", "event_down", "event_again",
             "asleep", "take"}
Requesting == {"request_clear", "request_add", "request_publish", "request_wake"}
Stopping == {"stop_clear", "stop_add", "stop_publish", "stop_up"}
Releasing == {"release_clear", "release_add", "release_publish", "release_up"}
Places == {"idle", "ioctl_down", "ioctl", "request_up", "stop_down", "stop_task",
           "release_down", "release_task"}
          \cup Opening \cup GetEvent \cup Requesting \cup Stopping \cup Releasing
ThreadPlaces == {"none", "init", "up", "wait", "check", "down", "frozen", "restart",
                 "work", "reinit", "drive_job", "drive_tune", "event", "exit_down",
                 "sleep", "null"}
Requested == Jobs \cup {"RETUNE"}

\* dvbdev->writers and dvbdev->users of an unused frontend are 1 and -1.
NoWriter == \A p \in Procs : mode[p] # "rw"
NoUser == \A p \in Procs : mode[p] = "none"

\* fepriv->thread is not NULL
HasThread == thr \notin {"none", "null"}

\* The code between a down and the matching up.
ThreadHolds == thr \in {"init", "up", "work", "reinit", "drive_job", "drive_tune",
                        "event", "sleep", "null"}
Holding == {"run", "ioctl", "request_up", "stop_task", "release_task"}
           \cup Requesting \cup Stopping \cup Releasing
Holders == {p \in Procs : pc[p] \in Holding}
           \cup (IF ThreadHolds THEN {Kthread} ELSE {})

\* Calls of FE_GET_EVENT that gave the semaphore away and did not take it back.
Borrowers == {p \in Procs : pc[p] \in {"event_test", "event_down", "event_again"}}

FreeSemaphore == [count |-> 1, queue |-> <<>>, granted |-> {}]

TypeOK ==
  /\ pc \in [Procs -> Places]
  /\ mode \in [Procs -> {"none", "ro", "rw"}]
  /\ thr \in ThreadPlaces
  /\ should_stop \in BOOLEAN
  /\ sem.count \in Nat /\ sem.queue \in Seq(Procs \cup {Kthread})
  /\ sem.granted \subseteq Procs \cup {Kthread}
  /\ exit \in {"NO_EXIT", "NORMAL_EXIT", "DEVICE_REMOVED"}
  /\ state \in {"IDLE", "TUNED", "DISEQC"} \cup Requested
  /\ wakeup \in BOOLEAN /\ reinitialise \in BOOLEAN
  /\ shutdown_due \in BOOLEAN
  /\ events \in [eventr : 0..(MaxEvent - 1), eventw : 0..(MaxEvent - 1),
                 overflow : BOOLEAN]
  /\ wp \in 0..(MaxEvent - 1)
  /\ stopped \in BOOLEAN /\ lost \in BOOLEAN

Init ==
  /\ pc = [p \in Procs |-> "idle"]
  /\ mode = [p \in Procs |-> "none"]
  /\ thr = "none" /\ should_stop = FALSE
  /\ sem = FreeSemaphore
  /\ exit = "NO_EXIT" /\ state = "IDLE"
  /\ wakeup = FALSE /\ reinitialise = FALSE
  /\ shutdown_due = TRUE
  /\ events = [eventr |-> 0, eventw |-> 0, overflow |-> FALSE]
  /\ wp = 0
  /\ stopped = TRUE /\ lost = FALSE

-----------------------------------------------------------------------------
(***************************************************************************)
(* The kernel's semaphore.  down takes a free semaphore or queues; up      *)
(* hands the semaphore to the first in the queue, who holds it from then   *)
(* on, or makes it free.                                                   *)
(***************************************************************************)
Queued(a) == \E i \in 1..Len(sem.queue) : sem.queue[i] = a

Queue(a) ==
  /\ sem.count = 0 /\ ~Queued(a) /\ a \notin sem.granted
  /\ sem' = [sem EXCEPT !.queue = Append(@, a)]

Down(a) ==
  \/ /\ sem.count > 0 /\ ~Queued(a) /\ a \notin sem.granted
     /\ sem' = [sem EXCEPT !.count = @ - 1]
  \/ /\ a \in sem.granted
     /\ sem' = [sem EXCEPT !.granted = @ \ {a}]

Up == sem' = IF sem.queue = <<>>
             THEN [sem EXCEPT !.count = @ + 1]
             ELSE [sem EXCEPT !.queue = Tail(@), !.granted = @ \cup {Head(sem.queue)}]

\* The list of waiters without the k-th.
Unlink(q, k) == [i \in 1..(Len(q) - 1) |-> IF i < k THEN q[i] ELSE q[i + 1]]

\* A signal ends down_interruptible of a waiter.
GiveUp(a) ==
  \E k \in 1..Len(sem.queue) :
    /\ sem.queue[k] = a
    /\ sem' = [sem EXCEPT !.queue = Unlink(@, k)]

-----------------------------------------------------------------------------
(***************************************************************************)
(* The event queue.                                                        *)
(***************************************************************************)
\* Mutant: the index does not wrap around.
NextSlotUnbounded(i) == i + 1

NextSlot(i) == (i + 1) % MaxEvent
Empty(e) == e.eventr = e.eventw

\* Mutant: the overflow is not recorded.
MakeRoomSilently(e) ==
  IF NextSlot(e.eventw) = e.eventr THEN [e EXCEPT !.eventr = NextSlot(@)] ELSE e

\* In the first half of neumo_dvb_frontend_add_event room is made by dropping the
\* oldest event.
MakeRoom(e) ==
  IF NextSlot(e.eventw) = e.eventr
  THEN [e EXCEPT !.overflow = TRUE, !.eventr = NextSlot(@)]
  ELSE e

\* neumo_dvb_frontend_clear_events
ClearEvents(e) == [e EXCEPT !.eventr = e.eventw]

\* add_event holds events->mtx between its two halves.
Publishing == {"request_publish", "stop_publish", "release_publish"}
EventsUnlocked == thr # "event" /\ \A p \in Procs : pc[p] \notin Publishing

AddEventBegin ==
  /\ EventsUnlocked
  /\ events' = MakeRoom(events)
  /\ wp' = NextSlot(events.eventw)
  /\ lost' = (lost \/ NextSlot(events.eventw) = events.eventr)

\* The second half of add_event; events->mtx is released.
AddEventEnd ==
  /\ events' = [events EXCEPT !.eventw = wp]
  /\ wp' = 0
  /\ UNCHANGED lost

-----------------------------------------------------------------------------
(***************************************************************************)
(* Open.  dvb_device_open holds dvbdev_mutex, so one process at a time.    *)
(***************************************************************************)
Go(p, place) == pc' = [pc EXCEPT ![p] = place]
At(p, place) == pc[p] = place

\* neumo_dvb_frontend_open up to neumo_dvb_frontend_start.  A second writer is
\* refused by dvb_generic_open.  The first user takes the bus, which resets the
\* demod.  A read-only open ends here.
Open(p, m) ==
  /\ At(p, "idle") /\ mode[p] = "none" /\ m \in Uses[p]
  /\ \A q \in Procs : pc[q] \notin Opening
  /\ m = "rw" => NoWriter
  /\ exit # "DEVICE_REMOVED"
  /\ mode' = [mode EXCEPT ![p] = m]
  /\ reinitialise' = (reinitialise \/ (NoUser /\ BusCtrl))
  /\ Go(p, IF m = "rw" THEN "start" ELSE "idle")
  /\ UNCHANGED <<sem, thread, exit, state, wakeup, queue, flags>>

\* neumo_dvb_frontend_start: is there a thread ...
StartFindsThread(p) ==
  /\ At(p, "start")
  /\ Go(p, IF HasThread THEN "start_exit" ELSE "start_down")
  /\ UNCHANGED <<mode, sem, thread, exit, loop, queue, flags>>

\* ... and is it there to stay?
StartTestsExit(p) ==
  /\ At(p, "start_exit")
  /\ Go(p, IF exit = "NO_EXIT" THEN "opened" ELSE "stop")
  /\ UNCHANGED <<mode, sem, thread, exit, loop, queue, flags>>

\* neumo_dvb_frontend_stop up to its early return.
Stop(p) ==
  /\ At(p, "stop")
  /\ exit' = IF exit = "DEVICE_REMOVED" THEN exit ELSE "NORMAL_EXIT"
  /\ Go(p, IF HasThread THEN "kthread_stop" ELSE "start_down")
  /\ UNCHANGED <<mode, sem, thread, loop, queue, flags>>

\* kthread_stop(fepriv->thread).  The thread may have cleared the pointer since it
\* was tested: the call then gets NULL and the process dies in the kernel, with
\* dvbdev_mutex held.
KthreadStop(p) ==
  /\ At(p, "kthread_stop")
  /\ \/ /\ HasThread
        /\ should_stop' = TRUE
        /\ Go(p, "join")
     \/ /\ ~HasThread
        /\ Go(p, "oops")
        /\ UNCHANGED should_stop
  /\ UNCHANGED <<mode, sem, thr, exit, loop, queue, flags>>

\* The end of neumo_dvb_frontend_stop, when the thread function has returned.
StopJoins(p) ==
  /\ At(p, "join")
  /\ thr = "none" /\ sem = FreeSemaphore
  /\ state' = "IDLE"
  /\ Go(p, "start_down")
  /\ UNCHANGED <<mode, thread, sem, exit, wakeup, reinitialise, queue, flags>>

\* The same when somebody holds the semaphore or waits for it: sema_init puts the
\* list of waiters out of joint and lets two in.  What follows is undefined; the
\* process is not followed any further.
StopInitialisesUsed(p) ==
  /\ At(p, "join")
  /\ thr = "none" /\ sem # FreeSemaphore
  /\ Go(p, "oops")
  /\ UNCHANGED <<mode, thread, sem, exit, loop, queue, flags>>

\* down_interruptible of neumo_dvb_frontend_start
StartDown(p) ==
  /\ At(p, "start_down")
  /\ \/ Queue(p) /\ UNCHANGED pc
     \/ Down(p) /\ Go(p, "run")
  /\ UNCHANGED <<mode, thread, exit, loop, queue, flags>>

\* The rest of neumo_dvb_frontend_start.  The new thread takes over the semaphore.
StartRuns(p) ==
  /\ At(p, "run")
  /\ state' = "IDLE" /\ exit' = "NO_EXIT"
  /\ \/ /\ thr' = "init" /\ should_stop' = FALSE
        /\ Go(p, "opened")
        /\ UNCHANGED <<mode, sem>>
     \/ /\ Up                         \* kthread_run fails
        /\ mode' = [mode EXCEPT ![p] = "none"]
        /\ Go(p, "idle")
        /\ UNCHANGED <<thr, should_stop>>
  /\ UNCHANGED <<wakeup, reinitialise, queue, flags>>

\* The end of neumo_dvb_frontend_open: the queue is emptied without events->mtx.
Opened(p) ==
  /\ At(p, "opened")
  /\ events' = [events EXCEPT !.eventr = 0, !.eventw = 0]
  /\ lost' = FALSE
  /\ Go(p, "idle")
  /\ UNCHANGED <<mode, sem, thread, exit, loop, wp, flags>>

\* A signal is pending, or arrives while start waits: open fails.
StartInterrupted(p) ==
  /\ At(p, "start_down")
  /\ \/ GiveUp(p)
     \/ ~Queued(p) /\ p \notin sem.granted /\ UNCHANGED sem
  /\ mode' = [mode EXCEPT ![p] = "none"]
  /\ Go(p, "idle")
  /\ UNCHANGED <<thread, exit, loop, queue, flags>>

-----------------------------------------------------------------------------
(***************************************************************************)
(* ioctls under the semaphore (dvb_frontend_do_ioctl).                     *)
(***************************************************************************)
Ioctl(p) ==
  /\ At(p, "idle") /\ mode[p] # "none" /\ "ioctl" \in Uses[p]
  /\ Go(p, "ioctl_down")
  /\ UNCHANGED <<mode, sem, thread, exit, loop, queue, flags>>

IoctlDown(p) ==
  /\ At(p, "ioctl_down")
  /\ \/ Queue(p) /\ UNCHANGED pc
     \/ Down(p) /\ Go(p, "ioctl")
     \/ GiveUp(p) /\ Go(p, "idle")
  /\ UNCHANGED <<mode, thread, exit, loop, queue, flags>>

\* Mutant: the early return forgets the semaphore.
IoctlRefusedHolding(p) ==
  /\ At(p, "ioctl") /\ exit # "NO_EXIT"
  /\ Go(p, "idle")
  /\ UNCHANGED <<mode, sem, thread, exit, loop, queue, flags>>

\* -ENODEV while the thread is on its way out.
IoctlRefused(p) ==
  /\ At(p, "ioctl") /\ exit # "NO_EXIT"
  /\ Up
  /\ Go(p, "idle")
  /\ UNCHANGED <<mode, thread, exit, loop, queue, flags>>

IoctlAllowed(p) == At(p, "ioctl") /\ exit = "NO_EXIT"

IoctlServed(p) == IoctlAllowed(p) /\ Up /\ Go(p, "idle")

\* An ioctl that leaves the tuning loop alone: all that a read-only file may do,
\* and FE_SET_PROPERTY without a request.
IoctlQuery(p) ==
  /\ IoctlServed(p)
  /\ UNCHANGED <<mode, thread, exit, loop, queue, flags>>

\* What the requests to the thread have in common: the state, then the queue of
\* events (RestartClear, RestartAdd, RestartPublish), then the wake-up.
Request(p, s) ==
  /\ IoctlAllowed(p) /\ mode[p] = "rw"
  /\ state' = s
  /\ stopped' = FALSE
  /\ Go(p, "request_clear")
  /\ UNCHANGED <<mode, sem, thread, exit, wakeup, reinitialise, queue, shutdown_due>>

\* DTV_TUNE and FE_SET_FRONTEND (dtv_set_frontend).
SetFrontend(p) == Request(p, "RETUNE")

\* DTV_SCAN (dtv_set_sat_scan) and DTV_SPECTRUM (dtv_set_spectrum).
StartJob(p) == \E s \in Jobs : Request(p, s)

\* Mutant: the thread is not woken.
RequestWakesNobody(p) ==
  /\ At(p, "request_wake")
  /\ Go(p, "request_up")
  /\ UNCHANGED <<mode, sem, thread, exit, loop, queue, flags>>

\* neumo_dvb_frontend_wakeup
RequestWakes(p) ==
  /\ At(p, "request_wake")
  /\ wakeup' = TRUE
  /\ Go(p, "request_up")
  /\ UNCHANGED <<mode, sem, thread, exit, state, reinitialise, queue, flags>>

RequestReturns(p) ==
  /\ At(p, "request_up")
  /\ Up
  /\ Go(p, "idle")
  /\ UNCHANGED <<mode, thread, exit, loop, queue, flags>>

\* dtv_set_frontend refuses its parameters.
TuneRefused(p) ==
  /\ IoctlServed(p) /\ mode[p] = "rw"
  /\ state' = "IDLE"
  /\ UNCHANGED <<mode, thread, exit, wakeup, reinitialise, queue, flags>>

\* The DiSEqC commands, FE_SET_TONE and FE_SET_VOLTAGE.
Diseqc(p) ==
  /\ IoctlServed(p) /\ mode[p] = "rw"
  /\ state' = IF state = "IDLE" THEN "DISEQC" ELSE state
  /\ UNCHANGED <<mode, thread, exit, wakeup, reinitialise, queue, flags>>

-----------------------------------------------------------------------------
(***************************************************************************)
(* DTV_STOP (dvb_frontend_handle_algo_ctrl_ioctl) and close                *)
(* (neumo_dvb_frontend_release).  Both ask the driver to stop, wait for    *)
(* the semaphore and idle the loop.                                        *)
(***************************************************************************)
StopTask(p) ==
  /\ At(p, "idle") /\ mode[p] = "rw" /\ "stop" \in Uses[p]
  /\ Go(p, "stop_down")
  /\ UNCHANGED <<mode, sem, thread, exit, loop, queue, flags>>

StopTaskDown(p) ==
  /\ At(p, "stop_down")
  /\ \/ Queue(p) /\ UNCHANGED pc
     \/ Down(p) /\ Go(p, "stop_task")
     \/ GiveUp(p) /\ Go(p, "idle")
  /\ UNCHANGED <<mode, thread, exit, loop, queue, flags>>

\* Mutant: a job that waits for the thread is forgotten.
IdleLoopKeepsJob(p, from, to) ==
  /\ At(p, from)
  /\ state' = IF state \in Jobs THEN state ELSE "IDLE"
  /\ Go(p, to)
  /\ UNCHANGED <<mode, sem, thread, exit, wakeup, reinitialise, queue, flags>>

\* stop_task of the driver, and the loop is idled; the queue of events follows.
IdleLoop(p, from, to) ==
  /\ At(p, from)
  /\ state' = "IDLE"
  /\ Go(p, to)
  /\ UNCHANGED <<mode, sem, thread, exit, wakeup, reinitialise, queue, flags>>

StopTaskIdles(p) == IdleLoop(p, "stop_task", "stop_clear")


StopTaskReturns(p) ==
  /\ At(p, "stop_up")
  /\ Up
  /\ stopped' = TRUE
  /\ Go(p, "idle")
  /\ UNCHANGED <<mode, thread, exit, loop, queue, shutdown_due>>

\* dvb_generic_release; only the last user stops the task.
Close(p) ==
  /\ At(p, "idle") /\ mode[p] # "none"
  /\ mode' = [mode EXCEPT ![p] = "none"]
  /\ shutdown_due' = (shutdown_due /\ mode[p] = "ro")
  /\ \/ /\ \A q \in Procs \ {p} : mode[q] = "none"
        /\ Go(p, "release_down")
     \/ /\ \E q \in Procs \ {p} : mode[q] # "none"
        /\ UNCHANGED pc
  /\ UNCHANGED <<sem, thread, exit, loop, queue, stopped>>

CloseDown(p) ==
  /\ At(p, "release_down")
  /\ \/ Queue(p) /\ UNCHANGED pc
     \/ Down(p) /\ Go(p, "release_task")
     \/ GiveUp(p) /\ Go(p, "idle")
  /\ UNCHANGED <<mode, thread, exit, loop, queue, flags>>

CloseIdles(p) == IdleLoop(p, "release_task", "release_clear")

CloseReturns(p) ==
  /\ At(p, "release_up")
  /\ Up
  /\ Go(p, "idle")
  /\ UNCHANGED <<mode, thread, exit, loop, queue, flags>>

\* dvb_shutdown_timeout passes.
ShutdownTimeout ==
  /\ ~shutdown_due
  /\ shutdown_due' = TRUE
  /\ UNCHANGED <<pc, mode, sem, thread, exit, loop, queue, stopped>>

-----------------------------------------------------------------------------
(***************************************************************************)
(* What a request, DTV_STOP and the last close do to the queue of events:  *)
(* clear_events, which takes and releases events->mtx, and add_event,      *)
(* which takes it again.  Others come in between.                          *)
(***************************************************************************)
QueueOnly == UNCHANGED <<mode, sem, thread, exit, loop, flags>>

RestartClear(p) ==
  /\ \/ At(p, "request_clear") /\ Go(p, "request_add")
     \/ At(p, "stop_clear") /\ Go(p, "stop_add")
     \/ At(p, "release_clear") /\ Go(p, "release_add")
  /\ EventsUnlocked
  /\ events' = ClearEvents(events)
  /\ lost' = FALSE
  /\ UNCHANGED wp /\ QueueOnly

RestartAdd(p) ==
  /\ \/ At(p, "request_add") /\ Go(p, "request_publish")
     \/ At(p, "stop_add") /\ Go(p, "stop_publish")
     \/ At(p, "release_add") /\ Go(p, "release_publish")
  /\ AddEventBegin
  /\ QueueOnly

RestartPublish(p) ==
  /\ \/ At(p, "request_publish") /\ Go(p, "request_wake")
     \/ At(p, "stop_publish") /\ Go(p, "stop_up")
     \/ At(p, "release_publish") /\ Go(p, "release_up")
  /\ AddEventEnd
  /\ QueueOnly

-----------------------------------------------------------------------------
(***************************************************************************)
(* FE_GET_EVENT (dvb_frontend_get_event), which takes no semaphore.        *)
(***************************************************************************)
EventOnly == UNCHANGED <<mode, thread, exit, loop, flags>>

GetEventBegin(p) ==
  /\ At(p, "idle") /\ mode[p] = "rw" /\ "event" \in Uses[p]
  /\ \/ /\ events.overflow
        /\ events' = [events EXCEPT !.overflow = FALSE]
        /\ Go(p, "overflow")
     \/ /\ ~events.overflow /\ Empty(events)
        /\ \/ Go(p, "event_up")
           \/ UNCHANGED pc           \* O_NONBLOCK
        /\ UNCHANGED events
     \/ /\ ~events.overflow /\ ~Empty(events)
        /\ Go(p, "take")
        /\ UNCHANGED events
  /\ UNCHANGED <<sem, wp, lost>> /\ EventOnly

\* eventr = eventw, and -EOVERFLOW is returned.
GetEventOverflow(p) ==
  /\ At(p, "overflow")
  /\ events' = ClearEvents(events)
  /\ lost' = FALSE
  /\ Go(p, "idle")
  /\ UNCHANGED <<sem, wp>> /\ EventOnly

\* dvb_frontend_test_event, evaluated by wait_event_interruptible: up, test, down.
EventUp(p) ==
  /\ At(p, "event_up")
  /\ Up
  /\ Go(p, "event_test")
  /\ UNCHANGED <<queue>> /\ EventOnly

\* Mutant: the result of the test is lost.
EventTestPassed(p) ==
  /\ At(p, "event_test")
  /\ Go(p, "event_down")
  /\ UNCHANGED <<sem, queue>> /\ EventOnly

EventTest(p) ==
  /\ At(p, "event_test")
  /\ Go(p, IF Empty(events) THEN "event_again" ELSE "event_down")
  /\ UNCHANGED <<sem, queue>> /\ EventOnly

EventDown(p) ==
  /\ pc[p] \in {"event_down", "event_again"}
  /\ \/ Queue(p) /\ UNCHANGED pc
     \/ Down(p) /\ Go(p, IF At(p, "event_down") THEN "take" ELSE "asleep")
  /\ UNCHANGED <<queue>> /\ EventOnly

\* add_event wakes the sleeper, which tests again; or a signal ends the call.
EventWakes(p) ==
  /\ At(p, "asleep")
  /\ \/ ~Empty(events) /\ Go(p, "event_up")
     \/ Go(p, "idle")
  /\ UNCHANGED <<sem, queue>> /\ EventOnly

EventTake(p) ==
  /\ At(p, "take")
  /\ EventsUnlocked
  /\ events' = [events EXCEPT !.eventr = NextSlot(@)]
  /\ Go(p, "idle")
  /\ UNCHANGED <<sem, wp, lost>> /\ EventOnly

-----------------------------------------------------------------------------
(***************************************************************************)
(* The thread (neumo_dvb_frontend_thread).                                 *)
(***************************************************************************)
ThreadAt(from, to) == thr = from /\ thr' = to

\* It starts with the semaphore held and initialises the demod.
ThreadInit ==
  /\ ThreadAt("init", "up")
  /\ wakeup' = FALSE /\ reinitialise' = FALSE
  /\ UNCHANGED <<pc, mode, should_stop, sem, exit, state, queue, flags>>

ThreadUp ==
  /\ ThreadAt("up", "wait")
  /\ Up
  /\ UNCHANGED <<pc, mode, should_stop, exit, loop, queue, flags>>

\* The sleep ends by a condition or by its timeout; dvb_frontend_should_wakeup
\* resets wakeup.
ThreadWakes ==
  /\ thr \in {"wait", "restart"} /\ thr' = "check"
  /\ wakeup' = FALSE
  /\ UNCHANGED <<pc, mode, should_stop, sem, exit, state, reinitialise,
                 queue, flags>>

\* Mutant: only an explicit request ends the thread.
ExitsOnRequest == exit # "NO_EXIT"

\* neumo_dvb_frontend_is_exiting
IsExiting == exit # "NO_EXIT" \/ (NoWriter /\ shutdown_due)

ThreadChecks ==
  /\ thr = "check"
  /\ thr' = IF should_stop \/ IsExiting THEN "exit_down" ELSE "down"
  /\ UNCHANGED <<pc, mode, should_stop, sem, exit, loop, queue, flags>>

\* try_to_freeze, while the machine suspends: the processes are frozen first.
ThreadFreezes ==
  /\ Suspends
  /\ \A p \in Procs : At(p, "idle")
  /\ ~Queued(Kthread) /\ Kthread \notin sem.granted
  /\ ThreadAt("down", "frozen")
  /\ UNCHANGED <<pc, mode, should_stop, sem, exit, loop, queue, flags>>

\* goto restart: it sleeps again, and wakeup was reset before.
ThreadThaws ==
  /\ ThreadAt("frozen", "restart")
  /\ UNCHANGED <<pc, mode, should_stop, sem, exit, loop, queue, flags>>

ThreadDown ==
  /\ thr = "down"
  /\ \/ Queue(Kthread) /\ UNCHANGED thr
     \/ Down(Kthread) /\ thr' = "work"
  /\ UNCHANGED <<pc, mode, should_stop, exit, loop, queue, flags>>

\* The demod is initialised again if open has reset it ...
ThreadReinit ==
  /\ reinitialise
  /\ ThreadAt("work", "reinit")
  /\ UNCHANGED <<pc, mode, should_stop, sem, exit, state, wakeup, reinitialise,
                 queue, flags>>

\* ... and the request is cleared when this is done.
ThreadReinitDone ==
  /\ ThreadAt("reinit", "work")
  /\ reinitialise' = FALSE
  /\ UNCHANGED <<pc, mode, should_stop, sem, exit, state, wakeup, queue, flags>>

\* Mutant: the thread tunes again and again.
ThreadWorksRetunes ==
  /\ thr = "work" /\ ~reinitialise
  /\ thr' = CASE state \in {"IDLE", "DISEQC"} -> "up"
              [] state \in Jobs -> "drive_job"
              [] OTHER -> "drive_tune"
  /\ UNCHANGED <<pc, mode, should_stop, sem, exit, loop, queue, flags>>

\* hw_algo up to the call of the driver: ops.scan, ops.spectrum_start or ops.tune.
ThreadWorks ==
  /\ thr = "work" /\ ~reinitialise
  /\ thr' = CASE state \in {"IDLE", "DISEQC"} -> "up"
              [] state \in Jobs -> "drive_job"
              [] OTHER -> "drive_tune"
  /\ state' = IF state = "RETUNE" THEN "TUNED" ELSE state
  /\ UNCHANGED <<pc, mode, should_stop, sem, exit, wakeup, reinitialise,
                 queue, flags>>

\* hw_algo after the call: a job is over; an event is added if the status has
\* changed or a heartbeat was asked for.
DriverReturns ==
  /\ thr \in {"drive_job", "drive_tune"}
  /\ state' = IF thr = "drive_job" THEN "IDLE" ELSE state
  /\ \/ /\ thr' = "event"
        /\ AddEventBegin
     \/ /\ thr' = "up"
        /\ UNCHANGED queue
  /\ UNCHANGED <<pc, mode, should_stop, sem, exit, wakeup, reinitialise, flags>>

EventPublish ==
  /\ ThreadAt("event", "up")
  /\ AddEventEnd
  /\ UNCHANGED <<pc, mode, should_stop, sem, exit, loop, flags>>

ThreadExitDown ==
  /\ thr = "exit_down"
  /\ \/ Queue(Kthread) /\ UNCHANGED <<thr, exit>>
     \/ Down(Kthread) /\ thr' = "sleep" /\ exit' = "NORMAL_EXIT"
  /\ UNCHANGED <<pc, mode, should_stop, loop, queue, flags>>

\* The hardware is powered down; fepriv->thread = NULL.
ThreadSleeps ==
  /\ ThreadAt("sleep", "null")
  /\ exit' = IF should_stop THEN "DEVICE_REMOVED" ELSE "NO_EXIT"
  /\ UNCHANGED <<pc, mode, should_stop, sem, loop, queue, flags>>

ThreadEnds ==
  /\ ThreadAt("null", "none")
  /\ Up
  /\ should_stop' = FALSE /\ wakeup' = TRUE
  /\ UNCHANGED <<pc, mode, exit, state, reinitialise, queue, flags>>

\* neumo_dvb_frontend_resume, with the processes and the thread frozen.  Not every
\* suspend comes to this: it may be given up after the freeze, and not every bridge
\* driver calls it.
Resume ==
  /\ Suspends
  /\ \A p \in Procs : At(p, "idle")
  /\ thr \in {"none", "frozen"}
  /\ exit' = "NO_EXIT" /\ state' = "RETUNE" /\ wakeup' = TRUE
  /\ stopped' = FALSE
  /\ UNCHANGED <<pc, mode, thread, sem, reinitialise, queue,
                 shutdown_due>>

-----------------------------------------------------------------------------
\* A process starts a call ...
Call(p) ==
  \/ \E m \in {"ro", "rw"} : Open(p, m)
  \/ Ioctl(p) \/ StopTask(p) \/ GetEventBegin(p) \/ Close(p)

\* ... or goes on with it.
Continue(p) ==
  \/ StartFindsThread(p) \/ StartTestsExit(p) \/ Stop(p) \/ KthreadStop(p)
  \/ StopJoins(p) \/ StopInitialisesUsed(p) \/ StartDown(p) \/ StartRuns(p) \/ Opened(p)
  \/ IoctlDown(p) \/ IoctlRefused(p) \/ IoctlQuery(p)
  \/ SetFrontend(p) \/ StartJob(p) \/ RequestWakes(p) \/ RequestReturns(p)
  \/ TuneRefused(p) \/ Diseqc(p)
  \/ StopTaskDown(p) \/ StopTaskIdles(p) \/ StopTaskReturns(p)
  \/ CloseDown(p) \/ CloseIdles(p) \/ CloseReturns(p)
  \/ RestartClear(p) \/ RestartAdd(p) \/ RestartPublish(p)
  \/ GetEventOverflow(p) \/ EventUp(p) \/ EventTest(p) \/ EventDown(p) \/ EventTake(p)

ThreadStep ==
  \/ ThreadInit \/ ThreadUp \/ ThreadWakes \/ ThreadChecks
  \/ ThreadThaws \/ ThreadDown \/ ThreadReinit \/ ThreadReinitDone \/ ThreadWorks
  \/ DriverReturns \/ EventPublish
  \/ ThreadExitDown \/ ThreadSleeps \/ ThreadEnds

Next ==
  \/ \E p \in Procs : Call(p) \/ Continue(p) \/ StartInterrupted(p) \/ EventWakes(p)
  \/ ThreadStep \/ ThreadFreezes \/ ShutdownTimeout \/ Resume

\* A call that was made goes on, the thread's sleep times out, the driver returns.
\* The semaphore is handed over in order of arrival; strong fairness of a call is for
\* events->mtx, which a waiter gets although the thread takes it again and again.
Fairness ==
  /\ \A p \in Procs : SF_vars(Continue(p))
  /\ WF_vars(ThreadStep)
  /\ WF_vars(ShutdownTimeout)

Spec == Init /\ [][Next]_vars /\ Fairness

-----------------------------------------------------------------------------
\* The semaphore is taken as often as it was given back: apart from the calls of
\* FE_GET_EVENT that have lent it out, one actor at a time runs between a down and
\* its up, through the start of a thread, which inherits the semaphore, its end and
\* every early return (dvb_frontend_do_ioctl, neumo_dvb_frontend_start).
SemaphoreConserved ==
  sem.count + Cardinality(sem.granted) + Cardinality(Holders)
    = 1 + Cardinality(Borrowers)

\* After DTV_STOP has returned, and until something is asked for again, the loop is
\* idle and the driver is not at work (case DTV_STOP of the algo_ctrl ioctl).
StoppedMeansIdle ==
  stopped =>
    state \in {"IDLE", "DISEQC"} /\ thr \notin {"drive_job", "drive_tune"}

\* A thread that went to sleep after its work does not sleep on a request: the wake-up
\* that came with it is still there, or is about to come (neumo_dvb_frontend_wakeup,
\* dvb_frontend_should_wakeup).  The sleep after a freeze is excepted: the thread has
\* reset wakeup before try_to_freeze sent it back to sleep, and the request waits for
\* the timeout of that sleep.
RequestsWakeThread ==
  state \in Requested /\ thr = "wait" =>
    wakeup \/ \E p \in Procs : pc[p] \in Requesting

\* The event that FE_GET_EVENT has seen before it took events->mtx is still there when
\* it has it (dvb_frontend_get_event): requests, DTV_STOP, overflows and the thread
\* never take it away.  Only the close of another process can that has cleared the
\* queue and not yet added its own event (neumo_dvb_frontend_release), made after the
\* device was opened again.
TakesQueuedEvents ==
  \A p \in Procs :
    At(p, "take") /\ EventsUnlocked /\ Empty(events) =>
      \E q \in Procs \ {p} : At(q, "release_add")

\* An event that was dropped is reported by FE_GET_EVENT (-EOVERFLOW).
LossIsReported ==
  lost => events.overflow \/ \E p \in Procs : At(p, "overflow")


\* What was asked for is begun, as long as there is a thread.
RequestsAreServed ==
  (state \in Requested /\ HasThread) ~> (state \notin Requested \/ ~HasThread)

\* When nobody has the device open for writing any more, the thread ends or somebody
\* opens it again.
CloseEndsThread == NoWriter ~> (thr = "none" \/ ~NoWriter)

\* "This thread is started when a frontend device is opened": whoever has the device
\* open for writing has a thread that does not end.
OpenHasThread ==
  \A p \in Procs :
    mode[p] = "rw" /\ pc[p] \notin Opening =>
      HasThread /\ thr \notin {"exit_down", "sleep"}
=============================================================================
