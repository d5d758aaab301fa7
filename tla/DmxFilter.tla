----------------------------- MODULE DmxFilter -----------------------------
(***************************************************************************)
(* One filter of a demux device with its ring buffer                       *)
(* (src/neumo/dvb-core/neumo-dmxdev.c on top of dvb_ringbuffer.c).         *)
(*                                                                         *)
(* Four threads of control meet here: the demux, which delivers sections   *)
(* or packets through a callback (under demux->lock, so one at a time);    *)
(* the timer of a section filter; a process that reads; and a process that *)
(* starts, stops, configures or closes the filter.  The last two exclude   *)
(* each other by dmxdevfilter->mutex.  The callback and the reader share   *)
(* the ring buffer without a lock: each copies bytes and then moves its    *)
(* own pointer, and here copying and moving are steps of their own.        *)
(*                                                                         *)
(* The bytes of the stream are numbered, modulo Numbers, so that a gap or  *)
(* a byte delivered twice shows.  A filter of type pes has its output in   *)
(* its own buffer (DMX_OUT_TAP, DMX_OUT_TSDEMUX_TAP).  The demux passes    *)
(* its data in one part: the second buffer of a callback is always empty.  *)
(***************************************************************************)
EXTENDS Integers, Sequences, FiniteSets

CONSTANTS
  Sizes,        \* sizes of the ring buffer an application may ask for
  DefaultSize,  \* the size after open (8192 in neumo_dvb_demux_open)
  Numbers,      \* bytes of the stream are numbered 0 .. Numbers-1
  Lengths,      \* lengths of what the demux passes to a callback
  Counts,       \* counts passed to read()
  Params,       \* filters an application may set
  MaxPids,      \* bound: pids of one filter, and streams that serve it
  MayFail,      \* the types of filters whose feeds the demux may refuse to start
  None          \* no byte, no buffer, no error

ASSUME ConstantsAssumption ==
  /\ Sizes \subseteq Nat \ {0} /\ DefaultSize \in Sizes
  /\ Numbers \in Nat \ {0} /\ MaxPids \in Nat \ {0}
  /\ Lengths \subseteq Nat \ {0} /\ Counts \subseteq Nat
  /\ Params \subseteq [type : {"sec", "pes"}, timeout : BOOLEAN, oneshot : BOOLEAN]
  /\ \A p \in Params : p.type = "pes" => ~p.timeout /\ ~p.oneshot
  /\ MayFail \subseteq {"sec", "pes"}
  /\ None \notin 0..(Numbers - 1) /\ None \notin {"overflow", "timedout"}
  /\ \A s \in Sizes : None \notin [0..(s - 1) -> 0..(Numbers - 1) \cup {None}]

VARIABLES
  state, params,                      \* of struct neumo_dmxdev_filter
  data, size, pread, pwrite, error,   \* its struct dvb_ringbuffer
  pids,      \* number of pids on feed.dmxdev_feed_list
  listed,    \* how many feeds of the filter the next stop will find
  streams,   \* how many feeds call back for this filter
  timer,     \* "off", "armed", or "running" while its handler runs
  lock,      \* dmxdev->lock is held by the callback
  cb,        \* the callback in progress
  rd,        \* the read in progress
  asleep,    \* the reader sleeps on buffer.queue
  io,        \* the ioctl or close in progress
  arriving,  \* the number of the next byte of the stream
  last       \* the last byte that left the buffer since it was flushed

ring == <<data, size, pread, pwrite, error>>
feeds == <<pids, listed, streams>>
vars == <<state, params, data, size, pread, pwrite, error, pids, listed, streams,
          timer, lock, cb, rd, asleep, io, arriving, last>>

Idle == [at |-> "idle"]
NoParams == [type |-> "none", timeout |-> FALSE, oneshot |-> FALSE]
Byte == 0..(Numbers - 1)

\* state >= DMXDEV_STATE_GO
Running == state \in {"go", "done", "timedout"}

TypeOK ==
  /\ state \in {"free", "allocated", "set", "go", "done", "timedout"}
  /\ params \in Params \cup {NoParams}
  /\ size \in Sizes
  /\ data \in [0..(size - 1) -> Byte \cup {None}] \cup {None}
  /\ pread \in 0..(size - 1) /\ pwrite \in 0..(size - 1)
  /\ error \in {None, "overflow", "timedout"}
  /\ pids \in 0..MaxPids /\ streams \in 0..MaxPids /\ listed \in 0..streams
  /\ lock \in BOOLEAN /\ asleep \in BOOLEAN
  /\ timer \in {"off", "armed", "running"}
  /\ cb.at \in {"idle", "lock", "timer", "check", "copy", "publish", "finish"}
  /\ rd.at \in {"idle", "first", "wait", "test", "avail", "copy", "publish",
                "flush", "clear"}
  /\ io.at \in {"idle", "stop_state", "stop_timer", "stop_feed", "flush", "after",
                "start_feed", "arm", "go"}
  /\ arriving \in Byte /\ last \in Byte \cup {None}

Init ==
  /\ state = "free" /\ params = NoParams
  /\ data = None /\ size = DefaultSize /\ pread = 0 /\ pwrite = 0 /\ error = None
  /\ pids = 0 /\ listed = 0 /\ streams = 0
  /\ timer = "off" /\ lock = FALSE
  /\ cb = Idle /\ rd = Idle /\ asleep = FALSE /\ io = Idle
  /\ arriving = 0 /\ last = None

-----------------------------------------------------------------------------
(***************************************************************************)
(* dvb_ringbuffer.c                                                        *)
(***************************************************************************)

Empty == pread = pwrite
Avail == LET n == pwrite - pread IN IF n < 0 THEN n + size ELSE n
\* Mutant: the buffer may be filled completely.
FreeBytesAll == LET n == pread - pwrite IN IF n <= 0 THEN n + size ELSE n
FreeBytes == LET n == pread - pwrite IN (IF n <= 0 THEN n + size ELSE n) - 1

\* How much dvb_ringbuffer_read_user and dvb_ringbuffer_write move before the
\* buffer wraps around.
Chunk(p, n) == IF p + n > size THEN size - p ELSE n

Stream(b, i) == (b + i) % Numbers
Memory(s) == [i \in 0..(s - 1) |-> None]

dvb_ringbuffer_flush == pread' = pwrite /\ error' = None /\ last' = None

-----------------------------------------------------------------------------
(***************************************************************************)
(* The demux: dvb_dmxdev_section_callback and dvb_dmxdev_pid_callback.     *)
(***************************************************************************)

\* Packets passed to the callback and not stored are lost to the stream.  (The
\* sections that are dropped because the filter does not run are not numbered.)
Discard(n) == arriving' = Stream(arriving, n)
WakeUp == asleep' = FALSE

CallbackBegin(len) ==
  /\ streams > 0 /\ cb = Idle
  /\ \/ /\ params.type = "sec" /\ error # None
        /\ WakeUp
        /\ UNCHANGED <<cb, arriving>>
     \/ /\ params.type # "sec" \/ error = None
        /\ cb' = [at |-> "lock", len |-> len, moved |-> 0, full |-> FALSE]
        /\ UNCHANGED <<arriving, asleep>>
  /\ UNCHANGED <<state, params, ring, feeds, timer, lock, rd, io, last>>

\* A section is dropped unless the filter is running, a packet if an error is
\* pending.
CallbackLock ==
  /\ cb.at = "lock" /\ ~lock
  /\ \/ /\ params.type = "sec" /\ state # "go"
        /\ cb' = Idle
        /\ UNCHANGED <<lock, asleep, arriving>>
     \/ /\ params.type # "sec" /\ error # None
        /\ cb' = Idle /\ Discard(cb.len) /\ WakeUp
        /\ UNCHANGED lock
     \/ /\ IF params.type = "sec" THEN state = "go" ELSE error = None
        /\ cb' = [cb EXCEPT !.at = IF params.type = "sec" THEN "timer" ELSE "check"]
        /\ lock' = TRUE
        /\ UNCHANGED <<arriving, asleep>>
  /\ UNCHANGED <<state, params, ring, feeds, timer, rd, io, last>>

\* timer_delete_sync waits for a handler that runs.
CallbackDeleteTimer ==
  /\ cb.at = "timer" /\ timer # "running"
  /\ timer' = "off"
  /\ cb' = [cb EXCEPT !.at = "check"]
  /\ UNCHANGED <<state, params, ring, feeds, lock, rd, asleep, io, arriving, last>>

\* dvb_dmxdev_buffer_write: all or nothing
CallbackCheck ==
  /\ cb.at = "check"
  /\ cb' = IF data = None THEN [cb EXCEPT !.at = "finish"]
           ELSE IF cb.len > FreeBytes THEN [cb EXCEPT !.at = "finish", !.full = TRUE]
           ELSE [cb EXCEPT !.at = "copy"]
  /\ UNCHANGED <<state, params, ring, feeds, timer, lock, rd, asleep, io, arriving, last>>

\* dvb_ringbuffer_write: copy up to the end of the memory ...
CallbackCopy ==
  LET n == Chunk(pwrite, cb.len)
  IN  /\ cb.at = "copy"
      /\ data' = [i \in DOMAIN data |-> IF i \in pwrite..(pwrite + n - 1)
                                          THEN Stream(arriving, i - pwrite) ELSE data[i]]
      /\ arriving' = Stream(arriving, n)
      /\ cb' = [cb EXCEPT !.at = "publish", !.len = @ - n, !.moved = n]
      /\ UNCHANGED <<state, params, size, pread, pwrite, error, feeds, timer, lock,
                     rd, asleep, io, last>>

\* Mutant: pwrite does not wrap around.
CallbackPublishStraight ==
  /\ cb.at = "publish"
  /\ pwrite' = pwrite + cb.moved
  /\ cb' = [cb EXCEPT !.at = IF cb.len > 0 THEN "copy" ELSE "finish", !.moved = 0]
  /\ UNCHANGED <<state, params, data, size, pread, error, feeds, timer, lock, rd,
                 asleep, io, arriving, last>>

\* ... then move pwrite, and go on with what is left
CallbackPublish ==
  /\ cb.at = "publish"
  /\ pwrite' = (pwrite + cb.moved) % size
  /\ cb' = [cb EXCEPT !.at = IF cb.len > 0 THEN "copy" ELSE "finish", !.moved = 0]
  /\ UNCHANGED <<state, params, data, size, pread, error, feeds, timer, lock, rd,
                 asleep, io, arriving, last>>

\* Mutant: nobody is woken up.
CallbackFinishSilent ==
  /\ cb.at = "finish"
  /\ error' = IF cb.full THEN "overflow" ELSE error
  /\ state' = IF params.oneshot THEN "done" ELSE state
  /\ Discard(cb.len)
  /\ lock' = FALSE
  /\ cb' = Idle
  /\ UNCHANGED <<params, data, size, pread, pwrite, feeds, timer, rd, asleep, io, last>>

CallbackFinish ==
  /\ cb.at = "finish"
  /\ error' = IF cb.full THEN "overflow" ELSE error
  /\ state' = IF params.oneshot THEN "done" ELSE state
  /\ Discard(cb.len)
  /\ lock' = FALSE
  /\ cb' = Idle
  /\ WakeUp
  /\ UNCHANGED <<params, data, size, pread, pwrite, feeds, timer, rd, io, last>>

-----------------------------------------------------------------------------
(***************************************************************************)
(* dvb_dmxdev_filter_timeout: the error is set before the lock is taken.   *)
(***************************************************************************)

TimerFires ==
  /\ timer = "armed"
  /\ timer' = "running"
  /\ error' = "timedout"
  /\ UNCHANGED <<state, params, data, size, pread, pwrite, feeds, lock, cb, rd, asleep,
                 io, arriving, last>>

TimerFinishes ==
  /\ timer = "running" /\ ~lock
  /\ state' = "timedout"
  /\ timer' = "off"
  /\ WakeUp
  /\ UNCHANGED <<params, ring, feeds, lock, cb, rd, io, arriving, last>>

-----------------------------------------------------------------------------
(***************************************************************************)
(* dvb_dmxdev_buffer_read.  todo is what is still to be read by this call, *)
(* n what the current round will deliver.  (A read of a section filter is  *)
(* one or two of these calls, for the header and for the rest of the       *)
(* section; their counts are members of Counts like any other.)            *)
(***************************************************************************)

\* Mutant: a read does not take the mutex.
NoReadMutex == io = Idle
Unlocked == rd = Idle /\ io = Idle    \* dmxdevfilter->mutex
ReadReturns == rd' = Idle

ReadBegin(count, nonblock) ==
  /\ Unlocked /\ state # "free" /\ data # None
  /\ rd' = [at |-> "first", todo |-> count, n |-> 0, buf |-> <<>>,
            nonblock |-> nonblock]
  /\ UNCHANGED <<state, params, ring, feeds, timer, lock, cb, asleep, io, arriving, last>>

\* the test of error before and in the loop
ReadTest ==
  /\ rd.at \in {"first", "test"}
  /\ rd' = IF error # None THEN [rd EXCEPT !.at = "flush"]
           ELSE IF rd.at = "test" THEN [rd EXCEPT !.at = "avail"]
           ELSE IF rd.todo = 0 THEN Idle ELSE [rd EXCEPT !.at = "wait"]
  /\ UNCHANGED <<state, params, ring, feeds, timer, lock, cb, asleep, io, arriving, last>>

\* wait_event_interruptible: no wake up is lost between the test and the sleep
ReadWait ==
  /\ rd.at = "wait" /\ ~asleep
  /\ \/ /\ Empty /\ rd.nonblock
        /\ ReadReturns /\ UNCHANGED asleep
     \/ /\ ~Empty \/ (error # None /\ ~rd.nonblock)
        /\ rd' = [rd EXCEPT !.at = "test"] /\ UNCHANGED asleep
     \/ /\ Empty /\ error = None /\ ~rd.nonblock
        /\ asleep' = TRUE /\ UNCHANGED rd
  /\ UNCHANGED <<state, params, ring, feeds, timer, lock, cb, io, arriving, last>>

\* a signal ends the wait
ReadInterrupted ==
  /\ rd.at = "wait" /\ asleep
  /\ asleep' = FALSE
  /\ ReadReturns
  /\ UNCHANGED <<state, params, ring, feeds, timer, lock, cb, io, arriving, last>>

ReadAvail ==
  /\ rd.at = "avail"
  /\ rd' = [rd EXCEPT !.at = "copy", !.n = IF Avail > rd.todo THEN rd.todo ELSE Avail]
  /\ UNCHANGED <<state, params, ring, feeds, timer, lock, cb, asleep, io, arriving, last>>

\* dvb_ringbuffer_read_user: copy up to the end of the memory ...
ReadCopy ==
  LET m == Chunk(pread, rd.n)
  IN  /\ rd.at = "copy"
      /\ rd' = [rd EXCEPT !.at = "publish",
                          !.buf = [i \in 1..m |-> data[pread + i - 1]]]
      /\ UNCHANGED <<state, params, ring, feeds, timer, lock, cb, asleep, io, arriving,
                     last>>

\* ... then move pread; go on if the buffer wrapped, wait again if the caller
\* asked for more
ReadPublish ==
  LET m == Len(rd.buf)
  IN  /\ rd.at = "publish"
      /\ pread' = (pread + m) % size
      /\ last' = IF m = 0 THEN last ELSE rd.buf[m]
      /\ rd' = IF rd.todo = m THEN Idle
               ELSE [rd EXCEPT !.at = IF rd.n > m THEN "copy" ELSE "wait",
                               !.n = @ - m, !.todo = @ - m, !.buf = <<>>]
      /\ UNCHANGED <<state, params, data, size, pwrite, error, feeds, timer, lock, cb,
                     asleep, io, arriving>>

\* copy_to_user fails: the call ends, pread stays behind what was published
ReadFaults ==
  /\ rd.at = "copy"
  /\ ReadReturns
  /\ UNCHANGED <<state, params, ring, feeds, timer, lock, cb, asleep, io, arriving, last>>

\* dvb_ringbuffer_flush, its two assignments
ReadFlush ==
  /\ rd.at = "flush"
  /\ pread' = pwrite
  /\ last' = None
  /\ rd' = [rd EXCEPT !.at = "clear"]
  /\ UNCHANGED <<state, params, data, size, pwrite, error, feeds, timer, lock, cb,
                 asleep, io, arriving>>

ReadClear ==
  /\ rd.at = "clear"
  /\ error' = None
  /\ ReadReturns
  /\ UNCHANGED <<state, params, data, size, pread, pwrite, feeds, timer, lock, cb,
                 asleep, io, arriving, last>>

-----------------------------------------------------------------------------
(***************************************************************************)
(* open, the ioctls that change the filter, and close.  DMX_SET_FILTER,    *)
(* DMX_START and close begin with dvb_dmxdev_filter_stop.                  *)
(***************************************************************************)

\* neumo_dvb_demux_open; dvb_ringbuffer_init
Open ==
  /\ Unlocked /\ state = "free"
  /\ state' = "allocated"
  /\ data' = None /\ size' = DefaultSize /\ pread' = 0 /\ pwrite' = 0 /\ error' = None
  /\ UNCHANGED <<params, feeds, timer, lock, cb, rd, asleep, io, arriving, last>>

\* dvb_dmxdev_set_buffer_size: new memory with arbitrary contents
SetBufferSize(s) ==
  /\ Unlocked /\ state \in {"allocated", "set"} /\ s # size
  /\ ~lock
  /\ data' = Memory(s) /\ size' = s
  /\ pread' = 0 /\ pwrite' = 0 /\ error' = None /\ last' = None
  /\ UNCHANGED <<state, params, feeds, timer, lock, cb, rd, asleep, io, arriving>>

IoGoto(step) == io' = [io EXCEPT !.at = step]

\* dvb_dmxdev_filter_stop does nothing unless the filter runs, and only flushes
\* a section filter whose feed is gone.
IoBegin(op, p, immediate) ==
  /\ io' = [op |-> op, p |-> p, immediate |-> immediate,
            at |-> IF ~Running THEN "after"
                   ELSE IF params.type = "sec" /\ listed = 0 THEN "flush"
                   ELSE "stop_state"]
  /\ UNCHANGED <<state, params, ring, feeds, timer, lock, cb, rd, asleep, arriving, last>>

Stop == Unlocked /\ state # "free" /\ IoBegin("stop", NoParams, FALSE)
Close == Unlocked /\ state # "free" /\ IoBegin("close", NoParams, FALSE)
Start == Unlocked /\ (state = "set" \/ Running) /\ IoBegin("start", NoParams, FALSE)

\* One file is used for one type of filter: feed.sec and feed.dmxdev_feed_list
\* are a union, and changing the type is not modelled.
SetFilter(p, immediate) ==
  /\ Unlocked /\ state # "free"
  /\ params.type \in {"none", p.type}
  /\ IoBegin("set", p, immediate)

\* dvb_dmxdev_feed_stop
StopState ==
  /\ io.at = "stop_state" /\ ~lock
  /\ state' = "set"
  /\ IoGoto(IF params.type = "sec" THEN "stop_timer" ELSE "stop_feed")
  /\ UNCHANGED <<params, ring, feeds, timer, lock, cb, rd, asleep, arriving, last>>

\* Mutant: the timer stays.
StopTimerNot ==
  /\ io.at = "stop_timer"
  /\ IoGoto("stop_feed")
  /\ UNCHANGED <<state, params, ring, feeds, timer, lock, cb, rd, asleep, arriving, last>>

StopTimer ==
  /\ io.at = "stop_timer" /\ timer # "running"
  /\ timer' = "off"
  /\ IoGoto("stop_feed")
  /\ UNCHANGED <<state, params, ring, feeds, lock, cb, rd, asleep, arriving, last>>

\* dvb_dmxdev_feed_restart looks for a filter that runs with the pid of the one being
\* stopped, and finds that filter itself when its timer has expired after StopState:
\* dvb_dmxdev_feed_start marks it as running, and cannot start a feed whose section
\* filter was released before.
Restarted == params.type = "sec" /\ state = "timedout"

\* Mutant: demux->lock is not taken.
StopFeedUnlocked ==
  /\ io.at = "stop_feed"
  /\ IF listed > 0 THEN listed' = listed - 1 /\ streams' = streams - 1
                   ELSE UNCHANGED <<listed, streams>>
  /\ state' = IF Restarted THEN "go" ELSE state
  /\ IoGoto(IF listed > 1 THEN "stop_feed" ELSE "flush")
  /\ UNCHANGED <<params, ring, pids, timer, lock, cb, rd, asleep, arriving, last>>

\* stop_filtering of one feed after the other; it takes demux->lock and so waits
\* for a callback
StopFeed ==
  /\ io.at = "stop_feed"
  /\ listed > 0 => cb = Idle
  /\ IF listed > 0 THEN listed' = listed - 1 /\ streams' = streams - 1
                   ELSE UNCHANGED <<listed, streams>>
  /\ state' = IF Restarted THEN "go" ELSE state
  /\ IoGoto(IF listed > 1 THEN "stop_feed" ELSE "flush")
  /\ UNCHANGED <<params, ring, pids, timer, lock, cb, rd, asleep, arriving, last>>

StopFlush ==
  /\ io.at = "flush"
  /\ dvb_ringbuffer_flush
  /\ IoGoto("after")
  /\ UNCHANGED <<state, params, data, size, pwrite, feeds, timer, lock, cb, rd, asleep,
                 arriving>>

StopReturns ==
  /\ io.at = "after" /\ io.op = "stop"
  /\ io' = Idle
  /\ UNCHANGED <<state, params, ring, feeds, timer, lock, cb, rd, asleep, arriving, last>>

\* dvb_dmxdev_filter_free
Free ==
  /\ io.at = "after" /\ io.op = "close" /\ ~lock
  /\ data' = None
  /\ state' = "free" /\ params' = NoParams
  /\ pids' = 0 /\ listed' = 0
  /\ io' = Idle
  /\ WakeUp
  /\ UNCHANGED <<size, pread, pwrite, error, streams, timer, lock, cb, rd, arriving, last>>

\* dvb_dmxdev_section_filter_set, dvb_dmxdev_pes_filter_set
FilterSet ==
  /\ io.at = "after" /\ io.op = "set" /\ ~lock
  /\ params' = io.p /\ state' = "set"
  /\ pids' = IF io.p.type = "pes" THEN 1 ELSE 0
  /\ listed' = 0
  /\ io' = IF io.immediate THEN [io EXCEPT !.op = "start"] ELSE Idle
  /\ UNCHANGED <<ring, streams, timer, lock, cb, rd, asleep, arriving, last>>

\* dvb_dmxdev_filter_start: memory on the first start, then the feeds
StartPrepare ==
  /\ io.at = "after" /\ io.op = "start" /\ ~lock
  /\ data' = IF data = None THEN Memory(size) ELSE data
  /\ dvb_ringbuffer_flush
  /\ listed' = 0
  /\ IoGoto("start_feed")
  /\ UNCHANGED <<state, params, size, pwrite, pids, streams, timer, lock, cb, rd, asleep,
                 arriving>>

Wanted == IF params.type = "sec" THEN 1 ELSE pids

StartFeed ==
  /\ io.at = "start_feed" /\ listed < Wanted /\ streams < MaxPids
  /\ cb = Idle
  /\ streams' = streams + 1 /\ listed' = listed + 1
  /\ IoGoto(IF listed + 1 < Wanted THEN "start_feed"
            ELSE IF params.type = "sec" THEN "arm" ELSE "go")
  /\ UNCHANGED <<state, params, ring, pids, timer, lock, cb, rd, asleep, arriving, last>>

\* Without pids there is nothing to start.
StartNothing ==
  /\ io.at = "start_feed" /\ Wanted = 0
  /\ IoGoto("go")
  /\ UNCHANGED <<state, params, ring, feeds, timer, lock, cb, rd, asleep, arriving, last>>

\* A feed cannot be started.  The call to dvb_dmxdev_filter_stop returns at
\* once, because the state is still "set".  (The stream that the pid keeps pointing to
\* when start_filtering fails is not modelled.)
StartFails ==
  /\ io.at = "start_feed" /\ listed < Wanted /\ params.type \in MayFail
  /\ io' = Idle
  /\ UNCHANGED <<state, params, ring, feeds, timer, lock, cb, rd, asleep, arriving, last>>

\* dvb_dmxdev_filter_timer
StartTimer ==
  /\ io.at = "arm" /\ timer # "running"
  /\ timer' = IF params.timeout THEN "armed" ELSE "off"
  /\ IoGoto("go")
  /\ UNCHANGED <<state, params, ring, feeds, lock, cb, rd, asleep, arriving, last>>

StartDone ==
  /\ io.at = "go" /\ ~lock
  /\ state' = "go"
  /\ io' = Idle
  /\ UNCHANGED <<params, ring, feeds, timer, lock, cb, rd, asleep, arriving, last>>

\* dvb_dmxdev_add_pid; a running filter gets the new pid at once (a pid that
\* cannot be started at this point is not modelled)
AddPid ==
  /\ Unlocked /\ params.type = "pes" /\ pids < MaxPids
  /\ pids' = pids + 1
  /\ IF Running THEN /\ streams < MaxPids /\ cb = Idle
                     /\ streams' = streams + 1 /\ listed' = listed + 1
                ELSE UNCHANGED <<streams, listed>>
  /\ UNCHANGED <<state, params, ring, timer, lock, cb, rd, asleep, io, arriving, last>>

\* dvb_dmxdev_remove_pid finds only pids that have a feed
RemovePid ==
  /\ Unlocked /\ params.type = "pes" /\ listed > 0
  /\ cb = Idle
  /\ pids' = pids - 1 /\ streams' = streams - 1 /\ listed' = listed - 1
  /\ UNCHANGED <<state, params, ring, timer, lock, cb, rd, asleep, io, arriving, last>>

-----------------------------------------------------------------------------
DemuxSteps == CallbackLock \/ CallbackDeleteTimer \/ CallbackCheck \/ CallbackCopy
              \/ CallbackPublish \/ CallbackFinish
ReadSteps == ReadTest \/ ReadWait \/ ReadAvail \/ ReadCopy \/ ReadPublish \/ ReadFlush
             \/ ReadClear
IoctlSteps == StopState \/ StopTimer \/ StopFeed \/ StopFlush \/ StopReturns \/ Free
              \/ FilterSet \/ StartPrepare \/ StartFeed \/ StartNothing \/ StartFails
              \/ StartTimer \/ StartDone

Next ==
  \/ \E len \in Lengths : CallbackBegin(len)
  \/ DemuxSteps
  \/ TimerFires \/ TimerFinishes
  \/ \E count \in Counts, nonblock \in BOOLEAN : ReadBegin(count, nonblock)
  \/ ReadSteps \/ ReadInterrupted \/ ReadFaults
  \/ Open \/ Stop \/ Close \/ Start \/ AddPid \/ RemovePid
  \/ \E s \in Sizes : SetBufferSize(s)
  \/ \E p \in Params, immediate \in BOOLEAN : SetFilter(p, immediate)
  \/ IoctlSteps

\* A callback, a timer handler, a read or an ioctl that can go on does so, and
\* timers expire.  Nothing makes the demux deliver, a process call or a signal
\* arrive.
Fairness ==
  /\ WF_vars(DemuxSteps)
  /\ WF_vars(TimerFires) /\ WF_vars(TimerFinishes)
  /\ WF_vars(ReadSteps)
  /\ WF_vars(IoctlSteps)

Spec == Init /\ [][Next]_vars /\ Fairness

-----------------------------------------------------------------------------
(***************************************************************************)
(* Properties.                                                             *)
(***************************************************************************)

\* What a read takes out of the buffer is what the demux put in, without a gap,
\* a repetition or bytes never written, although dvb_ringbuffer_write and
\* dvb_ringbuffer_read_user share the memory and the pointers without a lock,
\* wrap around, and meet errors, flushes and changes of the buffer size.
DeliveredInOrder ==
  rd.at = "publish" =>
    \A i \in DOMAIN rd.buf :
      /\ rd.buf[i] # None
      /\ IF i = 1 THEN last = None \/ rd.buf[1] = Stream(last, 1)
                  ELSE rd.buf[i] = Stream(rd.buf[i - 1], 1)

\* dvb_dmxdev_set_buffer_size and dvb_dmxdev_filter_free never take the memory
\* away from a callback or a read that is using it.
MemoryOutlivesItsUsers ==
  [][(size' # size \/ (data # None /\ data' = None))
       => rd = Idle /\ cb.at \notin {"copy", "publish"}]_vars

\* enum neumo_dmxdev_state: only the states from DMXDEV_STATE_GO on stand for a
\* filter that runs.  Before them, once the call that led there has returned,
\* nothing calls back, no timer is pending and the buffer is empty: whatever a
\* callback or the timer was doing when dvb_dmxdev_filter_stop came.
StoppedFilterIsQuiet ==
  (io = Idle /\ state \in {"free", "allocated", "set"}) =>
    streams = 0 /\ cb = Idle /\ timer = "off" /\ Empty /\ error = None

\* A process that sleeps in read() is woken once there are bytes for it.
DataWakesReader == (asleep /\ ~Empty) ~> ~asleep

\* struct dmx_sct_filter_params: "@timeout: maximum time to filter, in
\* milliseconds."  A process that waits for a section while the timer of its
\* filter is pending does not wait for ever.
TimeoutEndsRead == (asleep /\ timer = "armed") ~> ~asleep

=============================================================================
