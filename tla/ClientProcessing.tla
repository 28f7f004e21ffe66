-------------------------- MODULE ClientProcessing --------------------------
(***************************************************************************)
(* The client's media processing (client_processing/): its life cycle, which *)
(* one owner drives (client_processing.c), and the bounded queues of video   *)
(* and audio frames (core/client_processing_queues.c) that the capture       *)
(* threads fill and a consumer empties, each under its own mutex.            *)
(*                                                                          *)
(* A queue is a ring of slots over a ring of bytes.  A byte of the storage   *)
(* is modelled by the frame it belongs to.  The state is an atomic that is   *)
(* read inside the mutex and written outside.                                *)
(***************************************************************************)
EXTENDS Integers, Sequences, FiniteSets, SequencesExt

CONSTANTS
  CpCapacity,   \* frame_queue_capacity and queue_capacity
  CpMaxBytes,   \* frame_queue_max_bytes and queue_max_bytes
  CpMaxSpan,    \* frame_queue_max_duration_us and queue_max_duration_us
  CpTimeMax,    \* UINT64_MAX
  CpBytesPerUs, \* what the format of the audio samples makes of a microsecond
  CpMaxFrames   \* bound: frames that the capture devices deliver

ASSUME CpConstants == {CpCapacity, CpMaxBytes, CpMaxSpan, CpTimeMax, CpBytesPerUs} \subseteq Nat \ {0}

CpQueues == {"video", "audio"}

(* TURBO_CLIENT_PROCESSING_CAPTURE_BLOCKERS *)
CpBlockers == {"PERMISSION_REVOKED", "CAPTURE_LOST", "BACKGROUND_DENIED"}

VARIABLES
  cp,       \* [state, flags, audio_configured, file_plan_set, file_prepared]
  cpQueue,  \* the two queues
  cpMutex,  \* the frame that holds the mutex of a queue for its admission, or CpFree
  cpOwner,  \* where the owner is inside drain or run_file; "idle" between calls,
            \* "drained" once a drain has finished
  cpIn,     \* the frames of a queue that were admitted and not taken, in order
  cpCount   \* how many frames the devices have delivered

cpVars == <<cp, cpQueue, cpMutex, cpOwner, cpIn, cpCount>>

CpNoSlot == [offset |-> 0, size |-> 0, timestamp |-> 0, duration |-> 0]
CpFree == [id |-> 0, size |-> 0, timestamp |-> 0]

CpEmpty ==
  [slots |-> [i \in 0 .. CpCapacity - 1 |-> CpNoSlot], storage |-> [i \in 0 .. CpMaxBytes - 1 |-> 0],
   head |-> 0, tail |-> 0, frames |-> 0, bytes |-> 0, span |-> 0]

-----------------------------------------------------------------------------
(* The queues *)

CpLast(q) == q.slots[(q.head + q.frames - 1) % CpCapacity]

(* Video frames count with their time stamps only; audio with its samples,  *)
(* rounded up.                                                              *)
audio_payload_duration_us(k, size) ==
  IF k = "video" THEN 0 ELSE (size + CpBytesPerUs - 1) \div CpBytesPerUs

CpSpan(q, end) == end - (IF q.frames = 0 THEN end ELSE q.slots[q.head].timestamp)

(* queue_recompute_duration_locked and audio_recompute_duration_locked *)
recompute_duration_locked(q) ==
  [q EXCEPT !.span = IF q.frames = 0 THEN 0 ELSE CpSpan(q, CpLast(q).timestamp + CpLast(q).duration)]

CpOldest(q, f) == IF q.frames = 0 THEN f.timestamp ELSE q.slots[q.head].timestamp

CpProspective(k, q, f) == f.timestamp + audio_payload_duration_us(k, f.size) - CpOldest(q, f)

(* Mutant: the bytes that are queued already are not counted. *)
CpFits_bytes(k, q, f) ==
  /\ q.frames < CpCapacity
  /\ f.size <= CpMaxBytes
  /\ audio_payload_duration_us(k, f.size) <= CpTimeMax - f.timestamp
  /\ q.frames # 0 => f.timestamp >= CpLast(q).timestamp
  /\ CpProspective(k, q, f) <= CpMaxSpan

(* Every bound of the queue, and time stamps that do not go back. *)
CpFits(k, q, f) ==
  /\ q.frames < CpCapacity
  /\ f.size <= CpMaxBytes - q.bytes
  /\ audio_payload_duration_us(k, f.size) <= CpTimeMax - f.timestamp
  /\ q.frames # 0 => f.timestamp >= CpLast(q).timestamp
  /\ CpProspective(k, q, f) <= CpMaxSpan

CpRegion(offset, size) == {(offset + i) % CpMaxBytes : i \in 0 .. size - 1}

CpPushed(k, q, f) ==
  [q EXCEPT
     !.storage = [i \in DOMAIN @ |-> IF i \in CpRegion(q.tail, f.size) THEN f.id ELSE @[i]],
     !.slots[(q.head + q.frames) % CpCapacity] =
        [offset |-> q.tail, size |-> f.size, timestamp |-> f.timestamp,
         duration |-> audio_payload_duration_us(k, f.size)],
     !.tail = (@ + f.size) % CpMaxBytes,
     !.frames = @ + 1, !.bytes = @ + f.size, !.span = CpProspective(k, q, f)]

(* An emptied queue begins again at the start of its rings. *)
CpPopped(q) ==
  LET left == q.frames - 1
  IN  recompute_duration_locked(
        [q EXCEPT !.bytes = @ - q.slots[q.head].size, !.slots[q.head] = CpNoSlot, !.frames = left,
                  !.head = IF left = 0 THEN 0 ELSE (@ + 1) % CpCapacity,
                  !.tail = IF left = 0 THEN 0 ELSE @])

-----------------------------------------------------------------------------
(* The capture threads and the consumer *)

CpConfigured(k) == k = "audio" => cp.audio_configured

CpLocked(k) == cpMutex[k] # CpFree

CpAlive == cp.state # "DESTROYED"

(* admit_video_frame and admit_audio_frame up to the check of the state,    *)
(* which is made inside the mutex; a refused frame is only counted.         *)
CpAdmitEnter(k, size, ts) ==
  /\ CpAlive /\ cpCount < CpMaxFrames /\ ~CpLocked(k)
  /\ CpConfigured(k) /\ cp.state = "RUNNING"
  /\ cpMutex' = [cpMutex EXCEPT ![k] = [id |-> cpCount + 1, size |-> size, timestamp |-> ts]]
  /\ cpCount' = cpCount + 1
  /\ UNCHANGED <<cp, cpQueue, cpOwner, cpIn>>

(* The rest of the admission, and the release of the mutex. *)
CpAdmitLeave(k) ==
  LET f == cpMutex[k]
  IN  /\ CpLocked(k)
      /\ IF CpFits(k, cpQueue[k], f)
         THEN /\ cpQueue' = [cpQueue EXCEPT ![k] = CpPushed(k, cpQueue[k], f)]
              /\ cpIn' = [cpIn EXCEPT ![k] = Append(@, f)]
         ELSE UNCHANGED <<cpQueue, cpIn>>
      /\ cpMutex' = [cpMutex EXCEPT ![k] = CpFree]
      /\ UNCHANGED <<cp, cpOwner, cpCount>>

(* pop_video_frame and pop_audio_frame with room enough; with too little    *)
(* they change nothing.                                                     *)
CpPop(k) ==
  /\ CpAlive /\ ~CpLocked(k) /\ CpConfigured(k) /\ cpQueue[k].frames # 0
  /\ cpQueue' = [cpQueue EXCEPT ![k] = CpPopped(cpQueue[k])]
  /\ cpIn' = [cpIn EXCEPT ![k] = Tail(@)]
  /\ UNCHANGED <<cp, cpMutex, cpOwner, cpCount>>

-----------------------------------------------------------------------------
(* The owner, one call at a time *)

CpIdle == CpAlive /\ cpOwner \in {"idle", "drained"}

CpSet(c) == cp' = c /\ UNCHANGED <<cpQueue, cpMutex, cpOwner, cpIn, cpCount>>

turbo_client_processing_create ==
  [state |-> "CREATED", flags |-> {}, audio_configured |-> FALSE,
   file_plan_set |-> FALSE, file_prepared |-> FALSE]

turbo_client_processing_set_audio_capture_config ==
  /\ CpIdle /\ cp.state = "CREATED" /\ ~CpLocked("audio")
  /\ cp' = [cp EXCEPT !.audio_configured = TRUE]
  /\ cpQueue' = [cpQueue EXCEPT !["audio"] = CpEmpty]
  /\ cpIn' = [cpIn EXCEPT !["audio"] = <<>>]
  /\ UNCHANGED <<cpMutex, cpOwner, cpCount>>

turbo_client_processing_set_file_plan ==
  CpIdle /\ cp.state = "CREATED" /\ CpSet([cp EXCEPT !.file_plan_set = TRUE])

(* A plan that cannot be opened fails the processing and leaves nothing     *)
(* open.                                                                    *)
turbo_client_processing_prepare(opened) ==
  /\ CpIdle /\ cp.state = "CREATED"
  /\ ~cp.file_plan_set => opened
  /\ CpSet([cp EXCEPT !.state = IF opened THEN "PREPARED" ELSE "FAILED",
                      !.file_prepared = cp.file_plan_set /\ opened])

turbo_client_processing_start ==
  /\ CpIdle /\ cp.state = "PREPARED" /\ cp.flags \intersect CpBlockers = {}
  /\ CpSet([cp EXCEPT !.state = "RUNNING"])

turbo_client_processing_pause ==
  CpIdle /\ cp.state = "RUNNING" /\ CpSet([cp EXCEPT !.state = "PAUSED"])

turbo_client_processing_resume ==
  /\ CpIdle /\ cp.state = "PAUSED" /\ cp.flags \intersect CpBlockers = {}
  /\ CpSet([cp EXCEPT !.state = "RUNNING"])

(* The loss of a device, a permission, the surface or the foreground.  The  *)
(* loss of what capturing needs pauses it; what comes back does not resume. *)
turbo_client_processing_handle_lifecycle_event(flag, lost) ==
  /\ CpIdle /\ cp.state \notin {"DRAINING", "STOPPED", "FAILED"}
  /\ CpSet([cp EXCEPT
       !.flags = IF lost THEN @ \union {flag} ELSE @ \ {flag},
       !.state = IF lost /\ flag \in CpBlockers /\ @ = "RUNNING" THEN "PAUSED" ELSE @])

turbo_client_processing_request_stop ==
  CpIdle /\ cp.state \in {"PREPARED", "RUNNING", "PAUSED"} /\ CpSet([cp EXCEPT !.state = "DRAINING"])

CpClear(k) ==
  /\ ~CpLocked(k)
  /\ cpQueue' = [cpQueue EXCEPT ![k] = [CpEmpty EXCEPT !.storage = cpQueue[k].storage]]
  /\ cpIn' = [cpIn EXCEPT ![k] = <<>>]

(* Each queue is cleared under its own mutex, then the files are closed and *)
(* the state is written.                                                    *)
turbo_client_processing_drain ==
  /\ CpAlive
  /\ \/ cpOwner = "idle" /\ cp.state = "DRAINING" /\ cpOwner' = "drain_video"
        /\ UNCHANGED <<cp, cpQueue, cpIn>>
     \/ cpOwner = "drain_video" /\ CpClear("video") /\ cpOwner' = "drain_audio" /\ UNCHANGED cp
     \/ cpOwner = "drain_audio" /\ CpClear("audio") /\ cpOwner' = "drain_end" /\ UNCHANGED cp
     \/ /\ cpOwner = "drain_end"
        /\ cp' = [cp EXCEPT !.state = "STOPPED", !.file_prepared = FALSE]
        /\ cpOwner' = "drained"
        /\ UNCHANGED <<cpQueue, cpIn>>
  /\ UNCHANGED <<cpMutex, cpCount>>

(* The whole file is converted inside the call (module ClientFile).  The    *)
(* state is RUNNING meanwhile, for the capture threads too; the queues are  *)
(* not cleared at the end.                                                  *)
turbo_client_processing_run_file ==
  /\ CpAlive
  /\ \/ /\ cpOwner = "idle" /\ cp.state = "PREPARED" /\ cp.file_prepared
        /\ cp' = [cp EXCEPT !.state = "RUNNING"]
        /\ cpOwner' = "file"
     \/ /\ cpOwner = "file"
        /\ \E end \in {"STOPPED", "FAILED"} : cp' = [cp EXCEPT !.state = end, !.file_prepared = FALSE]
        /\ cpOwner' = "idle"
  /\ UNCHANGED <<cpQueue, cpMutex, cpIn, cpCount>>

(* The caller has stopped the capture devices before. *)
turbo_client_processing_destroy ==
  /\ CpIdle /\ cp.state \notin {"RUNNING", "PAUSED", "DRAINING"}
  /\ \A k \in CpQueues : ~CpLocked(k)
  /\ cp' = [turbo_client_processing_create EXCEPT !.state = "DESTROYED"]
  /\ cpQueue' = [k \in CpQueues |-> CpEmpty]
  /\ cpIn' = [k \in CpQueues |-> <<>>]
  /\ UNCHANGED <<cpMutex, cpOwner, cpCount>>

-----------------------------------------------------------------------------
CpInit ==
  /\ cp = turbo_client_processing_create
  /\ cpQueue = [k \in CpQueues |-> CpEmpty]
  /\ cpMutex = [k \in CpQueues |-> CpFree]
  /\ cpOwner = "idle"
  /\ cpIn = [k \in CpQueues |-> <<>>]
  /\ cpCount = 0

CpCapture(k) ==
  \/ \E size \in 1 .. CpMaxBytes, ts \in 0 .. CpTimeMax : CpAdmitEnter(k, size, ts)
  \/ CpAdmitLeave(k) \/ CpPop(k)

CpLifecycle ==
  \/ turbo_client_processing_set_audio_capture_config
  \/ turbo_client_processing_set_file_plan
  \/ \E opened \in BOOLEAN : turbo_client_processing_prepare(opened)
  \/ turbo_client_processing_start \/ turbo_client_processing_pause \/ turbo_client_processing_resume
  \/ \E flag \in {"PERMISSION_REVOKED", "PLAYBACK_LOST"}, lost \in BOOLEAN :
       turbo_client_processing_handle_lifecycle_event(flag, lost)
  \/ turbo_client_processing_request_stop \/ turbo_client_processing_drain
  \/ turbo_client_processing_run_file \/ turbo_client_processing_destroy

CpNext == (\E k \in CpQueues : CpCapture(k)) \/ CpLifecycle

CpSpec == CpInit /\ [][CpNext]_cpVars

-----------------------------------------------------------------------------
(* Properties *)

(* Each queue holds the admitted frames in order and byte for byte, however *)
(* slots and bytes wrap, and its counters agree with them and stay within   *)
(* every bound of the configuration.                                        *)
CpQueuesExact ==
  \A k \in CpQueues :
    LET q == cpQueue[k]
    IN  /\ q.frames = Len(cpIn[k])
        /\ \A i \in 1 .. q.frames :
             LET s == q.slots[(q.head + i - 1) % CpCapacity]
                 f == cpIn[k][i]
             IN  /\ s.size = f.size /\ s.timestamp = f.timestamp
                 /\ \A b \in CpRegion(s.offset, s.size) : q.storage[b] = f.id
        /\ q.bytes = FoldLeft(LAMBDA sum, f : sum + f.size, 0, cpIn[k])
        /\ q.bytes <= CpMaxBytes /\ q.span <= CpMaxSpan

(* Once the owner has drained the processing no frame is queued and none is *)
(* being admitted, whatever was under way in the capture threads when it    *)
(* asked to stop; no file is open in a final state; and frames are captured *)
(* only while nothing forbids capturing.                                    *)
CpQuiet ==
  /\ cpOwner = "drained" => \A k \in CpQueues : cpIn[k] = <<>> /\ ~CpLocked(k)
  /\ cp.state \in {"STOPPED", "FAILED"} => ~cp.file_prepared
  /\ cp.state = "RUNNING" /\ cpOwner # "file" => cp.flags \intersect CpBlockers = {}

(* The queues are exact while frames are captured, and quiet once drained. *)
CpSound == CpQueuesExact /\ CpQuiet
=============================================================================
