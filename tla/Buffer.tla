------------------------------- MODULE Buffer ------------------------------
(***************************************************************************)
(* vkte::Buffer, one at a time: the constructor with its fallback location,  *)
(* the mapped or staged writes and reads of the host, and the destructor.    *)
(* A host operation on memory that is not host visible goes through a        *)
(* staging buffer and a one-time submission of the transfer queue.           *)
(***************************************************************************)
EXTENDS OneTimeCommands

CONSTANTS
  Sizes,         (* byte sizes of buffers                                      *)
  Data,          (* what a byte can hold                                       *)
  BufferQueues   (* sets of queues the application names for a buffer          *)

ASSUME BufferAssumption ==
  /\ Sizes \subseteq Nat \ {0}
  /\ BufferQueues \subseteq SUBSET QueueKinds
ASSUME NotCreatedAssumption ==
  /\ NotCreated \notin Seq(Data \union {Undefined})
  /\ NotCreated \notin [contents: Seq(Data \union {Undefined}), shared: SUBSET Nat,
                        owner: Nat, copies: BOOLEAN]
  /\ NotCreated \notin [direction: {"HostToBuffer", "BufferToHost"},
                        span: [offset: Nat, count: Nat],
                        data: Data \union {Undefined}, constructs: BOOLEAN]

(* The locations that differ in what happens: all others are host visible    *)
(* and have no fallback.                                                     *)
Locations == {"DeviceLocal", "BARFallbackDeviceLocal", "HostVisible"}

VARIABLES
  buffer,        (* the device buffer: memory and transfer usage, or           *)
                 (* NotCreated                                                 *)
  host_visible,
  buffer_queues, (* Settings::queues                                           *)
  staging,       (* the buffer of the host operation: its bytes, or NotCreated *)
  transfer,      (* the host operation in progress, or NotCreated              *)
  written,       (* what the host wrote, byte by byte (history)                *)
  obtained       (* the bytes of a read that just returned, and those written  *)

bufferVars == <<buffer, host_visible, buffer_queues, staging, transfer, written, obtained>>

BufferInit ==
  /\ buffer = NotCreated
  /\ host_visible = FALSE
  /\ buffer_queues = {}
  /\ staging = NotCreated
  /\ transfer = NotCreated
  /\ written = <<>>
  /\ obtained = NotCreated

ByteSize == Len(written)
Bytes(span) == span.offset + 1 .. span.offset + span.count

-----------------------------------------------------------------------------
(* The constructor: in the location, or in its fallback.                     *)
Fallback(location) == IF location = "BARFallbackDeviceLocal" THEN {"DeviceLocal"} ELSE {}

NewBuffer(size, actual_location, queues) ==
  [contents |-> [n \in 1 .. size |-> Undefined],
   shared |-> SharedBy(queues),
   owner |-> 0,
   copies |-> actual_location = "DeviceLocal"]

Put(contents, span, data) ==
  [n \in DOMAIN contents |-> IF n \in Bytes(span) THEN data ELSE contents[n]]

CreateEmptyBuffer(size, queues, actual_location) ==
  /\ buffer' = NewBuffer(size, actual_location, queues)
  /\ written' = [n \in 1 .. size |-> Undefined]
  /\ UNCHANGED <<staging, transfer>>

(* With initial_data the constructor ends with an update of all bytes.       *)
CreateMappedBuffer(size, queues, actual_location, data) ==
  /\ actual_location # "DeviceLocal"
  /\ buffer' = [NewBuffer(size, actual_location, queues) EXCEPT
                  !.contents = [n \in 1 .. size |-> data]]
  /\ written' = [n \in 1 .. size |-> data]
  /\ UNCHANGED <<staging, transfer>>

CreateStagedBuffer(size, queues, actual_location, data) ==
  /\ actual_location = "DeviceLocal"
  /\ buffer' = NewBuffer(size, actual_location, queues)
  /\ written' = [n \in 1 .. size |-> Undefined]
  /\ staging' = [n \in 1 .. size |-> data]
  /\ transfer' = [direction |-> "HostToBuffer", span |-> [offset |-> 0, count |-> size],
                  data |-> data, constructs |-> TRUE]

CreateBuffer(size, location, queues) ==
  /\ buffer = NotCreated
  /\ \E actual_location \in {location} \union Fallback(location) :
       /\ host_visible' = (actual_location # "DeviceLocal")
       /\ \/ CreateEmptyBuffer(size, queues, actual_location)
          \/ \E data \in Data :
               \/ CreateMappedBuffer(size, queues, actual_location, data)
               \/ CreateStagedBuffer(size, queues, actual_location, data)
  /\ buffer_queues' = queues
  /\ UNCHANGED <<obtained, deviceVars>>

(* Neither location has memory, or the staging buffer has none.              *)
CreateBufferThrows ==
  /\ buffer = NotCreated
  /\ Fails
  /\ \E objects \in {{}, {"buffer"}} : leaked' = leaked \union objects
  /\ UNCHANGED <<bufferVars, offered, surface, families, one_time_cbs, invalid>>

-----------------------------------------------------------------------------
(* update_data_bytes, fill_bytes (from offset 0) and obtain_data_bytes: the  *)
(* bounds are asserted before anything happens.                              *)
Spans == {s \in [offset: 0 .. ByteSize, count: 1 .. ByteSize] : s.offset + s.count <= ByteSize}
Idle == buffer # NotCreated /\ transfer = NotCreated

Cut(contents, span) == SubSeq(contents, span.offset + 1, span.offset + span.count)

WriteMapped(span, data) ==
  /\ Idle
  /\ host_visible
  /\ buffer' = [buffer EXCEPT !.contents = Put(@, span, data)]
  /\ written' = Put(written, span, data)
  /\ obtained' = NotCreated
  /\ UNCHANGED <<host_visible, buffer_queues, staging, transfer, deviceVars>>

ReadMapped(span) ==
  /\ Idle
  /\ host_visible
  /\ obtained' = [read |-> Cut(buffer.contents, span), expected |-> Cut(written, span)]
  /\ UNCHANGED <<buffer, host_visible, buffer_queues, staging, transfer, written, deviceVars>>

(* Staged: the staging buffer has the bytes of the span alone.               *)
Stage(direction, span, data) ==
  /\ Idle
  /\ ~host_visible
  /\ transfer' = [direction |-> direction, span |-> span, data |-> data,
                  constructs |-> FALSE]
  /\ staging' = [n \in 1 .. span.count |-> data]
  /\ obtained' = NotCreated
  /\ UNCHANGED <<buffer, host_visible, buffer_queues, written, deviceVars>>

StageWrite(span, data) == Stage("HostToBuffer", span, data)
StageRead(span) == Stage("BufferToHost", span, Undefined)

StageThrows ==
  /\ Idle
  /\ ~host_visible
  /\ Fails
  /\ UNCHANGED <<bufferVars, offered, surface, families, one_time_cbs, leaked, invalid>>

(* Mutant: the copy starts at the first byte of the buffer.                  *)
CopiedToStart(contents, span, bytes) ==
  [n \in DOMAIN contents |-> IF n <= span.count THEN bytes[n] ELSE contents[n]]

Copied(contents, span, bytes) ==
  [n \in DOMAIN contents |-> IF n \in Bytes(span) THEN bytes[n - span.offset] ELSE contents[n]]

CopyRules == [copy |-> buffer.copies]

CopyToBuffer ==
  /\ transfer # NotCreated
  /\ transfer.direction = "HostToBuffer"
  /\ RunOneTime("transfer", CopyRules)
  /\ LET acquired == Acquire(buffer, "transfer")
     IN buffer' = [acquired EXCEPT !.contents = Copied(@, transfer.span, staging)]
  /\ written' = Put(written, transfer.span, transfer.data)
  /\ staging' = NotCreated
  /\ transfer' = NotCreated
  /\ UNCHANGED <<host_visible, buffer_queues, obtained, leaked>>

(* The host reads the staging buffer after the copy.                         *)
CopyToHost ==
  /\ transfer # NotCreated
  /\ transfer.direction = "BufferToHost"
  /\ RunOneTime("transfer", CopyRules)
  /\ buffer' = Acquire(buffer, "transfer")
  /\ obtained' = [read |-> Cut(buffer'.contents, transfer.span),
                  expected |-> Cut(written, transfer.span)]
  /\ staging' = NotCreated
  /\ transfer' = NotCreated
  /\ UNCHANGED <<host_visible, buffer_queues, written, leaked>>

(* The staging buffer is lost with the exception, and with it a buffer that  *)
(* was being constructed.                                                    *)
ForgetBuffer ==
  /\ buffer' = NotCreated
  /\ host_visible' = FALSE
  /\ buffer_queues' = {}
  /\ written' = <<>>
  /\ obtained' = NotCreated

CopyThrows ==
  /\ transfer # NotCreated
  /\ RunOneTimeThrows("transfer", CopyRules, "ready")
  /\ staging' = NotCreated
  /\ transfer' = NotCreated
  /\ IF transfer.constructs
     THEN /\ leaked' = leaked \union {"staging", "buffer"}
          /\ ForgetBuffer
     ELSE /\ leaked' = leaked \union {"staging"}
          /\ UNCHANGED <<buffer, host_visible, buffer_queues, written, obtained>>

(* Work of the application on one of the queues it named.                    *)
UseBuffer(kind) ==
  /\ Idle
  /\ kind \in buffer_queues
  /\ families[kind] # 0
  /\ buffer' = Acquire(buffer, kind)
  /\ obtained' = NotCreated
  /\ UNCHANGED <<host_visible, buffer_queues, staging, transfer, written, deviceVars>>

(* ~Buffer.                                                                  *)
DestroyBuffer ==
  /\ Idle
  /\ ForgetBuffer
  /\ UNCHANGED <<staging, transfer, deviceVars>>

-----------------------------------------------------------------------------
BufferNext ==
  \/ /\ DeviceConstructed
     /\ \/ \E size \in Sizes, location \in Locations, queues \in BufferQueues :
             SharedBy(queues) # {} /\ CreateBuffer(size, location, queues)
        \/ CreateBufferThrows
  \/ \E span \in Spans :
       \/ \E data \in Data : WriteMapped(span, data) \/ StageWrite(span, data)
       \/ ReadMapped(span) \/ StageRead(span)
  \/ StageThrows
  \/ CopyToBuffer \/ CopyToHost \/ CopyThrows
  \/ \E kind \in QueueKinds : UseBuffer(kind)
  \/ DestroyBuffer

-----------------------------------------------------------------------------
(* The host reads back what it wrote, through the staging buffer or mapped   *)
(* memory and whatever part of the buffer, also after the device used the    *)
(* buffer on the queues it was created for - if those include the family of  *)
(* the transfer queue the staged copies run on.                              *)
ReadsReturnWrites ==
  /\ obtained # NotCreated
  /\ host_visible \/ families["transfer"] \in buffer.shared
  => obtained.read = obtained.expected
=============================================================================
