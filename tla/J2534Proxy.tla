----------------------------- MODULE J2534Proxy -----------------------------
(***************************************************************************)
(* native/j2534_proxy: the DLL that stands between a diagnostic program    *)
(* and the vendor's J2534 DLL, forwards every call and writes a trace of   *)
(* them. The program's threads call it concurrently: initialisation runs   *)
(* once, a record is numbered and written under g_record_mutex, and the    *)
(* provider is called outside it. Written records reach the platters in    *)
(* groups (trace_flush_policy.cpp). The process may die and the machine    *)
(* may lose power between any two steps; the program may then be started   *)
(* again with the same trace path.                                         *)
(***************************************************************************)
EXTENDS J2534Trace, FiniteSets

CONSTANTS
    Threads,            \* the program's threads
    NoThread,
    MaxRecords,         \* kMaxRecordsPerCommit
    MaxCalls,           \* bound: calls one process forwards
    MaxFaults,          \* bound: failed writes, and failed flushes
    MaxProcesses        \* bound: times the program is started

ASSUME ProxyAssumption ==
    /\ NoThread \notin Threads
    /\ IsFiniteSet(Threads)
    /\ MaxRecords \in Nat \ {0}
    /\ MaxCalls \in Nat
    /\ MaxFaults \in Nat
    /\ MaxProcesses \in Nat \ {0}

VARIABLES
    (* one process *)
    init,           \* g_init_once and g_initialized
    recorder,       \* holder of g_record_mutex
    sequence,       \* g_record_sequence
    calls,          \* g_call_sequence
    records,        \* g_records_since_flush
    force,          \* g_force_flush
    aged,           \* 100 ms have passed since g_last_flush_tick
    (* its threads *)
    pc,
    api,            \* the function called
    policy,         \* policy_enabled, read by PassThruSetProgrammingVoltage
    call,           \* CallContext::call_id
    (* the disk *)
    exists,         \* the trace path names a file
    file,           \* what has been written, torn lines included
    durable,        \* how much of it is physically committed
    (* history *)
    process,        \* the number of this process
    forwarded,      \* calls this process has passed to the provider
    reported,       \* calls of boundary functions that have returned
    writeFaults, flushFaults

globals == <<init, recorder, sequence, calls>>
flushPolicy == <<records, force, aged>>
threads == <<pc, api, policy, call>>
disk == <<exists, file, durable>>
history == <<process, forwarded, reported, writeFaults, flushFaults>>
vars == <<globals, flushPolicy, threads, disk, history>>

FreshProcess ==
    /\ init' = "new" /\ recorder' = NoThread /\ sequence' = 0 /\ calls' = 0
    /\ records' = 0 /\ force' = FALSE /\ aged' = FALSE
    /\ pc' = [t \in Threads |-> "out"]
    /\ api' = [t \in Threads |-> "ordinary"]
    /\ policy' = [t \in Threads |-> FALSE]
    /\ call' = [t \in Threads |-> 0]
    /\ forwarded' = {}

Init ==
    /\ init = "new" /\ recorder = NoThread /\ sequence = 0 /\ calls = 0
    /\ records = 0 /\ force = FALSE /\ aged = FALSE
    /\ pc = [t \in Threads |-> "out"]
    /\ api = [t \in Threads |-> "ordinary"]
    /\ policy = [t \in Threads |-> FALSE]
    /\ call = [t \in Threads |-> 0]
    /\ exists = FALSE /\ file = <<>> /\ durable = 0
    /\ process = 1 /\ forwarded = {} /\ reported = {}
    /\ writeFaults = 0 /\ flushFaults = 0

Go(t, label) == pc' = [pc EXCEPT ![t] = label]

-----------------------------------------------------------------------------
(* TraceWriter::WriteLine: AtlasTraceWriteFile, then                       *)
(* AtlasTraceFlushFileBuffers in a step of its own                         *)

WriteSucceeds(row) ==
    /\ file' = Append(file, row)
    /\ records' = records + 1
    /\ force' = (force \/ IsImmediateCommitBoundary(row))
    /\ UNCHANGED writeFaults

(* The write fails, having put nothing or a part of the line in the file:  *)
(* the policy does not count it and no flush follows.                      *)
WriteFails ==
    /\ writeFaults < MaxFaults                       \* bound
    /\ writeFaults' = writeFaults + 1
    /\ file' \in {file, Append(file, Torn)}
    /\ UNCHANGED <<records, force>>

FlushDue == records # 0 /\ (force \/ aged \/ records >= MaxRecords)

FlushSucceeds ==
    /\ durable' = Len(file)
    /\ records' = 0 /\ force' = FALSE /\ aged' = FALSE
    /\ UNCHANGED flushFaults

FlushFails ==
    /\ flushFaults < MaxFaults                       \* bound
    /\ flushFaults' = flushFaults + 1
    /\ UNCHANGED <<durable, flushPolicy>>

(* Mutants: a policy that forgets what was due when the flush fails, one   *)
(* that does not count, and one that commits only on a count.              *)
GroupCommitForgets ==
    IF FlushDue
    THEN \/ FlushSucceeds
         \/ /\ flushFaults < MaxFaults
            /\ flushFaults' = flushFaults + 1
            /\ records' = 0 /\ force' = FALSE /\ aged' = FALSE
            /\ UNCHANGED durable
    ELSE UNCHANGED <<durable, flushPolicy, flushFaults>>

GroupCommitByAge ==
    IF records # 0 /\ (force \/ aged)
    THEN FlushSucceeds \/ FlushFails
    ELSE UNCHANGED <<durable, flushPolicy, flushFaults>>

GroupCommitByCount ==
    IF records >= MaxRecords
    THEN FlushSucceeds \/ FlushFails
    ELSE UNCHANGED <<durable, flushPolicy, flushFaults>>

GroupCommit ==
    IF FlushDue
    THEN FlushSucceeds \/ FlushFails
    ELSE UNCHANGED <<durable, flushPolicy, flushFaults>>

AgePasses ==
    /\ init = "ready" /\ ~aged
    /\ aged' = TRUE
    /\ UNCHANGED <<globals, records, force, threads, disk, history>>

-----------------------------------------------------------------------------
(* Calling an API function: EnsureInitialized *)

(* Calls under way that will take a number.                                *)
Unnumbered ==
    {t \in Threads : pc[t] \in {"ensure", "open", "session", "sessionFlush",
                                "begin"}}

Call(t) ==
    /\ pc[t] = "out"
    /\ calls + Cardinality(Unnumbered) < MaxCalls    \* bound
    /\ Go(t, "ensure")
    /\ \E a \in Apis : api' = [api EXCEPT ![t] = a]
    /\ UNCHANGED <<globals, flushPolicy, policy, call, disk, history>>

(* The first thread runs Initialize; the others wait in call_once. The     *)
(* configuration is usable and the provider exports what is needed, or the *)
(* proxy is disabled for good.                                             *)
Initialize(t) ==
    /\ pc[t] = "ensure" /\ init = "new"
    /\ \/ init' = "running" /\ Go(t, "open")
       \/ init' = "failed" /\ Go(t, "out")
    /\ UNCHANGED <<recorder, sequence, calls, flushPolicy, api, policy, call,
                   disk, history>>

(* Mutant: an existing trace is opened and overwritten.                    *)
OpenTruncates(t) ==
    /\ pc[t] = "open"
    /\ Go(t, "session") /\ exists' = TRUE /\ file' = <<>> /\ durable' = 0
    /\ UNCHANGED <<globals, flushPolicy, api, policy, call, history>>

OpenTrace(t) ==
    /\ pc[t] = "open"
    /\ \/ ~exists /\ exists' = TRUE /\ Go(t, "session") /\ UNCHANGED init
       \/ init' = "failed" /\ Go(t, "out") /\ UNCHANGED exists
    /\ UNCHANGED <<recorder, sequence, calls, flushPolicy, api, policy, call,
                   file, durable, history>>

(* Mutant: the result of the session record is ignored like any other.     *)
WriteSessionUnchecked(t) ==
    /\ pc[t] = "session"
    /\ sequence' = sequence + 1
    /\ WriteSucceeds(Session(sequence)) \/ WriteFails
    /\ recorder' = t /\ Go(t, "sessionFlush")
    /\ aged' = FALSE
    /\ UNCHANGED <<init, calls, api, policy, call, exists, durable, process,
                   forwarded, reported, flushFaults>>

WriteSession(t) ==
    /\ pc[t] = "session" /\ recorder = NoThread
    /\ sequence' = sequence + 1
    /\ \/ /\ WriteSucceeds(Session(sequence))
          /\ recorder' = t /\ Go(t, "sessionFlush") /\ aged' = FALSE
          /\ UNCHANGED init
       \/ /\ WriteFails
          /\ init' = "failed" /\ Go(t, "out")
          /\ UNCHANGED <<recorder, aged>>
    /\ UNCHANGED <<calls, api, policy, call, exists, durable, process,
                   forwarded, reported, flushFaults>>

FlushSession(t) ==
    /\ pc[t] = "sessionFlush"
    /\ GroupCommit
    /\ recorder' = NoThread /\ init' = "ready" /\ Go(t, "ensure")
    /\ UNCHANGED <<sequence, calls, api, policy, call, exists, file, process,
                   forwarded, reported, writeFaults>>

(* The function returns ERR_FAILED.                                        *)
Refuse(t) ==
    /\ pc[t] = "ensure" /\ init = "failed"
    /\ Go(t, "out")
    /\ UNCHANGED <<globals, flushPolicy, api, policy, call, disk, history>>

(* SetProgrammingVoltage reads its policy from the environment, which the  *)
(* program may have changed since.                                         *)
Admit(t) ==
    /\ pc[t] = "ensure" /\ init = "ready"
    /\ Go(t, "begin")
    /\ \E enabled \in BOOLEAN :
          /\ enabled => api[t] = "voltage"
          /\ policy' = [policy EXCEPT ![t] = enabled]
    /\ UNCHANGED <<globals, flushPolicy, api, call, disk, history>>

-----------------------------------------------------------------------------
(* BeginCall, the provider, EndCall *)

(* Mutant: the record is numbered before the mutex is taken.               *)
BeginCallUnlocked(t) ==
    /\ pc[t] = "begin"
    /\ calls' = calls + 1 /\ call' = [call EXCEPT ![t] = calls + 1]
    /\ \/ /\ sequence' = sequence + 1
          /\ WriteSucceeds(CallBegin(sequence, calls + 1, api[t], policy[t]))
       \/ /\ sequence' = sequence
          /\ WriteSucceeds(CallBegin(sequence + 1, calls + 1, api[t], policy[t]))
    /\ recorder' = t /\ Go(t, "beginFlush")
    /\ UNCHANGED <<init, aged, api, policy, exists, durable, process,
                   forwarded, reported, flushFaults>>

BeginCall(t) ==
    /\ pc[t] = "begin" /\ recorder = NoThread
    /\ calls' = calls + 1 /\ call' = [call EXCEPT ![t] = calls + 1]
    /\ sequence' = sequence + 1
    /\ \/ /\ WriteSucceeds(CallBegin(sequence, calls + 1, api[t], policy[t]))
          /\ recorder' = t /\ Go(t, "beginFlush")
       \/ /\ WriteFails
          /\ Go(t, "forward") /\ UNCHANGED recorder
    /\ UNCHANGED <<init, aged, api, policy, exists, durable, process,
                   forwarded, reported, flushFaults>>

FlushBegin(t) ==
    /\ pc[t] = "beginFlush"
    /\ GroupCommit
    /\ recorder' = NoThread /\ Go(t, "forward")
    /\ UNCHANGED <<init, sequence, calls, api, policy, call, exists, file,
                   process, forwarded, reported, writeFaults>>

Calling(t) == [call |-> call[t], api |-> api[t], policy |-> policy[t]]

(* Mutant: the policy is read again when the call is forwarded.            *)
ForwardRereads(t) ==
    /\ pc[t] = "forward"
    /\ \E enabled \in BOOLEAN :
          IF api[t] = "voltage" /\ ~enabled
          THEN Go(t, "end") /\ UNCHANGED forwarded
          ELSE Go(t, "provider") /\ forwarded' = forwarded \cup {Calling(t)}
    /\ UNCHANGED <<globals, flushPolicy, api, policy, call, disk, process,
                   reported, writeFaults, flushFaults>>

(* A programming voltage is withheld when the policy forbids it or the     *)
(* provider does not have the function.                                    *)
Forward(t) ==
    /\ pc[t] = "forward"
    /\ \/ /\ api[t] = "voltage"
          /\ Go(t, "end") /\ UNCHANGED forwarded
       \/ /\ api[t] = "voltage" => policy[t]
          /\ Go(t, "provider") /\ forwarded' = forwarded \cup {Calling(t)}
    /\ UNCHANGED <<globals, flushPolicy, api, policy, call, disk, process,
                   reported, writeFaults, flushFaults>>

ProviderReturns(t) ==
    /\ pc[t] = "provider"
    /\ Go(t, "end")
    /\ UNCHANGED <<globals, flushPolicy, api, policy, call, disk, history>>

Report(t) ==
    reported' = IF api[t] = "ordinary" THEN reported
                                       ELSE reported \cup {call[t]}

(* Mutant: an early return on a failed write that leaves the mutex locked. *)
EndCallKeepsMutex(t) ==
    /\ pc[t] = "end" /\ recorder = NoThread
    /\ sequence' = sequence + 1
    /\ \/ /\ WriteSucceeds(CallEnd(sequence, call[t], api[t]))
          /\ Go(t, "endFlush") /\ UNCHANGED reported
       \/ /\ WriteFails
          /\ Go(t, "out") /\ Report(t)
    /\ recorder' = t
    /\ UNCHANGED <<init, calls, aged, api, policy, call, exists, durable,
                   process, forwarded, flushFaults>>

EndCall(t) ==
    /\ pc[t] = "end" /\ recorder = NoThread
    /\ sequence' = sequence + 1
    /\ \/ /\ WriteSucceeds(CallEnd(sequence, call[t], api[t]))
          /\ recorder' = t /\ Go(t, "endFlush") /\ UNCHANGED reported
       \/ /\ WriteFails
          /\ Go(t, "out") /\ Report(t) /\ UNCHANGED recorder
    /\ UNCHANGED <<init, calls, aged, api, policy, call, exists, durable,
                   process, forwarded, flushFaults>>

FlushEnd(t) ==
    /\ pc[t] = "endFlush"
    /\ GroupCommit
    /\ recorder' = NoThread /\ Go(t, "out") /\ Report(t)
    /\ UNCHANGED <<init, sequence, calls, api, policy, call, exists, file,
                   process, forwarded, writeFaults>>

-----------------------------------------------------------------------------
(* The process dies: what it has written is the system's to keep.          *)
ProcessDies ==
    /\ process < MaxProcesses                        \* bound
    /\ process' = process + 1
    /\ FreshProcess
    /\ UNCHANGED <<disk, reported, writeFaults, flushFaults>>

(* The machine stops: any part of what was not committed is gone, the cut  *)
(* may be inside a line, and an uncommitted file may not exist at all.     *)
PowerFails ==
    /\ process < MaxProcesses                        \* bound
    /\ process' = process + 1
    /\ FreshProcess
    /\ \/ \E n \in durable .. Len(file) :
             file' = SubSeq(file, 1, n) /\ UNCHANGED exists
       \/ \E n \in durable .. Len(file) - 1 :
             file' = Append(SubSeq(file, 1, n), Torn) /\ UNCHANGED exists
       \/ durable = 0 /\ file' = <<>> /\ exists' = FALSE
    /\ UNCHANGED <<durable, reported, writeFaults, flushFaults>>

ThreadNext(t) ==
    \/ Initialize(t) \/ OpenTrace(t) \/ WriteSession(t) \/ FlushSession(t)
    \/ Refuse(t) \/ Admit(t)
    \/ BeginCall(t) \/ FlushBegin(t)
    \/ Forward(t) \/ ProviderReturns(t)
    \/ EndCall(t) \/ FlushEnd(t)

Next ==
    \/ \E t \in Threads : Call(t) \/ ThreadNext(t)
    \/ AgePasses
    \/ ProcessDies
    \/ PowerFails

(* Threads are scheduled, a mutex that is free is eventually given to each *)
(* thread that waits for it, and the provider returns.                     *)
Fairness == \A t \in Threads : SF_vars(ThreadNext(t))

Spec == Init /\ [][Next]_vars /\ Fairness

-----------------------------------------------------------------------------
(* Every variable stays in its domain, and the thread that holds the mutex *)
(* is the one that is between writing a record and flushing it.            *)
Labels == {"out", "ensure", "open", "session", "sessionFlush", "begin",
           "beginFlush", "forward", "provider", "end", "endFlush"}
Recording == {"sessionFlush", "beginFlush", "endFlush"}

TypeOK ==
    /\ init \in {"new", "running", "ready", "failed"}
    /\ recorder \in Threads \cup {NoThread}
    /\ \A t \in Threads : recorder = t <=> pc[t] \in Recording
    /\ sequence \in Nat /\ calls \in 0 .. MaxCalls
    /\ records \in Nat /\ force \in BOOLEAN /\ aged \in BOOLEAN
    /\ pc \in [Threads -> Labels] /\ api \in [Threads -> Apis]
    /\ policy \in [Threads -> BOOLEAN] /\ call \in [Threads -> 0 .. MaxCalls]
    /\ exists \in BOOLEAN /\ file \in Seq(Row) /\ durable \in 0 .. Len(file)
    /\ process \in 1 .. MaxProcesses
    /\ forwarded \in SUBSET [call : 0 .. MaxCalls, api : Apis, policy : BOOLEAN]
    /\ reported \subseteq 0 .. MaxCalls
    /\ writeFaults \in 0 .. MaxFaults /\ flushFaults \in 0 .. MaxFaults

(* Unless a write failed or a power cut tore the last line, the trace is   *)
(* one that read_trace accepts, whatever the threads are doing and         *)
(* wherever a process died: records are in the order of their numbers and  *)
(* every end follows its own begin.                                        *)
TraceReadable ==
    (writeFaults = 0 /\ file # <<>> /\ \A i \in DOMAIN file : file[i] # Torn)
        => ReadTrace(file)

(* "Only the most recent uncommitted group is exposed to loss": unless a   *)
(* flush failed, fewer than MaxRecords whole records are uncommitted, the  *)
(* one being written apart.                                                *)
Uncommitted == {i \in durable + 1 .. Len(file) : file[i] # Torn}

GroupBounded ==
    flushFaults = 0 =>
        /\ Cardinality(Uncommitted) <= MaxRecords
        /\ (init = "ready" /\ recorder = NoThread) =>
              Cardinality(Uncommitted) < MaxRecords

(* A session or boundary record is committed before the mutex is released; *)
(* if that flush failed, it is still due at the next record.               *)
BoundaryCommitted ==
    init = "ready" =>
        \A i \in durable + 1 .. Len(file) :
            IsImmediateCommitBoundary(file[i]) =>
                force /\ (recorder # NoThread \/ flushFaults # 0)

(* When Close, Disconnect, StopPeriodicMsg or SetProgrammingVoltage has    *)
(* returned and the disk reported no error, the end of that call is in the *)
(* trace for good: neither a crash nor a power cut takes it away.          *)
ReportedSurvives ==
    (writeFaults = 0 /\ flushFaults = 0) =>
        \A c \in reported :
            \E i \in DOMAIN file : file[i].type = "callEnd" /\ file[i].call = c

(* What reached the provider is what the trace says was asked for: the     *)
(* begin record precedes the call, with the policy under which it was      *)
(* forwarded, and no voltage is forwarded under a record that forbids it.  *)
ForwardedAsRecorded ==
    writeFaults = 0 =>
        \A f \in forwarded :
            /\ \E i \in DOMAIN file :
                  /\ file[i].type = "callBegin"
                  /\ file[i].call = f.call /\ file[i].api = f.api
                  /\ file[i].policy = f.policy
            /\ f.api = "voltage" => f.policy

(* Nothing is forwarded by a proxy that has no trace: the session record   *)
(* is whole and first in the file, whatever fails later.                   *)
FailsClosed ==
    (init = "ready" \/ forwarded # {}) =>
        file # <<>> /\ file[1] = Session(0)

(* Committed evidence is never changed: not by a write, a failed write, a  *)
(* crash, or a program started again on the same path.                     *)
CommittedKept ==
    [][/\ durable' >= durable
       /\ SubSeq(file', 1, durable) = SubSeq(file, 1, durable)]_vars

(* Every call returns, if the process lives, however the threads compete   *)
(* for initialisation and the mutex, and whatever the disk does.           *)
CallReturns ==
    \A t \in Threads : pc[t] # "out" ~> pc[t] = "out"

(* "sequence: contiguous integer beginning at 0".                          *)
SequenceContiguous ==
    \A i \in DOMAIN file : file[i] # Torn => file[i].sequence = i - 1
=============================================================================
