----------------------------- MODULE KeyAllocator -----------------------------
(***************************************************************************)
(* GetNewSourceKey and GetNewSequence of ECSessionManager: numbers for     *)
(* source keys and for IMAP ids.  The server reserves a block of numbers   *)
(* in the settings table and hands them out from memory; the block must be *)
(* on disk first, because the server may stop at any time and begins with  *)
(* what the table says.                                                    *)
(***************************************************************************)
EXTENDS Integers, FiniteSets

CONSTANTS
    Batch,    \* numbers reserved at a time (50)
    MaxKey    \* bound of the model: nothing is reserved above it

ASSUME BatchAssumption == Batch \in Nat \ {0} /\ MaxKey \in Nat

VARIABLES
    up,          \* the server is running
    disk,        \* settings: source_key_auto_increment
    inc,         \* m_ullSourceKeyAutoIncrement
    queue,       \* m_ulSourceKeyQueue
    keys,        \* source keys handed out so far, by any run of the server
    handed,      \* how many
    seqDisk,     \* settings: imapseq, 0 if there is no such row
    seq,         \* m_ulSeqIMAP
    seqQueue,    \* m_ulSeqIMAPQueue
    seqs,        \* IMAP ids handed out so far
    seqHanded    \* how many

keyVars == <<disk, inc, queue, keys, handed>>
seqVars == <<seqDisk, seq, seqQueue, seqs, seqHanded>>
vars == <<up, keyVars, seqVars>>

TypeOK ==
    /\ up \in BOOLEAN
    /\ disk \in Nat /\ inc \in Nat /\ queue \in 0..Batch
    /\ keys \subseteq Nat /\ handed \in Nat
    /\ seqDisk \in Nat /\ seq \in Nat /\ seqQueue \in 0..Batch
    /\ seqs \subseteq Nat /\ seqHanded \in Nat

Init ==
    /\ up = TRUE
    /\ disk = 0 /\ inc = 0 /\ queue = 0 /\ keys = {} /\ handed = 0
    /\ seqDisk = 0 /\ seq = 0 /\ seqQueue = 0 /\ seqs = {} /\ seqHanded = 0

-------------------------------------------------------------------------------
(* Source keys, under m_hSourceKeyAutoIncrementMutex.                      *)

\* Mutant: the block is used although it could not be saved.
ReserveRegardless ==
    /\ up /\ queue = 0 /\ inc + Batch <= MaxKey
    /\ disk' \in {disk, inc + Batch}
    /\ queue' = Batch
    /\ UNCHANGED <<up, inc, keys, handed, seqVars>>

\* SaveSourceKeyAutoIncrement has succeeded: there is a block to hand out.
ReserveKeys ==
    /\ up /\ queue = 0 /\ inc + Batch <= MaxKey
    /\ disk' = inc + Batch
    /\ queue' = Batch
    /\ UNCHANGED <<up, inc, keys, handed, seqVars>>

\* It reports an error, whether the row was updated or not: the caller gets the error.
ReserveKeysFails ==
    /\ up /\ queue = 0 /\ inc + Batch <= MaxKey
    /\ disk' \in {disk, inc + Batch}
    /\ UNCHANGED <<up, inc, queue, keys, handed, seqVars>>

\* Mutant: a number is taken from the block although none is left.
NewSourceKeyOneMore ==
    /\ up /\ queue >= 0
    /\ keys' = keys \cup {inc + 1}
    /\ handed' = handed + 1
    /\ inc' = inc + 1
    /\ queue' = queue - 1
    /\ UNCHANGED <<up, disk, seqVars>>

GetNewSourceKey ==
    /\ up /\ queue > 0
    /\ keys' = keys \cup {inc + 1}
    /\ handed' = handed + 1
    /\ inc' = inc + 1
    /\ queue' = queue - 1
    /\ UNCHANGED <<up, disk, seqVars>>

-------------------------------------------------------------------------------
(* IMAP ids, under m_hSeqMutex.                                            *)

\* DoSequence adds the block to the row, or creates the row, and returns its first number.
DoSequence ==
    /\ up /\ seqQueue = 0 /\ seqDisk + Batch <= MaxKey
    /\ seqDisk' = seqDisk + Batch
    /\ seq' = seqDisk + 1
    /\ seqQueue' = Batch
    /\ UNCHANGED <<up, keyVars, seqs, seqHanded>>

\* An error, before or after the row was updated.
DoSequenceFails ==
    /\ up /\ seqQueue = 0 /\ seqDisk + Batch <= MaxKey
    /\ seqDisk' \in {seqDisk, seqDisk + Batch}
    /\ UNCHANGED <<up, keyVars, seq, seqQueue, seqs, seqHanded>>

GetNewSequence ==
    /\ up /\ seqQueue > 0
    /\ seqs' = seqs \cup {seq}
    /\ seqHanded' = seqHanded + 1
    /\ seq' = seq + 1
    /\ seqQueue' = seqQueue - 1
    /\ UNCHANGED <<up, keyVars, seqDisk>>

-------------------------------------------------------------------------------
\* The server stops or crashes ...
Crash ==
    /\ up
    /\ up' = FALSE
    /\ UNCHANGED <<keyVars, seqVars>>

\* ... and starts with what LoadSettings finds in the table.
LoadSettings ==
    /\ ~up
    /\ up' = TRUE
    /\ inc' = disk /\ queue' = 0
    /\ seq' = 0 /\ seqQueue' = 0
    /\ UNCHANGED <<disk, keys, handed, seqDisk, seqs, seqHanded>>

Next ==
    \/ ReserveKeys \/ ReserveKeysFails \/ GetNewSourceKey
    \/ DoSequence \/ DoSequenceFails \/ GetNewSequence
    \/ Crash \/ LoadSettings

Spec == Init /\ [][Next]_vars

-------------------------------------------------------------------------------
(* Properties                                                              *)

\* No source key is ever handed out twice, however the server is restarted and whichever
\* update of the settings table fails: as many different keys as calls that succeeded.
SourceKeysUnique == Cardinality(keys) = handed

\* The same of IMAP ids; and they grow: a number of a new block is above all earlier ones.
SequencesUnique ==
    /\ Cardinality(seqs) = seqHanded
    /\ up /\ seqQueue > 0 => \A n \in seqs : n < seq

\* GetNewSourceKey and GetNewSequence never repeat a number.
NumbersUnique == SourceKeysUnique /\ SequencesUnique

\* Why: what has been handed out, and what is left of the block in memory, is covered by the
\* number on disk.  This is the inductive strengthening of the two.
ReservedOnDisk ==
    /\ keys \subseteq 1..inc /\ inc + queue <= disk
    /\ seqs \subseteq 1..seqDisk
    /\ seqQueue > 0 => seqs \subseteq 1..(seq - 1) /\ seq + seqQueue <= seqDisk + 1 /\ seq > 0

===============================================================================
