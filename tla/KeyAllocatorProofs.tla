-------------------------- MODULE KeyAllocatorProofs --------------------------
(***************************************************************************)
(* No source key and no IMAP id is handed out twice, for every size of the *)
(* reserved blocks.                                                        *)
(***************************************************************************)
EXTENDS KeyAllocator, FiniteSetTheorems, TLAPS

\* The inductive invariant: what is handed out lies below what is on disk, and the sets of
\* numbers are finite and as large as the number of calls.
Counted ==
    /\ IsFiniteSet(keys) /\ Cardinality(keys) = handed
    /\ IsFiniteSet(seqs) /\ Cardinality(seqs) = seqHanded

IInv == TypeOK /\ ReservedOnDisk /\ Counted

\* Adding a number that is not in a finite set adds one to its size.
LEMMA OneMore ==
    ASSUME NEW S, IsFiniteSet(S), NEW n, n \notin S
    PROVE  IsFiniteSet(S \cup {n}) /\ Cardinality(S \cup {n}) = Cardinality(S) + 1
BY FS_AddElement

\* At first nothing is handed out.
LEMMA InitInv == Init => IInv
<1> SUFFICES ASSUME Init PROVE IInv
    OBVIOUS
<1>1. TypeOK
    BY BatchAssumption DEF Init, TypeOK
<1>2. ReservedOnDisk
    BY DEF Init, ReservedOnDisk
<1>3. Counted
    BY FS_EmptySet DEF Init, Counted
<1> QED BY <1>1, <1>2, <1>3 DEF IInv

\* Every step of GetNewSourceKey, GetNewSequence and of a restart keeps the numbers in
\* memory within the block on disk.
LEMMA NextInv == IInv /\ [Next]_vars => IInv'
<1> SUFFICES ASSUME IInv, [Next]_vars PROVE IInv'
    OBVIOUS
<1> USE BatchAssumption
<1>1. CASE ReserveKeys
    <2>1. TypeOK'
        BY <1>1 DEF IInv, TypeOK, ReserveKeys, seqVars
    <2>2. ReservedOnDisk'
        BY <1>1 DEF IInv, TypeOK, ReservedOnDisk, ReserveKeys, seqVars
    <2> QED BY <1>1, <2>1, <2>2 DEF IInv, Counted, ReserveKeys, seqVars
<1>2. CASE ReserveKeysFails
    <2>1. TypeOK'
        BY <1>2 DEF IInv, TypeOK, ReserveKeysFails, seqVars
    <2>2. ReservedOnDisk'
        BY <1>2 DEF IInv, TypeOK, ReservedOnDisk, ReserveKeysFails, seqVars
    <2> QED BY <1>2, <2>1, <2>2 DEF IInv, Counted, ReserveKeysFails, seqVars
<1>3. CASE GetNewSourceKey
    <2>1. TypeOK'
        BY <1>3 DEF IInv, TypeOK, GetNewSourceKey, seqVars
    <2>2. ReservedOnDisk'
        BY <1>3 DEF IInv, TypeOK, ReservedOnDisk, GetNewSourceKey, seqVars
    <2>3. inc + 1 \notin keys
        BY DEF IInv, TypeOK, ReservedOnDisk
    <2>4. IsFiniteSet(keys') /\ Cardinality(keys') = handed'
        BY <1>3, <2>3, OneMore DEF IInv, Counted, GetNewSourceKey
    <2> QED BY <1>3, <2>1, <2>2, <2>4 DEF IInv, Counted, GetNewSourceKey, seqVars
<1>4. CASE DoSequence
    <2>1. TypeOK'
        BY <1>4 DEF IInv, TypeOK, DoSequence, keyVars
    <2>2. ReservedOnDisk'
        BY <1>4 DEF IInv, TypeOK, ReservedOnDisk, DoSequence, keyVars
    <2> QED BY <1>4, <2>1, <2>2 DEF IInv, Counted, DoSequence, keyVars
<1>5. CASE DoSequenceFails
    <2>1. TypeOK'
        BY <1>5 DEF IInv, TypeOK, DoSequenceFails, keyVars
    <2>2. ReservedOnDisk'
        BY <1>5 DEF IInv, TypeOK, ReservedOnDisk, DoSequenceFails, keyVars
    <2> QED BY <1>5, <2>1, <2>2 DEF IInv, Counted, DoSequenceFails, keyVars
<1>6. CASE GetNewSequence
    <2>1. TypeOK'
        BY <1>6 DEF IInv, TypeOK, GetNewSequence, keyVars
    <2>2. ReservedOnDisk'
        BY <1>6 DEF IInv, TypeOK, ReservedOnDisk, GetNewSequence, keyVars
    <2>3. seq \notin seqs
        BY <1>6 DEF IInv, TypeOK, ReservedOnDisk, GetNewSequence
    <2>4. IsFiniteSet(seqs') /\ Cardinality(seqs') = seqHanded'
        BY <1>6, <2>3, OneMore DEF IInv, Counted, GetNewSequence
    <2> QED BY <1>6, <2>1, <2>2, <2>4 DEF IInv, Counted, GetNewSequence, keyVars
<1>7. CASE Crash
    BY <1>7 DEF IInv, TypeOK, ReservedOnDisk, Counted, Crash, keyVars, seqVars
<1>8. CASE LoadSettings
    <2>1. TypeOK'
        BY <1>8 DEF IInv, TypeOK, LoadSettings
    <2>2. ReservedOnDisk'
        BY <1>8 DEF IInv, TypeOK, ReservedOnDisk, LoadSettings
    <2> QED BY <1>8, <2>1, <2>2 DEF IInv, Counted, LoadSettings
<1>9. CASE UNCHANGED vars
    BY <1>9 DEF IInv, TypeOK, ReservedOnDisk, Counted, vars, keyVars, seqVars
<1> QED BY <1>1, <1>2, <1>3, <1>4, <1>5, <1>6, <1>7, <1>8, <1>9 DEF Next

\* The invariant holds of every behaviour: a number that GetNewSourceKey or GetNewSequence
\* may hand out after a restart is always one that no earlier run has handed out.
THEOREM AllocatorInvariant == Spec => []IInv
<1>1. Init => IInv
    BY InitInv
<1>2. IInv /\ [Next]_vars => IInv'
    BY NextInv
<1> QED BY <1>1, <1>2, PTL DEF Spec

\* GetNewSourceKey never returns the same key twice, over crashes and failed updates.
THEOREM SourceKeysNeverRepeat == Spec => []SourceKeysUnique
<1>1. IInv => SourceKeysUnique
    BY DEF IInv, Counted, SourceKeysUnique
<1> QED BY <1>1, AllocatorInvariant, PTL

\* GetNewSequence never returns the same IMAP id twice, and its ids grow.
THEOREM SequencesNeverRepeat == Spec => []SequencesUnique
<1>1. IInv => SequencesUnique
    BY DEF IInv, TypeOK, ReservedOnDisk, Counted, SequencesUnique
<1> QED BY <1>1, AllocatorInvariant, PTL

\* Both at once: no number that the allocator gives out is ever given out again.
THEOREM NumbersNeverRepeat == Spec => []NumbersUnique
<1>1. SourceKeysUnique /\ SequencesUnique => NumbersUnique
    BY DEF NumbersUnique
<1> QED BY <1>1, SourceKeysNeverRepeat, SequencesNeverRepeat, PTL

===============================================================================
