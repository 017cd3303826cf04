------------------------------- MODULE LogFiles -------------------------------
(***************************************************************************)
(* The rotating log files of packages/native-host/src/shared/logger.ts, as *)
(* operators on the generations of one file: 0 is <file>.log, i is         *)
(* <file>.log.i, and an empty sequence is a file that does not exist.      *)
(* Sizes are counted in lines.                                             *)
(***************************************************************************)
EXTENDS Integers, SequencesExt

CONSTANTS
    Keep,      \* generations beside the current file: 4 in the code
    MaxLines   \* maxBytes

ASSUME LogFilesAssumption == Keep \in Nat \ {0} /\ MaxLines \in Nat \ {0}

Generations == 0..Keep
NoFiles == [i \in Generations |-> <<>>]

\* All lines, the oldest first.
AllLines(files) ==
    FoldLeft(LAMBDA lines, i : lines \o files[Keep - i], <<>>,
             [i \in 1..(Keep + 1) |-> i - 1])

\* The files once the generations above k have moved up and the oldest is gone;
\* a k of -1 is a rotation that succeeds (mutant: those below k move too, over
\* the one that cannot).
ShiftedOver(files, k) ==
    [i \in Generations |->
        IF i = k + 1 THEN <<>>
        ELSE IF i = 0 THEN IF k = 0 THEN files[0] ELSE <<>>
        ELSE files[i - 1]]
ShiftedAbove(files, k) ==
    [i \in Generations |->
        IF i > k + 1 THEN files[i - 1]
        ELSE IF i = k + 1 THEN <<>> ELSE files[i]]

\* rotate, when somebody holds the generations in busy: one that exists cannot be
\* renamed, and the oldest neither deleted nor replaced.  The first that stands in
\* the way, from the oldest, ends it.
Blocking(files, busy) ==
    {i \in busy : i < Keep /\ files[i] # <<>>}
        \cup {i \in {Keep - 1} : Keep \in busy /\ files[Keep] # <<>> /\ files[i] # <<>>}

Rotates(files, busy) == Blocking(files, busy) = {}

Shifted(files, busy) ==
    ShiftedAbove(files, IF Rotates(files, busy) THEN -1 ELSE Max(Blocking(files, busy)))

Rotated(files, busy) ==
    IF Keep \in busy /\ files[Keep] # <<>>
    THEN [Shifted(files, busy) EXCEPT ![Keep] = files[Keep]]
    ELSE Shifted(files, busy)

\* logRecord: a rotation that fails does not keep the line from being appended; a
\* line whose append is refused is lost.
Written(files, line, busy, refused) ==
    LET ready == IF Len(files[0]) + 1 > MaxLines THEN Rotated(files, busy) ELSE files
    IN  IF line \in refused THEN ready ELSE [ready EXCEPT ![0] = Append(@, line)]

AllWritten(files, lines, busy, refused) ==
    FoldLeft(LAMBDA f, line : Written(f, line, busy, refused), files, lines)
=============================================================================
