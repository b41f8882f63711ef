------------------------------- MODULE AltScreen -------------------------------
(***************************************************************************)
(* AltScreenFilter: the container's output on its way to the terminal,     *)
(* without the escape sequences that leave the alternate screen.  The      *)
(* stream arrives in chunks cut anywhere.                                  *)
(***************************************************************************)
EXTENDS Naturals, Sequences, SequencesExt

CONSTANTS
    Streams,    \* what the container may write
    MaxChunk    \* longest chunk io.Copy passes on

(* Streams are sequences of symbols. *)
ASSUME StreamsAssumption == \A s \in Streams : s \in Seq(ToSet(s))

VARIABLES
    stream,     \* what the container writes
    pos,        \* bytes of it passed to the filter
    held,       \* AltScreenFilter.buf
    shown       \* what reached the terminal

altVars == <<stream, pos, held, shown>>

Rmcup == {<<"e", "[", "?", "1", "0", "4", "9", "l">>, <<"e", "[", "?", "4", "7", "l">>}

matchRmcup(data) == {seq \in Rmcup : IsPrefix(seq, data)}

(* Mutant of couldBeRmcup: the shorter sequence is not waited for. *)
couldBeLongRmcup(data) ==
    \E seq \in Rmcup : Len(seq) = 8 /\ IsPrefix(data, seq)

(* The data is a proper prefix of a sequence. *)
couldBeRmcup(data) == \E seq \in Rmcup : data # seq /\ IsPrefix(data, seq)

(* What Write passes on of the data from each position, and what it keeps. *)
Filtered(data) ==
    LET from[i \in 1..Len(data) + 1] ==
            LET rest == SubSeq(data, i, Len(data)) IN
            IF i = Len(data) + 1 THEN [out |-> <<>>, buf |-> <<>>]
            ELSE IF data[i] = "e" /\ matchRmcup(rest) # {}
            THEN from[i + Len(CHOOSE seq \in matchRmcup(rest) : TRUE)]
            ELSE IF data[i] = "e" /\ couldBeRmcup(rest)
            THEN [out |-> <<>>, buf |-> rest]
            ELSE [from[i + 1] EXCEPT !.out = <<data[i]>> \o @]
    IN  from[1]

AltInit == stream \in Streams /\ pos = 0 /\ held = <<>> /\ shown = <<>>

Write ==
    \E n \in 1..MaxChunk :
        /\ pos + n <= Len(stream) /\ pos' = pos + n
        /\ LET r == Filtered(held \o SubSeq(stream, pos + 1, pos'))
           IN  shown' = shown \o r.out /\ held' = r.buf
        /\ UNCHANGED stream

(* At the end of the stream. *)
Flush ==
    /\ pos = Len(stream) /\ held # <<>>
    /\ shown' = shown \o held /\ held' = <<>>
    /\ UNCHANGED <<stream, pos>>

AltNext == Write \/ Flush

AltSpec == AltInit /\ [][AltNext]_altVars

-----------------------------------------------------------------------------
(* Properties *)

(* The stream without its sequences, by their places in it. *)
Visible(data) ==
    LET at(i) == {seq \in Rmcup : IsPrefix(seq, SubSeq(data, i, Len(data)))}
        hidden == {k \in DOMAIN data : \E i \in 1..k : \E seq \in at(i) : k < i + Len(seq)}
        kept[k \in 0..Len(data)] ==
            IF k = 0 THEN <<>> ELSE IF k \in hidden THEN kept[k - 1] ELSE Append(kept[k - 1], data[k])
    IN  kept[Len(data)]

(* However the stream is cut, the terminal gets all of it but the complete  *)
(* sequences; what is held back is only the start of one.                   *)
FilterExact ==
    /\ shown \o held = Visible(SubSeq(stream, 1, pos))
    /\ \E seq \in Rmcup : held # seq /\ IsPrefix(held, seq)
=============================================================================
