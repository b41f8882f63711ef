-------------------------- MODULE LogPipeline_proofs --------------------------
(***************************************************************************)
(* The logger, for any number of goroutines and lines and any sizes of the *)
(* tail box, the first answer and the frame.                               *)
(***************************************************************************)
EXTENDS LogPipeline, Induction

-----------------------------------------------------------------------------
(* The terminal *)

Row == {"log", "prompt", "static", "live"} \X Nat
KeptRow == {"log", "prompt", "static"} \X Nat
Screen == [rows : Seq(Row), kept : Seq(KeptRow), muted : BOOLEAN, open : BOOLEAN,
           buf : Seq(Nat), height : Nat]

(* The rows are those to be kept and then the box, if there is one, which   *)
(* shows what the tail holds.                                               *)
Intact(t) ==
    /\ t \in Screen
    /\ \/ t.height = 0 /\ t.rows = t.kept
       \/ /\ t.height = Len(t.buf) + 1 /\ t.open
          /\ t.rows = t.kept \o renderTailBox("live", t.buf)
    /\ ~t.open => t.buf = <<>>
    /\ t.muted => ~t.open

(* Only the main goroutine opens a tail or gives the terminal away. *)
MainInv ==
    /\ main \in {"free", "tail", "left", "asking", "attached", "done", "ended"}
    /\ main = "tail" => term.open
    /\ term.open => main \in {"tail", "left"}
    /\ term.muted => main = "attached"

-----------------------------------------------------------------------------
(* The full log *)

Entry == {"line", "tail"} \X Nat

(* Lines are buffered until there is a file; what is not marked is synced. *)
DiskInv ==
    /\ file \in Seq(Entry) /\ buffer \in Seq(Entry)
    /\ writer \in {"none", "open", "stopping", "stopped", "closed"}
    /\ dirty \in BOOLEAN /\ synced \in Nat
    /\ writer = "none" => file = <<>> /\ ~dirty
    /\ writer # "none" => buffer = <<>>
    /\ ~dirty => synced = Len(file)

(* Call numbers only grow. *)
CallInv ==
    /\ calls \in Nat /\ issued \subseteq Nat /\ long \subseteq Nat
    /\ \A n \in issued \cup long : n <= calls
    /\ Records(file \o buffer, issued)

-----------------------------------------------------------------------------
(* The reader *)

(* The scanner gets past the first n lines of f, where l are long. *)
Clean(f, l, n) == n \in 0..Len(f) /\ \A i \in 1..n : ~(f[i][1] = "line" /\ f[i][2] \in l)

(* p are places of a file of n lines, and skips none; nor does it repeat    *)
(* any, when no reading has failed.                                         *)
Follows(p, n, failures) ==
    /\ p \in Seq(Nat) /\ \A i \in DOMAIN p : p[i] \in 1..n
    /\ \A i \in 2..Len(p) :
            /\ p[i] <= p[i - 1] + 1
            /\ failures = 0 => p[i] = p[i - 1] + 1

(* p ends at the offset o or, after a failed reading, behind it. *)
EndsAt(p, o, failures) ==
    p # <<>> => o <= p[Len(p)] /\ (failures = 0 => o = p[Len(p)])

(* An answer goes on at the offset or before it. *)
AnswerInv ==
    /\ reply.start \in Nat /\ reply.total \in Nat
    /\ reply.start <= offset /\ reply.start <= reply.total /\ reply.total <= Len(file)
    /\ fails = 0 => reply.start = offset /\ Clean(file, long, reply.total)

(* The reader has printed all it was sent up to its offset, and while no    *)
(* reading has failed its offset is a place the scanner gets to.            *)
ReaderInv ==
    /\ reader \in {"start", "first", "more", "gotFirst", "gotMore", "follow", "hung", "ended"}
    /\ fails \in Nat /\ offset \in Nat /\ offset <= Len(file)
    /\ fails = 0 => Clean(file, long, offset)
    /\ Follows(printed, Len(file), fails) /\ EndsAt(printed, offset, fails)
    /\ reader \in {"start", "first", "gotFirst"} => offset = 0
    /\ reader \in {"gotFirst", "gotMore"} => AnswerInv

LogInv == Intact(term) /\ MainInv /\ DiskInv /\ CallInv /\ ReaderInv

-----------------------------------------------------------------------------
(* Sequences *)

LEMMA WiderSeq ==
    ASSUME NEW S, NEW T, S \subseteq T, NEW s \in Seq(S)
    PROVE  s \in Seq(T)
  OBVIOUS

LEMMA FirstPart ==
    ASSUME NEW S, NEW a \in Seq(S), NEW b \in Seq(S)
    PROVE  SubSeq(a \o b, 1, Len(a)) = a
  OBVIOUS

(* The elements of a longer sequence are those of its two parts. *)
LEMMA TwoParts ==
    ASSUME NEW S, NEW a \in Seq(S), NEW b \in Seq(S)
    PROVE  /\ a \o b \in Seq(S) /\ Len(a \o b) = Len(a) + Len(b)
           /\ \A i \in 1..Len(a) : (a \o b)[i] = a[i]
           /\ \A i \in 1..Len(b) : (a \o b)[Len(a) + i] = b[i]
           /\ \A i \in 1..Len(a \o b) : i > Len(a) => i - Len(a) \in 1..Len(b)
  OBVIOUS

-----------------------------------------------------------------------------
(* Operations on the terminal *)

(* A box of n lines has a title and n rows. *)
LEMMA BoxRows ==
    ASSUME NEW buf \in Seq(Nat), NEW kind
    PROVE  /\ renderTailBox(kind, buf) \in Seq({kind} \X Nat)
           /\ Len(renderTailBox(kind, buf)) = Len(buf) + 1
<1>1. [i \in DOMAIN buf |-> <<kind, buf[i]>>] \in Seq({kind} \X Nat)
  OBVIOUS
<1>2. Len([i \in DOMAIN buf |-> <<kind, buf[i]>>]) = Len(buf)
  OBVIOUS
<1>3. <<<<kind, 0>>>> \in Seq({kind} \X Nat)
  OBVIOUS
<1>4. QED
  BY <1>1, <1>2, <1>3 DEF renderTailBox

(* Clearing the box leaves the rows to be kept. *)
LEMMA Cleared ==
    ASSUME NEW t, Intact(t)
    PROVE  clearTailBoxLocked(t) = [t EXCEPT !.rows = t.kept, !.height = 0]
<1>1. t \in Screen
  BY DEF Intact
<1>2. CASE t.height = 0 /\ t.rows = t.kept
  <2>1. SubSeq(t.rows, 1, Len(t.rows) - t.height) = t.rows
    BY <1>1, <1>2 DEF Screen
  <2>2. QED
    BY <1>1, <1>2, <2>1 DEF clearTailBoxLocked
<1>3. CASE /\ t.height = Len(t.buf) + 1 /\ t.open
           /\ t.rows = t.kept \o renderTailBox("live", t.buf)
  <2>1. ~t.muted
    BY <1>3 DEF Intact
  <2>2. t.kept \in Seq(Row) /\ renderTailBox("live", t.buf) \in Seq(Row)
    <3>1. {"live"} \X Nat \subseteq Row /\ KeptRow \subseteq Row
      BY DEF Row, KeptRow
    <3>2. renderTailBox("live", t.buf) \in Seq({"live"} \X Nat)
      BY <1>1, BoxRows DEF Screen
    <3>3. t.kept \in Seq(KeptRow)
      BY <1>1 DEF Screen
    <3>4. QED
      BY <3>1, <3>2, <3>3, WiderSeq
  <2>3. Len(renderTailBox("live", t.buf)) = Len(t.buf) + 1
    BY <1>1, BoxRows DEF Screen
  <2>4. SubSeq(t.rows, 1, Len(t.rows) - t.height) = t.kept
    BY <1>1, <1>3, <2>2, <2>3, FirstPart DEF Screen
  <2>5. QED
    BY <1>1, <2>1, <2>4 DEF clearTailBoxLocked
<1>4. QED
  BY <1>2, <1>3 DEF Intact

(* There is no box. *)
Flat(t) == Intact(t) /\ t.height = 0 /\ t.rows = t.kept

(* The tail and the mute are as before. *)
Keeps(t, u) == u.open = t.open /\ u.buf = t.buf /\ u.muted = t.muted

LEMMA ClearedIsFlat ==
    ASSUME NEW t, Intact(t)
    PROVE  Flat(clearTailBoxLocked(t)) /\ Keeps(t, clearTailBoxLocked(t))
<1>1. PICK u : u = [t EXCEPT !.rows = t.kept, !.height = 0]
  OBVIOUS
<1>2. t \in Screen
  BY DEF Intact
<1>3. t.kept \in Seq(Row)
  <2>1. KeptRow \subseteq Row /\ t.kept \in Seq(KeptRow)
    BY <1>2 DEF Row, KeptRow, Screen
  <2>2. QED
    BY <2>1, WiderSeq
<1>4. u \in Screen /\ u.rows = u.kept /\ u.height = 0 /\ Keeps(t, u)
  BY <1>1, <1>2, <1>3 DEF Screen, Keeps
<1>5. QED
  BY <1>1, <1>4, Cleared DEF Flat, Intact, Keeps

(* Text goes below what is there. *)
LEMMA OutIsFlat ==
    ASSUME NEW t, Flat(t), NEW rows \in Seq(KeptRow)
    PROVE  Flat(Out(t, rows)) /\ Keeps(t, Out(t, rows))
<1>1. t \in Screen /\ t.rows = t.kept /\ t.height = 0
  BY DEF Flat, Intact
<1>2. CASE t.muted
  BY <1>2 DEF Out, Keeps
<1>3. CASE ~t.muted
  <2>1. PICK u : u = [t EXCEPT !.rows = t.rows \o rows, !.kept = t.kept \o rows]
    OBVIOUS
  <2>2. t.rows \o rows \in Seq(Row) /\ t.kept \o rows \in Seq(KeptRow)
    <3>1. KeptRow \subseteq Row /\ t.kept \in Seq(KeptRow) /\ t.rows \in Seq(Row)
      BY <1>1 DEF Row, KeptRow, Screen
    <3>2. rows \in Seq(Row)
      BY <3>1, WiderSeq
    <3>3. QED
      BY <3>1, <3>2
  <2>3. u \in Screen /\ u.rows = u.kept /\ u.height = 0 /\ Keeps(t, u)
    BY <1>1, <2>1, <2>2 DEF Screen, Keeps
  <2>4. Out(t, rows) = u
    BY <1>3, <2>1 DEF Out
  <2>5. QED
    BY <2>3, <2>4 DEF Flat, Intact, Keeps
<1>4. QED
  BY <1>2, <1>3

(* Drawing puts the box below what is there. *)
LEMMA DrawnIsIntact ==
    ASSUME NEW t, Flat(t), t.open
    PROVE  Intact(drawTailBoxLocked(t)) /\ Keeps(t, drawTailBoxLocked(t))
<1>1. t \in Screen /\ t.rows = t.kept /\ t.height = 0 /\ ~t.muted
  BY DEF Flat, Intact
<1>2. CASE t.buf = <<>>
  BY <1>2 DEF drawTailBoxLocked, Flat, Keeps
<1>3. CASE t.buf # <<>>
  <2>1. PICK box : box = renderTailBox("live", t.buf)
    OBVIOUS
  <2>2. PICK u : u = [t EXCEPT !.rows = t.rows \o box, !.height = Len(t.buf) + 1]
    OBVIOUS
  <2>3. t.rows \o box \in Seq(Row)
    <3>1. {"live"} \X Nat \subseteq Row
      BY DEF Row
    <3>2. box \in Seq({"live"} \X Nat) /\ t.rows \in Seq(Row)
      BY <1>1, <2>1, BoxRows DEF Screen
    <3>3. box \in Seq(Row)
      BY <3>1, <3>2, WiderSeq
    <3>4. QED
      BY <3>2, <3>3
  <2>4. u \in Screen /\ u.rows = u.kept \o box /\ u.height = Len(u.buf) + 1 /\ Keeps(t, u)
    <3>1. Len(t.buf) + 1 \in Nat
      BY <1>1 DEF Screen
    <3>2. u \in Screen
      BY <1>1, <2>2, <2>3, <3>1 DEF Screen
    <3>3. /\ u.rows = t.rows \o box /\ u.kept = t.kept /\ u.height = Len(t.buf) + 1
          /\ u.open = t.open /\ u.buf = t.buf /\ u.muted = t.muted
      BY <1>1, <2>2 DEF Screen
    <3>4. QED
      BY <1>1, <3>2, <3>3 DEF Keeps
  <2>5. drawTailBoxLocked(t) = u
    <3>1. PICK o : o = [t EXCEPT !.rows = t.rows \o box, !.kept = t.kept \o box]
      OBVIOUS
    <3>2. Out(t, box) = o
      BY <1>1, <3>1 DEF Out
    <3>3. [o EXCEPT !.height = Len(t.buf) + 1, !.kept = t.kept] = u
      BY <1>1, <2>2, <3>1 DEF Screen
    <3>4. QED
      BY <1>3, <2>1, <3>2, <3>3 DEF drawTailBoxLocked
  <2>6. QED
    <3>1. u.open /\ ~u.muted /\ u.rows = u.kept \o renderTailBox("live", u.buf)
      BY <1>1, <2>1, <2>4 DEF Keeps
    <3>2. QED
      BY <2>4, <2>5, <3>1 DEF Intact
<1>4. QED
  BY <1>2, <1>3

LEMMA FinalizedIsFlat ==
    ASSUME NEW t, Intact(t)
    PROVE  /\ Flat(finalizeTailLocked(t))
           /\ ~finalizeTailLocked(t).open
           /\ finalizeTailLocked(t).muted = t.muted
<1>1. CASE ~t.open
  BY <1>1 DEF finalizeTailLocked, Intact, Flat
<1>2. CASE t.open
  <2>1. PICK c : c = clearTailBoxLocked(t)
    OBVIOUS
  <2>2. Flat(c) /\ Keeps(t, c)
    BY <2>1, ClearedIsFlat
  <2>3. PICK s : s = IF c.buf = <<>> THEN c ELSE Out(c, renderTailBox("static", c.buf))
    OBVIOUS
  <2>4. renderTailBox("static", c.buf) \in Seq(KeptRow)
    <3>1. c.buf \in Seq(Nat) /\ {"static"} \X Nat \subseteq KeptRow
      BY <2>2 DEF Flat, Intact, Screen, KeptRow
    <3>2. renderTailBox("static", c.buf) \in Seq({"static"} \X Nat)
      BY <3>1, BoxRows
    <3>3. QED
      BY <3>1, <3>2, WiderSeq
  <2>5. Flat(s) /\ Keeps(t, s)
    BY <2>2, <2>3, <2>4, OutIsFlat DEF Keeps
  <2>6. PICK u : u = [s EXCEPT !.open = FALSE, !.buf = <<>>]
    OBVIOUS
  <2>7. s \in Screen /\ s.rows = s.kept /\ s.height = 0
    BY <2>5 DEF Flat, Intact
  <2>8. u \in Screen /\ u.rows = u.kept /\ u.height = 0 /\ ~u.open /\ u.buf = <<>> /\ u.muted = s.muted
    <3>1. <<>> \in Seq(Nat)
      OBVIOUS
    <3>2. u \in Screen
      BY <2>6, <2>7, <3>1 DEF Screen
    <3>3. /\ u.rows = s.rows /\ u.kept = s.kept /\ u.height = s.height
          /\ u.open = FALSE /\ u.buf = <<>> /\ u.muted = s.muted
      BY <2>6, <2>7 DEF Screen
    <3>4. QED
      BY <2>7, <3>2, <3>3
  <2>9. finalizeTailLocked(t) = u
    BY <1>2, <2>1, <2>3, <2>6 DEF finalizeTailLocked
  <2>10. QED
    BY <2>5, <2>8, <2>9 DEF Flat, Intact, Keeps
<1>3. QED
  BY <1>1, <1>2

(* A logger call keeps the screen intact, whether it prints or not. *)
LEMMA LoggedIsIntact ==
    ASSUME NEW t, Intact(t), NEW n \in Nat, NEW silent \in BOOLEAN
    PROVE  Intact(printLog(t, n, silent)) /\ Keeps(t, printLog(t, n, silent))
<1>1. PICK c : c = IF t.open THEN clearTailBoxLocked(t) ELSE t
  OBVIOUS
<1>2. Flat(c) /\ Keeps(t, c)
  BY <1>1, ClearedIsFlat DEF Flat, Intact, Keeps
<1>3. CASE silent
  BY <1>1, <1>2, <1>3 DEF printLog, Flat
<1>4. CASE ~silent
  <2>1. PICK s : s = Out(c, <<<<"log", n>>>>)
    OBVIOUS
  <2>2. <<<<"log", n>>>> \in Seq(KeptRow)
    BY DEF KeptRow
  <2>3. Flat(s) /\ Keeps(c, s)
    BY <1>2, <2>1, <2>2, OutIsFlat
  <2>4. printLog(t, n, silent) = IF s.open THEN drawTailBoxLocked(s) ELSE s
    BY <1>1, <1>4, <2>1 DEF printLog
  <2>5. QED
    BY <1>2, <2>3, <2>4, DrawnIsIntact DEF Flat, Keeps
<1>5. QED
  BY <1>3, <1>4

(* A line of a tail redraws the box. *)
LEMMA TailedIsIntact ==
    ASSUME NEW t, Intact(t), t.open, NEW n \in Nat
    PROVE  /\ Intact(printLocked(t, n))
           /\ printLocked(t, n).open /\ printLocked(t, n).muted = t.muted
<1>1. PICK buf : buf = IF Len(Append(t.buf, n)) > TailLines THEN Tail(Append(t.buf, n))
                       ELSE Append(t.buf, n)
  OBVIOUS
<1>2. t \in Screen /\ t.buf \in Seq(Nat)
  BY DEF Intact, Screen
<1>3. buf \in Seq(Nat)
  BY <1>1, <1>2, TailAssumption, SMTT(60)
<1>4. PICK b : b = [t EXCEPT !.buf = buf]
  OBVIOUS
<1>5. b \in Screen
  BY <1>2, <1>3, <1>4 DEF Screen
<1>6. PICK c : c = clearTailBoxLocked(t)
  OBVIOUS
<1>7. Flat(c) /\ Keeps(t, c)
  BY <1>6, ClearedIsFlat
<1>8. PICK u : u = [c EXCEPT !.buf = buf]
  OBVIOUS
<1>9. clearTailBoxLocked(b) = u
  BY <1>2, <1>4, <1>6, <1>8 DEF clearTailBoxLocked, Screen
<1>10. c \in Screen /\ c.rows = c.kept /\ c.height = 0
  BY <1>7 DEF Flat, Intact
<1>11. u \in Screen /\ u.rows = u.kept /\ u.height = 0 /\ u.open = t.open /\ u.muted = t.muted
  BY <1>3, <1>7, <1>8, <1>10 DEF Screen, Keeps
<1>12. Flat(u)
  BY <1>11 DEF Flat, Intact
<1>13. printLocked(t, n) = drawTailBoxLocked(u)
  BY <1>1, <1>4, <1>9 DEF printLocked
<1>14. QED
  BY <1>11, <1>12, <1>13, DrawnIsIntact DEF Keeps

(* Whether a call of the kind is silent is a yes or a no. *)
LEMMA SilentIsBoolean == \A kind : Silent(kind) \in BOOLEAN
  BY DEF Silent

(* An open tail on an empty screen of its own. *)
LEMMA OpenedIsIntact ==
    ASSUME NEW t, Flat(t), ~t.open, ~t.muted
    PROVE  /\ Intact([t EXCEPT !.open = TRUE])
           /\ [t EXCEPT !.open = TRUE].open /\ ~[t EXCEPT !.open = TRUE].muted
<1>1. t \in Screen /\ t.rows = t.kept /\ t.height = 0
  BY DEF Flat, Intact
<1>2. PICK u : u = [t EXCEPT !.open = TRUE]
  OBVIOUS
<1>3. u \in Screen
  BY <1>1, <1>2 DEF Screen
<1>4. u.rows = t.rows /\ u.kept = t.kept /\ u.height = t.height /\ u.open = TRUE /\ u.muted = t.muted
  BY <1>1, <1>2 DEF Screen
<1>5. QED
  BY <1>1, <1>2, <1>3, <1>4 DEF Intact

(* Giving the terminal away and taking it back. *)
LEMMA MutedIsIntact ==
    ASSUME NEW t, Intact(t), ~t.open, NEW b \in BOOLEAN
    PROVE  /\ Intact([t EXCEPT !.muted = b])
           /\ ~[t EXCEPT !.muted = b].open /\ [t EXCEPT !.muted = b].muted = b
<1>1. t \in Screen /\ t.rows = t.kept /\ t.height = 0 /\ t.buf = <<>>
  BY DEF Intact
<1>2. PICK u : u = [t EXCEPT !.muted = b]
  OBVIOUS
<1>3. u \in Screen
  BY <1>1, <1>2 DEF Screen
<1>4. /\ u.rows = t.rows /\ u.kept = t.kept /\ u.height = t.height /\ u.open = t.open
      /\ u.buf = t.buf /\ u.muted = b
  BY <1>1, <1>2 DEF Screen
<1>5. QED
  BY <1>1, <1>2, <1>3, <1>4 DEF Intact

(* No step of any goroutine takes a kept row or leaves one of the box. *)
LEMMA ScreenStep ==
    ASSUME Intact(term), MainInv, calls \in Nat, [Next]_vars
    PROVE  Intact(term') /\ MainInv'
<1>1. ASSUME NEW kind, Log(kind) PROVE Intact(term') /\ MainInv'
  <2>1. calls' \in Nat /\ main' = main
    BY <1>1 DEF Log, NextCalls
  <2>2. Silent(kind) \in BOOLEAN /\ term' = printLog(term, calls', Silent(kind))
    BY <1>1, SilentIsBoolean DEF Log
  <2>3. Intact(term') /\ Keeps(term, term')
    BY <2>1, <2>2, LoggedIsIntact
  <2>4. QED
    BY <2>1, <2>3 DEF MainInv, Keeps
<1>2. CASE Banner
  <2>1. calls' \in Nat /\ main' = main /\ term' = printLog(term, calls', FALSE)
    BY <1>2 DEF Banner, NextCalls
  <2>2. Intact(term') /\ Keeps(term, term')
    BY <2>1, LoggedIsIntact
  <2>3. QED
    BY <2>1, <2>2 DEF MainInv, Keeps
<1>3. CASE NewTail
  <2>1. PICK f : f = finalizeTailLocked(term)
    OBVIOUS
  <2>2. Flat(f) /\ ~f.open /\ f.muted = term.muted
    BY <2>1, FinalizedIsFlat
  <2>3. ~term.muted /\ main' = "tail" /\ term' = [f EXCEPT !.open = TRUE]
    BY <1>3, <2>1 DEF NewTail, MainInv
  <2>4. Intact(term') /\ term'.open /\ ~term'.muted
    BY <2>2, <2>3, OpenedIsIntact
  <2>5. QED
    BY <2>3, <2>4 DEF MainInv
<1>4. CASE TailPrint
  <2>1. /\ calls' \in Nat /\ main = "tail" /\ main' = main
        /\ term' = printLocked(term, calls') /\ term.open
    BY <1>4 DEF TailPrint, NextCalls, MainInv
  <2>2. Intact(term') /\ term'.open /\ term'.muted = term.muted
    BY <2>1, TailedIsIntact
  <2>3. QED
    BY <2>1, <2>2 DEF MainInv
<1>5. ASSUME term' = finalizeTailLocked(term), main' \in {"free", "ended"}, main # "attached"
      PROVE  Intact(term') /\ MainInv'
  <2>1. Flat(term') /\ ~term'.open /\ term'.muted = term.muted
    BY <1>5, FinalizedIsFlat
  <2>2. QED
    BY <1>5, <2>1 DEF MainInv, Flat
<1>6. CASE TailClose
  <2>1. main = "tail"
    BY <1>6 DEF TailClose
  <2>2. CASE main' = "free" /\ term' = finalizeTailLocked(term)
    BY <1>5, <2>1, <2>2
  <2>3. CASE main' = "left" /\ term' = term
    BY <2>1, <2>3 DEF MainInv
  <2>4. QED
    BY <1>6, <2>2, <2>3 DEF TailClose
<1>7. CASE Close
  BY <1>5, <1>7 DEF Close
<1>8. CASE Ask
  <2>1. PICK f : f = finalizeTailLocked(term)
    OBVIOUS
  <2>2. Flat(f) /\ ~f.open /\ f.muted = term.muted
    BY <2>1, FinalizedIsFlat
  <2>3. calls + 1 \in Nat /\ calls' \in Nat /\ main = "free" /\ main' = "asking"
    BY <1>8 DEF Ask, NextCalls
  <2>4. PICK p : p = printLog(f, calls + 1, FALSE)
    OBVIOUS
  <2>5. Intact(p) /\ Keeps(f, p)
    BY <2>2, <2>3, <2>4, LoggedIsIntact DEF Flat
  <2>6. Flat(p)
    BY <2>2, <2>5 DEF Flat, Intact, Keeps
  <2>7. <<<<"prompt", calls'>>>> \in Seq(KeptRow)
    BY <2>3 DEF KeptRow
  <2>8. term' = Out(p, <<<<"prompt", calls'>>>>)
    BY <1>8, <2>1, <2>4 DEF Ask
  <2>9. Flat(term') /\ Keeps(p, term')
    BY <2>6, <2>7, <2>8, OutIsFlat
  <2>10. QED
    BY <2>2, <2>3, <2>5, <2>9 DEF MainInv, Keeps, Flat
<1>9. CASE Answer
  <2>1. main = "asking" /\ main' = "free"
    BY <1>9 DEF Answer
  <2>2. CASE term' = term
    BY <2>1, <2>2 DEF MainInv
  <2>3. CASE NextCalls(1) /\ \E silent \in BOOLEAN : term' = printLog(term, calls', silent)
    <3>1. calls' \in Nat
      BY <2>3 DEF NextCalls
    <3>2. PICK silent \in BOOLEAN : term' = printLog(term, calls', silent)
      BY <2>3
    <3>3. Intact(term') /\ Keeps(term, term')
      BY <3>1, <3>2, LoggedIsIntact
    <3>4. QED
      BY <2>1, <3>3 DEF MainInv, Keeps
  <2>4. QED
    BY <1>9, <2>2, <2>3 DEF Answer
<1>10. CASE Attach
  <2>1. ~term.open /\ main' = "attached" /\ term' = [term EXCEPT !.muted = TRUE]
    BY <1>10 DEF Attach, MainInv
  <2>2. Intact(term') /\ ~term'.open
    BY <2>1, MutedIsIntact
  <2>3. QED
    BY <2>1, <2>2 DEF MainInv
<1>11. CASE Detach
  <2>1. ~term.open /\ main' = "done" /\ term' = [term EXCEPT !.muted = FALSE]
    BY <1>11 DEF Detach, MainInv
  <2>2. Intact(term') /\ ~term'.open /\ term'.muted = FALSE
    BY <2>1, MutedIsIntact
  <2>3. QED
    BY <2>1, <2>2 DEF MainInv
<1>12. CASE UNCHANGED <<main, term>>
  BY <1>12 DEF MainInv
<1>13. CASE SetFullLogWriter \/ OnLog \/ Syncing \/ Reading \/ ReadFails \/ ReaderEnds \/ UNCHANGED vars
  BY <1>12, <1>13 DEF SetFullLogWriter, OnLog, Syncing, Tick, StopLoop, CloseFile, Reading, FetchLogs,
     onFetchLogs, Respond, ReadFails, PrintFirst, PrintMore, ReaderEnds, vars, logger
<1>14. QED
  BY <1>1, <1>2, <1>3, <1>4, <1>6, <1>7, <1>8, <1>9, <1>10, <1>11, <1>13 DEF Next, LogMain, LogOther

(* What Intact says of a terminal is what ScreenIntact asks for. *)
LEMMA IntactShows ==
    ASSUME Intact(term)
    PROVE  ScreenIntact
<1>1. PICK rows, kept, buf : rows = term.rows /\ kept = term.kept /\ buf = term.buf
  OBVIOUS
<1>2. rows \in Seq(Row) /\ kept \in Seq(KeptRow) /\ buf \in Seq(Nat) /\ kept \in Seq(Row)
  <2>1. rows \in Seq(Row) /\ kept \in Seq(KeptRow) /\ buf \in Seq(Nat)
    BY <1>1 DEF Intact, Screen
  <2>2. KeptRow \subseteq Row
    BY DEF KeptRow, Row
  <2>3. QED
    BY <2>1, <2>2, WiderSeq
<1>3. \A i \in 1..Len(kept) : ~IsLive(kept[i])
  <2>1. \A i \in 1..Len(kept) : kept[i] \in KeptRow
    BY <1>2
  <2>2. QED
    BY <2>1 DEF IsLive, KeptRow
<1>4. CASE term.height = 0 /\ rows = kept
  <2>1. PICK above : above = Len(rows) - term.height
    OBVIOUS
  <2>2. above = Len(rows) /\ SubSeq(rows, 1, Len(rows)) = rows /\ DOMAIN rows = 1..Len(rows)
    BY <1>2, <1>4, <2>1
  <2>3. \A i \in DOMAIN rows : ~IsLive(rows[i]) /\ ~(i > above)
    BY <1>2, <1>3, <1>4, <2>2
  <2>4. QED
    BY <1>1, <1>4, <2>1, <2>2, <2>3 DEF ScreenIntact
<1>5. CASE term.height = Len(buf) + 1 /\ rows = kept \o renderTailBox("live", buf)
  <2>1. PICK box, above : box = renderTailBox("live", buf) /\ above = Len(rows) - term.height
    OBVIOUS
  <2>2. box \in Seq({"live"} \X Nat) /\ Len(box) = Len(buf) + 1
    BY <1>2, <2>1, BoxRows
  <2>3. \A i \in 1..Len(box) : IsLive(box[i])
    <3>1. \A i \in 1..Len(box) : box[i] \in {"live"} \X Nat
      BY <2>2
    <3>2. QED
      BY <3>1 DEF IsLive
  <2>4. box \in Seq(Row)
    <3>1. {"live"} \X Nat \subseteq Row
      BY DEF Row
    <3>2. QED
      BY <2>2, <3>1, WiderSeq
  <2>5. /\ Len(rows) = Len(kept) + Len(box) /\ Len(kept) \in Nat /\ DOMAIN rows = 1..Len(rows)
        /\ \A i \in 1..Len(kept) : rows[i] = kept[i]
        /\ \A i \in 1..Len(box) : rows[Len(kept) + i] = box[i]
    BY <1>2, <1>5, <2>1, <2>4, TwoParts
  <2>6. above = Len(kept)
    BY <1>2, <1>5, <2>1, <2>2, <2>5
  <2>7. SubSeq(rows, 1, above) = kept
    BY <1>2, <1>5, <2>1, <2>4, <2>6, FirstPart
  <2>8. ASSUME NEW i \in DOMAIN rows PROVE IsLive(rows[i]) <=> i > above
    <3>0. i \in Nat /\ 1 <= i /\ i <= Len(kept) + Len(box) /\ Len(box) \in Nat
      BY <2>2, <2>5, <2>8
    <3>1. CASE i <= Len(kept)
      BY <1>3, <2>5, <2>6, <3>0, <3>1
    <3>2. CASE i > Len(kept)
      <4>1. PICK j : j = i - Len(kept)
        OBVIOUS
      <4>2. j \in 1..Len(box) /\ i = Len(kept) + j
        BY <2>5, <3>0, <3>2, <4>1
      <4>3. QED
        BY <2>3, <2>5, <2>6, <3>2, <4>2
    <3>3. QED
      BY <2>5, <3>0, <3>1, <3>2
  <2>9. QED
    BY <1>1, <2>1, <2>7, <2>8 DEF ScreenIntact
<1>6. QED
  BY <1>1, <1>4, <1>5 DEF Intact

-----------------------------------------------------------------------------
(* What a step adds to the log *)

Other == {"tail"} \X Nat

(* The lines x follow those logged so far. *)
Grew(x) ==
    /\ DiskInv'
    /\ file' \o buffer' = (file \o buffer) \o x
    /\ \E y \in Seq(Entry) : file' = file \o y

LEMMA EntriesOf ==
    /\ \A n \in Nat : Line(n) \in Seq(Entry) /\ Len(Line(n)) = 1 /\ Line(n)[1] = <<"line", n>>
    /\ Boundary \in Seq(Other)
    /\ Other \subseteq Entry
  BY DEF Line, Boundary, Entry, Other

LEMMA NothingAdded ==
    ASSUME DiskInv, UNCHANGED <<disk, buffer>>
    PROVE  Grew(<<>>)
<1>1. file' = file /\ buffer' = buffer /\ writer' = writer /\ dirty' = dirty /\ synced' = synced
  BY DEF disk
<1>2. file \o <<>> = file /\ (file \o buffer) \o <<>> = file \o buffer /\ <<>> \in Seq(Entry)
  BY DEF DiskInv
<1>3. QED
  BY <1>1, <1>2 DEF Grew, DiskInv

(* A write to the file, synced or not. *)
LEMMA FileWritten ==
    ASSUME DiskInv, NEW x \in Seq(Entry), Full, Write(x) \/ WriteAndSync(x), UNCHANGED buffer
    PROVE  Grew(x)
<1>1. /\ file' = file \o x /\ buffer' = <<>> /\ buffer = <<>> /\ writer' = writer /\ writer # "none"
      /\ dirty' \in BOOLEAN /\ synced' \in {synced, Len(file')} /\ (~dirty' => synced' = Len(file'))
  BY DEF DiskInv, Full, Write, WriteAndSync
<1>2. /\ file \in Seq(Entry) /\ file \o x \in Seq(Entry) /\ Len(file \o x) \in Nat
      /\ (file \o x) \o <<>> = (file \o <<>>) \o x
  BY DEF DiskInv
<1>3. DiskInv'
  BY <1>1, <1>2 DEF DiskInv
<1>4. QED
  BY <1>1, <1>2, <1>3 DEF Grew

(* A line goes to the file or to the buffer, and follows the others. *)
LEMMA FullLogWritten ==
    ASSUME DiskInv, NEW x \in Seq(Entry), writeFullLogLocked(x)
    PROVE  Grew(x)
<1>1. CASE Full
  BY <1>1, FileWritten DEF writeFullLogLocked
<1>2. CASE ~Full
  <2>1. /\ file' = file /\ file = <<>> /\ writer' = writer /\ writer = "none" /\ dirty' = dirty
        /\ synced' = synced /\ buffer' = buffer \o x
    BY <1>2 DEF writeFullLogLocked, disk, Full, DiskInv
  <2>2. /\ <<>> \in Seq(Entry) /\ <<>> \o <<>> = <<>> /\ buffer \in Seq(Entry) /\ buffer \o x \in Seq(Entry)
        /\ <<>> \o (buffer \o x) = (<<>> \o buffer) \o x
    BY DEF DiskInv
  <2>3. DiskInv'
    BY <2>1, <2>2 DEF DiskInv
  <2>4. QED
    BY <2>1, <2>2, <2>3 DEF Grew
<1>3. QED
  BY <1>1, <1>2

(* A box in the file: its title, its lines and what ends it. *)
LEMMA SnapshotIsOther ==
    ASSUME NEW t, t.buf \in Seq(Nat)
    PROVE  Snapshot(t) \in Seq(Other)
<1>1. renderTailBox("tail", t.buf) \in Seq(Other)
  BY BoxRows DEF Other
<1>2. <<>> \in Seq(Other) /\ Boundary \in Seq(Other)
  BY EntriesOf
<1>3. renderTailBox("tail", t.buf) \o Boundary \in Seq(Other)
  BY <1>1, <1>2
<1>4. QED
  BY <1>2, <1>3 DEF Snapshot

LEMMA OtherIsEntry ==
    ASSUME NEW x \in Seq(Other)
    PROVE  x \in Seq(Entry)
  BY EntriesOf, WiderSeq

(* What is no line leaves the record as it is. *)
LEMMA RecordsOther ==
    ASSUME NEW s \in Seq(Entry), NEW N, Records(s, N), NEW x \in Seq(Other)
    PROVE  Records(s \o x, N)
<1>1. PICK u : u = s \o x
  OBVIOUS
<1>2. /\ u \in Seq(Entry) /\ Len(u) = Len(s) + Len(x) /\ Len(s) \in Nat /\ Len(x) \in Nat
      /\ DOMAIN u = 1..Len(u) /\ DOMAIN s = 1..Len(s)
      /\ \A i \in 1..Len(s) : u[i] = s[i]
      /\ \A i \in 1..Len(x) : u[Len(s) + i] = x[i]
  BY <1>1, OtherIsEntry, TwoParts
<1>3. \A i \in 1..Len(x) : ~IsLine(x[i])
  <2>1. \A i \in 1..Len(x) : x[i] \in Other
    OBVIOUS
  <2>2. QED
    BY <2>1 DEF Other, IsLine
<1>4. \A i \in DOMAIN u : IsLine(u[i]) => i \in DOMAIN s
  <2> SUFFICES ASSUME NEW i \in 1..Len(u), i > Len(s) PROVE ~IsLine(u[i])
    BY <1>2
  <2>1. PICK j : j = i - Len(s)
    OBVIOUS
  <2>2. j \in 1..Len(x) /\ i = Len(s) + j
    BY <1>2, <2>1
  <2>3. QED
    BY <1>2, <1>3, <2>2
<1>5. \A i \in DOMAIN s : i \in DOMAIN u /\ u[i] = s[i]
  BY <1>2
<1>6. {j \in DOMAIN u : IsLine(u[j])} = {j \in DOMAIN s : IsLine(s[j])}
  BY <1>4, <1>5
<1>7. QED
  <2>1. {u[i][2] : i \in {j \in DOMAIN u : IsLine(u[j])}} = N
    BY <1>5, <1>6 DEF Records
  <2>2. \A i, j \in DOMAIN u : i < j /\ IsLine(u[i]) /\ IsLine(u[j]) => u[i][2] < u[j][2]
    BY <1>4, <1>5 DEF Records
  <2>3. QED
    BY <1>1, <2>1, <2>2 DEF Records

(* The line of a call newer than all others extends the record. *)
LEMMA RecordsLine ==
    ASSUME NEW s \in Seq(Entry), NEW N, Records(s, N), NEW n \in Nat, \A m \in N : m < n
    PROVE  Records(s \o Line(n), N \cup {n})
<1>1. PICK u, k : u = s \o Line(n) /\ k = Len(s) + 1
  OBVIOUS
<1>2. /\ u \in Seq(Entry) /\ Len(u) = k /\ Len(s) \in Nat /\ k = Len(s) + 1
      /\ DOMAIN u = 1..k /\ DOMAIN s = 1..Len(s)
      /\ \A i \in 1..Len(s) : u[i] = s[i]
      /\ u[k] = <<"line", n>>
  <2>1. PICK x : x = Line(n)
    OBVIOUS
  <2>2. x \in Seq(Entry) /\ Len(x) = 1 /\ x[1] = <<"line", n>>
    BY <2>1, EntriesOf
  <2>3. /\ u \in Seq(Entry) /\ Len(u) = Len(s) + Len(x)
        /\ \A i \in 1..Len(s) : u[i] = s[i]
        /\ \A i \in 1..Len(x) : u[Len(s) + i] = x[i]
    <3>1. u = s \o x /\ x \in Seq(Entry)
      BY <1>1, <2>1, <2>2
    <3>2. QED
      BY <3>1, TwoParts
  <2>4. QED
    BY <1>1, <2>2, <2>3
<1>3. IsLine(u[k]) /\ u[k][2] = n
  BY <1>2 DEF IsLine
<1>4. \A i \in DOMAIN u : i \in DOMAIN s \/ i = k
  BY <1>2
<1>5. /\ k \in DOMAIN u
      /\ \A i \in DOMAIN s : i \in DOMAIN u /\ i < k /\ u[i] = s[i]
  BY <1>2
<1>6. \A i \in DOMAIN s : IsLine(s[i]) => s[i][2] \in N
  BY DEF Records
<1>7. {u[i][2] : i \in {j \in DOMAIN u : IsLine(u[j])}} = N \cup {n}
  <2>1. {s[i][2] : i \in {j \in DOMAIN s : IsLine(s[j])}} = N
    BY DEF Records
  <2>2. QED
    BY <1>3, <1>4, <1>5, <2>1
<1>8. ASSUME NEW i \in DOMAIN u, NEW j \in DOMAIN u, i < j, IsLine(u[i]), IsLine(u[j])
      PROVE  u[i][2] < u[j][2]
  <2>1. i \in DOMAIN s
    BY <1>2, <1>8
  <2>2. CASE j \in DOMAIN s
    BY <1>5, <1>8, <2>1, <2>2 DEF Records
  <2>3. CASE j = k
    BY <1>3, <1>5, <1>6, <1>8, <2>1, <2>3
  <2>4. QED
    BY <1>4, <2>2, <2>3
<1>9. QED
  BY <1>1, <1>7, <1>8 DEF Records

(* The file only grows, and only a line still to come turns out long. *)
FileKept ==
    /\ \E y \in Seq(Entry) : file' = file \o y
    /\ \A n \in long' : n \in long \/ n > calls

(* A call that logs a line. *)
LEMMA LineLogged ==
    ASSUME DiskInv, CallInv, calls' = calls + 1, long' \in {long, long \cup {calls'}},
           Grew(Line(calls')), issued' = issued \cup {calls'}
    PROVE  DiskInv' /\ CallInv' /\ FileKept
<1>1. PICK s, n, u : s = file \o buffer /\ n = calls' /\ u = file' \o buffer'
  OBVIOUS
<1>2. s \in Seq(Entry) /\ n \in Nat /\ n = calls + 1 /\ u = s \o Line(n)
  BY <1>1 DEF DiskInv, CallInv, Grew
<1>3. Records(s, issued) /\ \A m \in issued : m \in Nat /\ m < n
  BY <1>1, <1>2 DEF CallInv
<1>4. Records(u, issued \cup {n})
  BY <1>2, <1>3, RecordsLine
<1>5. Records(file' \o buffer', issued')
  BY <1>1, <1>4
<1>6. /\ calls' \in Nat /\ issued' \subseteq Nat /\ long' \subseteq Nat
      /\ \A m \in issued' \cup long' : m <= calls'
  BY <1>1, <1>2 DEF CallInv
<1>7. CallInv'
  BY <1>5, <1>6 DEF CallInv
<1>8. FileKept
  <2>1. calls \in Nat /\ calls' > calls
    BY DEF CallInv
  <2>2. \A m \in long' : m \in long \/ m > calls
    BY <2>1
  <2>3. QED
    BY <2>2 DEF Grew, FileKept
<1>9. QED
  BY <1>7, <1>8 DEF Grew

(* A step that adds no line to the log. *)
LEMMA NoLineLogged ==
    ASSUME DiskInv, CallInv, NEW x \in Seq(Other), Grew(x), issued' = issued,
           \/ calls' = calls /\ long' = long
           \/ calls' = calls + 1 /\ long' \in {long, long \cup {calls'}}
    PROVE  DiskInv' /\ CallInv' /\ FileKept
<1>1. PICK s, u : s = file \o buffer /\ u = file' \o buffer'
  OBVIOUS
<1>2. s \in Seq(Entry) /\ u = s \o x /\ Records(s, issued)
  BY <1>1 DEF DiskInv, CallInv, Grew
<1>3. Records(u, issued)
  BY <1>2, RecordsOther
<1>4. Records(file' \o buffer', issued')
  BY <1>1, <1>3
<1>5. calls \in Nat /\ \A m \in issued \cup long : m \in Nat /\ m <= calls
  BY DEF CallInv
<1>6. /\ calls' \in Nat /\ \A m \in issued' \cup long' : m \in Nat /\ m <= calls'
      /\ \A m \in long' : m \in long \/ m > calls
  <2>1. CASE calls' = calls /\ long' = long
    BY <1>5, <2>1
  <2>2. CASE calls' = calls + 1 /\ long' \in {long, long \cup {calls'}}
    BY <1>5, <2>2
  <2>3. QED
    BY <2>1, <2>2
<1>7. CallInv' /\ FileKept
  BY <1>4, <1>6 DEF CallInv, FileKept, Grew
<1>8. QED
  BY <1>7 DEF Grew

(* The sync loop, told to stop or not. *)
LEMMA FlushedIsSynced ==
    ASSUME DiskInv, Flushed, UNCHANGED <<file, buffer>>, writer # "none", writer' \in {writer, "stopped"}
    PROVE  Grew(<<>>) /\ synced' = Len(file)
<1>1. synced' = Len(file) /\ dirty' = FALSE /\ Len(file) \in Nat
  BY DEF Flushed, DiskInv
<1>2. DiskInv'
  BY <1>1 DEF DiskInv
<1>3. file \o <<>> = file /\ (file \o buffer) \o <<>> = file \o buffer /\ <<>> \in Seq(Entry)
  BY DEF DiskInv
<1>4. QED
  BY <1>1, <1>2, <1>3 DEF Grew

(* Every step keeps the log whole and in order. *)
LEMMA LogStep ==
    ASSUME Intact(term), DiskInv, CallInv, [Next]_vars
    PROVE  DiskInv' /\ CallInv' /\ FileKept
<1>0. calls \in Nat /\ <<>> \in Seq(Other) /\ Boundary \in Seq(Other) /\ Snapshot(term) \in Seq(Other)
  BY EntriesOf, SnapshotIsOther DEF CallInv, Intact, Screen
<1>1. \A n \in Nat : Line(n) \in Seq(Entry)
  BY EntriesOf
<1>2. ASSUME NEW kind, Log(kind) PROVE DiskInv' /\ CallInv' /\ FileKept
  <2>1. calls' = calls + 1 /\ issued' = issued \cup {calls'} /\ long' = long
    BY <1>2 DEF Log, NextCalls
  <2>2. Grew(Line(calls'))
    BY <1>0, <1>1, <1>2, <2>1, FullLogWritten DEF Log
  <2>3. QED
    BY <2>1, <2>2, LineLogged
<1>3. CASE Banner
  <2>1. calls' = calls + 1 /\ issued' = issued \cup {calls'} /\ long' = long
    BY <1>3 DEF Banner, NextCalls
  <2>2. Line(calls') \in Seq(Entry)
    BY <1>0, <1>1, <2>1
  <2>3. Grew(Line(calls'))
    BY <1>3, <2>2, FullLogWritten, FileWritten DEF Banner
  <2>4. QED
    BY <2>1, <2>3, LineLogged
<1>4. CASE SetFullLogWriter
  <2>1. /\ writer' = "open" /\ file' = buffer /\ dirty' = (buffer # <<>>) /\ buffer' = <<>>
        /\ synced' = synced /\ writer = "none" /\ calls' = calls /\ issued' = issued /\ long' = long
    BY <1>4 DEF SetFullLogWriter
  <2>2. file = <<>> /\ synced = Len(file) /\ buffer \in Seq(Entry)
    BY <2>1 DEF DiskInv
  <2>3. /\ Len(<<>>) = 0 /\ <<>> \in Seq(Entry) /\ <<>> \o buffer = buffer
        /\ buffer \o <<>> = (<<>> \o buffer) \o <<>>
    BY <2>2
  <2>4. DiskInv'
    BY <2>1, <2>2, <2>3 DEF DiskInv
  <2>5. Grew(<<>>)
    BY <2>1, <2>2, <2>3, <2>4 DEF Grew
  <2>6. QED
    BY <1>0, <2>1, <2>5, NoLineLogged
<1>5. CASE NewTail
  <2>1. /\ calls' = calls + 1 /\ issued' = issued /\ long' = long /\ buffer' = buffer
        /\ IF Full THEN WriteAndSync(Boundary) ELSE UNCHANGED disk
    BY <1>5 DEF NewTail, NextCalls
  <2>2. CASE Full
    <3>1. Grew(Boundary)
      BY <1>0, <2>1, <2>2, OtherIsEntry, FileWritten
    <3>2. QED
      BY <1>0, <2>1, <3>1, NoLineLogged
  <2>3. CASE ~Full
    BY <1>0, <2>1, <2>3, NothingAdded, NoLineLogged
  <2>4. QED
    BY <2>2, <2>3
<1>6. CASE TailPrint
  <2>1. calls' = calls + 1 /\ long' \in {long, long \cup {calls'}} /\ buffer' = buffer
    BY <1>6 DEF TailPrint, NextCalls, MaybeLong
  <2>2. CASE Full
    <3>1. Line(calls') \in Seq(Entry) /\ Write(Line(calls')) /\ issued' = issued \cup {calls'}
      BY <1>0, <1>1, <1>6, <2>1, <2>2 DEF TailPrint
    <3>2. Grew(Line(calls'))
      BY <2>1, <2>2, <3>1, FileWritten
    <3>3. QED
      BY <2>1, <3>1, <3>2, LineLogged
  <2>3. CASE ~Full
    <3>1. UNCHANGED <<disk, buffer>> /\ issued' = issued
      BY <1>6, <2>1, <2>3 DEF TailPrint
    <3>2. QED
      BY <1>0, <2>1, <3>1, NothingAdded, NoLineLogged
  <2>4. QED
    BY <2>2, <2>3
<1>7. CASE TailClose
  <2>1. calls' = calls /\ issued' = issued /\ long' = long /\ buffer' = buffer
    BY <1>7 DEF TailClose
  <2>2. CASE Full /\ WriteAndSync(Snapshot(term))
    <3>1. Grew(Snapshot(term))
      BY <1>0, <2>1, <2>2, OtherIsEntry, FileWritten
    <3>2. QED
      BY <1>0, <2>1, <3>1, NoLineLogged
  <2>3. CASE UNCHANGED disk
    BY <1>0, <2>1, <2>3, NothingAdded, NoLineLogged
  <2>4. QED
    BY <1>7, <2>2, <2>3 DEF TailClose
<1>8. CASE Ask
  <2>1. PICK m, n : m = calls + 1 /\ n = calls + 2
    OBVIOUS
  <2>2. calls' = n /\ issued' = issued \cup {m, n} /\ long' = long /\ m \in Nat /\ n \in Nat /\ m < n
    BY <1>0, <1>8, <2>1 DEF Ask, NextCalls
  <2>3. writeFullLogLocked(Line(m) \o Line(n)) /\ Line(m) \o Line(n) \in Seq(Entry)
    BY <1>1, <1>8, <2>1, <2>2 DEF Ask
  <2>4. Grew(Line(m) \o Line(n))
    BY <2>3, FullLogWritten
  <2>5. PICK s, u, v : s = file \o buffer /\ u = s \o Line(m) /\ v = file' \o buffer'
    OBVIOUS
  <2>6. s \in Seq(Entry) /\ u \in Seq(Entry) /\ v = u \o Line(n)
    <3>1. s \in Seq(Entry) /\ v = s \o (Line(m) \o Line(n))
      BY <2>4, <2>5 DEF DiskInv, Grew
    <3>2. PICK a, b : a = Line(m) /\ b = Line(n)
      OBVIOUS
    <3>3. a \in Seq(Entry) /\ b \in Seq(Entry)
      BY <1>1, <2>2, <3>2
    <3>4. s \o (a \o b) = (s \o a) \o b /\ s \o a \in Seq(Entry)
      BY <3>1, <3>3
    <3>5. QED
      BY <2>5, <3>1, <3>2, <3>4
  <2>7. Records(s, issued) /\ \A i \in issued : i \in Nat /\ i < m
    BY <2>1, <2>5 DEF CallInv
  <2>8. Records(u, issued \cup {m})
    BY <2>2, <2>5, <2>6, <2>7, RecordsLine
  <2>9. \A i \in issued \cup {m} : i < n
    BY <2>2, <2>7
  <2>10. Records(v, (issued \cup {m}) \cup {n})
    BY <2>2, <2>6, <2>8, <2>9, RecordsLine
  <2>11. (issued \cup {m}) \cup {n} = issued'
    BY <2>2
  <2>12. Records(file' \o buffer', issued')
    BY <2>5, <2>10, <2>11
  <2>13. /\ calls' \in Nat /\ issued' \subseteq Nat /\ long' \subseteq Nat
         /\ \A i \in issued' \cup long' : i <= calls'
    BY <2>1, <2>2 DEF CallInv
  <2>14. CallInv'
    BY <2>12, <2>13 DEF CallInv
  <2>15. QED
    BY <2>2, <2>4, <2>14 DEF Grew, FileKept
<1>9. CASE Answer
  <2>1. long' = long
    BY <1>9 DEF Answer
  <2>2. CASE NextCalls(1) /\ writeFullLogLocked(Line(calls')) /\ issued' = issued \cup {calls'}
    <3>1. calls' = calls + 1
      BY <2>2 DEF NextCalls
    <3>2. Grew(Line(calls'))
      BY <1>0, <1>1, <2>2, <3>1, FullLogWritten
    <3>3. QED
      BY <2>1, <2>2, <3>1, <3>2, LineLogged
  <2>3. CASE UNCHANGED <<calls, buffer, disk, issued>>
    BY <1>0, <2>1, <2>3, NothingAdded, NoLineLogged
  <2>4. QED
    BY <1>9, <2>2, <2>3 DEF Answer
<1>10. CASE OnLog
  <2>1. /\ calls' = calls + 1 /\ long' \in {long, long \cup {calls'}} /\ buffer' = buffer /\ Full
        /\ Write(Line(calls')) /\ issued' = issued \cup {calls'}
    BY <1>10 DEF OnLog, NextCalls, MaybeLong, Full
  <2>2. Grew(Line(calls'))
    BY <1>0, <1>1, <2>1, FileWritten
  <2>3. QED
    BY <2>1, <2>2, LineLogged
<1>11. CASE Tick \/ StopLoop
  <2>1. /\ calls' = calls /\ issued' = issued /\ long' = long /\ UNCHANGED <<file, buffer>>
        /\ Flushed /\ writer # "none" /\ writer' \in {writer, "stopped"}
    BY <1>11 DEF Tick, StopLoop, logger
  <2>2. QED
    BY <1>0, <2>1, FlushedIsSynced, NoLineLogged
<1>12. CASE CloseFile
  <2>1. /\ calls' = calls /\ issued' = issued /\ long' = long /\ UNCHANGED <<file, buffer, dirty, synced>>
        /\ writer # "none" /\ writer' = "closed"
    BY <1>12 DEF CloseFile, logger
  <2>2. file \o <<>> = file /\ (file \o buffer) \o <<>> = file \o buffer /\ <<>> \in Seq(Entry)
    BY DEF DiskInv
  <2>3. DiskInv'
    BY <2>1 DEF DiskInv
  <2>4. Grew(<<>>)
    BY <2>1, <2>2, <2>3 DEF Grew
  <2>5. QED
    BY <1>0, <2>1, <2>4, NoLineLogged
<1>13. CASE Close
  <2>1. calls' = calls /\ issued' = issued /\ long' = long /\ buffer' = buffer
    BY <1>13 DEF Close
  <2>2. CASE Full
    <3>1. PICK x : x = IF term.open THEN Snapshot(term) ELSE <<>>
      OBVIOUS
    <3>2. /\ x \in Seq(Other) /\ x \in Seq(Entry) /\ file \in Seq(Entry) /\ buffer = <<>>
          /\ file \o <<>> = file
      BY <1>0, <2>2, <3>1, OtherIsEntry DEF DiskInv, Full
    <3>3. file' = file \o x /\ writer' = "stopping"
      BY <1>13, <2>2, <3>1, <3>2 DEF Close
    <3>4. /\ synced' = (IF term.open THEN Len(file') ELSE synced)
          /\ dirty' = (~term.open /\ dirty)
      BY <1>13, <2>2 DEF Close
    <3>5. term.open \in BOOLEAN
      BY DEF Intact, Screen
    <3>6. file' \in Seq(Entry) /\ Len(file') \in Nat /\ (~term.open => file' = file)
      BY <3>1, <3>2, <3>3
    <3>7. DiskInv'
      BY <2>1, <3>2, <3>3, <3>4, <3>5, <3>6 DEF DiskInv
    <3>8. (file \o x) \o <<>> = (file \o <<>>) \o x
      BY <3>2
    <3>9. Grew(x)
      BY <2>1, <3>2, <3>3, <3>7, <3>8 DEF Grew
    <3>10. QED
      BY <2>1, <3>2, <3>9, NoLineLogged
  <2>3. CASE ~Full
    <3>1. UNCHANGED <<disk, buffer>>
      BY <1>13, <2>1, <2>3 DEF Close
    <3>2. QED
      BY <1>0, <2>1, <3>1, NothingAdded, NoLineLogged
  <2>4. QED
    BY <2>2, <2>3
<1>14. CASE UNCHANGED <<calls, issued, long, buffer, disk>>
  BY <1>0, <1>14, NothingAdded, NoLineLogged
<1>15. CASE Attach \/ Detach \/ Reading \/ ReadFails \/ ReaderEnds \/ UNCHANGED vars
  BY <1>14, <1>15 DEF Attach, Detach, Reading, FetchLogs, onFetchLogs, Respond, ReadFails, PrintFirst, PrintMore, ReaderEnds,
     vars, logger
<1>16. QED
  BY <1>2, <1>3, <1>4, <1>5, <1>6, <1>7, <1>8, <1>9, <1>10, <1>11, <1>12, <1>13, <1>15
     DEF Next, LogMain, LogOther, Syncing

-----------------------------------------------------------------------------
(* What the reader gets *)

(* Places(a, b) counts from a + 1 to b. *)
LEMMA PlacesCount ==
    ASSUME NEW a \in Nat, NEW b \in Nat, a <= b
    PROVE  /\ Places(a, b) \in Seq(Nat) /\ Len(Places(a, b)) = b - a
           /\ \A i \in 1..(b - a) : Places(a, b)[i] = a + i
  BY DEF Places

(* What follows a file of n lines follows a longer one. *)
LEMMA FollowsLonger ==
    ASSUME NEW p, NEW n \in Nat, NEW m \in Nat, n <= m, NEW k, Follows(p, n, k)
    PROVE  Follows(p, m, k)
  BY DEF Follows

(* After a failed reading less is asked of what was printed. *)
LEMMA FollowsAnyway ==
    ASSUME NEW p, NEW n, NEW o, NEW k, NEW l, k = 0 \/ l # 0,
           Follows(p, n, k), EndsAt(p, o, k)
    PROVE  Follows(p, n, l) /\ EndsAt(p, o, l)
  BY Zenon DEF Follows, EndsAt

(* The first answer. *)
LEMMA FirstFollows ==
    ASSUME NEW a \in Nat, NEW b \in Nat, a <= b, NEW k
    PROVE  Follows(Places(a, b), b, k) /\ EndsAt(Places(a, b), b, k)
<1>1. PICK p : p = Places(a, b)
  OBVIOUS
<1>2. p \in Seq(Nat) /\ Len(p) = b - a /\ \A i \in 1..(b - a) : p[i] = a + i
  BY <1>1, PlacesCount
<1>3. DOMAIN p = 1..(b - a) /\ \A i \in 1..(b - a) : p[i] \in 1..b
  BY <1>2
<1>3a. ASSUME NEW i \in 2..(b - a) PROVE p[i] = p[i - 1] + 1
  <2>1. i \in 1..(b - a) /\ i - 1 \in 1..(b - a)
    OBVIOUS
  <2>2. p[i] = a + i /\ p[i - 1] = a + (i - 1)
    BY <1>2, <2>1
  <2>3. QED
    BY <2>2
<1>3b. \A i \in 2..(b - a) : p[i] <= p[i - 1] + 1 /\ (k = 0 => p[i] = p[i - 1] + 1)
  <2> TAKE i \in 2..(b - a)
  <2>1. p[i] = a + i /\ p[i] = p[i - 1] + 1
    BY <1>2, <1>3a
  <2>2. QED
    BY <2>1
<1>3c. Follows(p, b, k)
  BY <1>2, <1>3, <1>3b DEF Follows
<1>4. EndsAt(p, b, k)
  BY <1>2 DEF EndsAt
<1>5. QED
  BY <1>1, <1>3c, <1>4

(* The answer to a later request. *)
LEMMA MoreFollows ==
    ASSUME NEW p, NEW o \in Nat, NEW a \in Nat, NEW b \in Nat, NEW n \in Nat, NEW k,
           Follows(p, n, k), EndsAt(p, o, k), a <= o, a <= b, b <= n, k = 0 => a = o
    PROVE  Follows(p \o Places(a, b), n, k) /\ EndsAt(p \o Places(a, b), b, k)
<1>1. PICK q, r : q = Places(a, b) /\ r = p \o q
  OBVIOUS
<1>2. q \in Seq(Nat) /\ Len(q) = b - a /\ \A i \in 1..(b - a) : q[i] = a + i
  BY <1>1, PlacesCount
<1>3. p \in Seq(Nat) /\ Len(p) \in Nat /\ DOMAIN p = 1..Len(p)
  BY DEF Follows
<1>4. /\ r \in Seq(Nat) /\ Len(r) = Len(p) + (b - a) /\ DOMAIN r = 1..Len(r)
      /\ \A i \in 1..Len(p) : r[i] = p[i]
      /\ \A i \in 1..(b - a) : r[Len(p) + i] = a + i
  BY <1>1, <1>2, <1>3, TwoParts
<1>4a. Len(p) \in Nat /\ Len(r) \in Nat
  BY <1>3, <1>4
<1>5. \A i \in 1..Len(r) : i > Len(p) => i - Len(p) \in 1..(b - a) /\ r[i] = a + (i - Len(p))
  <2> TAKE i \in 1..Len(r)
  <2> HAVE i > Len(p)
  <2>1. i - Len(p) \in 1..(b - a) /\ Len(p) + (i - Len(p)) = i
    BY <1>3, <1>4
  <2>2. QED
    BY <1>4, <2>1
<1>5a. /\ \A i \in 1..Len(p) : p[i] \in 1..n
       /\ \A i \in 2..Len(p) : p[i] <= p[i - 1] + 1 /\ (k = 0 => p[i] = p[i - 1] + 1)
  BY <1>3 DEF Follows
<1>6. ASSUME NEW i \in 1..Len(r) PROVE r[i] \in 1..n
  <2>1. CASE i <= Len(p)
    BY <1>3, <1>4, <1>5a, <2>1
  <2>2. CASE i > Len(p)
    <3>1. PICK j : j = i - Len(p)
      OBVIOUS
    <3>2. j \in 1..(b - a) /\ r[i] = a + j
      BY <1>5, <2>2, <3>1
    <3>3. QED
      BY <3>2
  <2>3. QED
    BY <1>3, <1>4, <2>1, <2>2
<1>7. ASSUME NEW i \in 2..Len(r)
      PROVE  r[i] <= r[i - 1] + 1 /\ (k = 0 => r[i] = r[i - 1] + 1)
  <2>1. CASE i <= Len(p)
    <3>1. i \in 2..Len(p) /\ i \in 1..Len(p) /\ i - 1 \in 1..Len(p)
      BY <1>3, <1>4, <1>7, <2>1
    <3>2. r[i] = p[i] /\ r[i - 1] = p[i - 1]
      BY <1>4, <3>1
    <3>3. QED
      BY <1>5a, <3>1, <3>2
  <2>2. CASE i = Len(p) + 1
    <3>0. Len(p) \in 1..Len(p) /\ i \in 1..Len(r) /\ i > Len(p) /\ i - Len(p) = 1 /\ i - 1 = Len(p)
      BY <1>4a, <1>7, <2>2
    <3>1. /\ r[i] = a + 1 /\ r[i - 1] = p[Len(p)]
          /\ p # <<>>
      <4>1. r[i] = a + (i - Len(p))
        BY <1>5, <3>0
      <4>2. r[Len(p)] = p[Len(p)]
        BY <1>4, <3>0
      <4>3. p # <<>>
        BY <3>0
      <4>4. QED
        BY <3>0, <4>1, <4>2, <4>3
    <3>2. o <= p[Len(p)] /\ (k = 0 => o = p[Len(p)]) /\ p[Len(p)] \in Nat
      BY <1>5a, <3>0, <3>1 DEF EndsAt
    <3>3. QED
      BY <3>1, <3>2
  <2>3. CASE i > Len(p) + 1
    <3>1. i \in 1..Len(r) /\ i - 1 \in 1..Len(r) /\ i > Len(p) /\ i - 1 > Len(p)
      BY <1>3, <1>4, <1>7, <2>3
    <3>2. r[i] = a + (i - Len(p)) /\ r[i - 1] = a + ((i - 1) - Len(p))
      BY <1>5, <3>1
    <3>3. QED
      BY <1>3, <3>1, <3>2
  <2>4. QED
    BY <1>3, <1>7, <2>1, <2>2, <2>3
<1>8. Follows(r, n, k)
  BY <1>4, <1>6, <1>7, Zenon DEF Follows
<1>9. EndsAt(r, b, k)
  <2>1. CASE a = b
    <3>1. Len(r) = Len(p) /\ (r # <<>> => p # <<>> /\ r[Len(r)] = p[Len(p)] /\ p[Len(p)] \in Nat)
      BY <1>3, <1>4, <2>1
    <3>2. QED
      BY <2>1, <3>1 DEF EndsAt
  <2>2. CASE a < b
    <3>0. Len(r) \in 1..Len(r) /\ Len(r) > Len(p) /\ Len(r) - Len(p) = b - a
      BY <1>3, <1>4, <2>2
    <3>1. r[Len(r)] = b
      BY <1>5, <3>0
    <3>2. QED
      BY <3>1 DEF EndsAt
  <2>3. QED
    BY <2>1, <2>2
<1>10. QED
  BY <1>1, <1>8, <1>9

(* A scanner that got so far gets so far in a longer file. *)
LEMMA CleanKept ==
    ASSUME DiskInv, CallInv, FileKept, NEW n, Clean(file, long, n)
    PROVE  Clean(file', long', n)
<1>1. PICK y \in Seq(Entry) : file' = file \o y
  BY DEF FileKept
<1>2. /\ file \in Seq(Entry) /\ Len(file') = Len(file) + Len(y) /\ Len(file) \in Nat /\ Len(y) \in Nat
      /\ \A i \in 1..Len(file) : file'[i] = file[i]
  BY <1>1, TwoParts DEF DiskInv
<1>3. n \in 0..Len(file') /\ \A i \in 1..n : i \in 1..Len(file)
  BY <1>2 DEF Clean
<1>4. ASSUME NEW i \in 1..n, file[i][1] = "line" PROVE file[i][2] <= calls /\ calls \in Nat
  <2>1. PICK s : s = file \o buffer
    OBVIOUS
  <2>2. i \in 1..Len(file) /\ buffer \in Seq(Entry)
    BY <1>3 DEF DiskInv
  <2>3. s \in Seq(Entry) /\ s[i] = file[i] /\ i \in DOMAIN s
    BY <1>2, <2>1, <2>2, TwoParts
  <2>4. s[i][2] \in issued
    BY <1>4, <2>1, <2>3 DEF CallInv, Records, IsLine
  <2>5. QED
    BY <2>3, <2>4 DEF CallInv
<1>5. ASSUME NEW i \in 1..n, file[i][1] = "line" PROVE file[i][2] \notin long'
  <2>1. file[i][2] \notin long
    BY <1>5 DEF Clean
  <2>2. file[i][2] \in Nat /\ file[i][2] <= calls /\ calls \in Nat
    BY <1>2, <1>3, <1>4, <1>5 DEF Entry
  <2>3. QED
    BY <2>1, <2>2 DEF FileKept
<1>6. QED
  BY <1>2, <1>3, <1>5 DEF Clean

(* The scanner reads what comes before the first long line. *)
LEMMA ReadableIsClean ==
    ASSUME DiskInv
    PROVE  \E k \in 0..Len(file) :
             /\ Readable = SubSeq(file, 1, k) /\ Clean(file, long, k)
             /\ \A n : Clean(file, long, n) => n <= k
<1> DEFINE cut == {i \in DOMAIN file : file[i][1] = "line" /\ file[i][2] \in long}
           first == CHOOSE i \in cut : \A j \in cut : i <= j
<1>1. file \in Seq(Entry) /\ Len(file) \in Nat /\ DOMAIN file = 1..Len(file)
  BY DEF DiskInv
<1>2. Readable = IF cut = {} THEN file ELSE SubSeq(file, 1, first - 1)
  BY DEF Readable
<1>3. \A i : i \in cut <=> i \in 1..Len(file) /\ file[i][1] = "line" /\ file[i][2] \in long
  BY <1>1
<1>4. ASSUME cut # {} PROVE first \in cut /\ \A j \in cut : first <= j
  <2>1. cut \in SUBSET Nat
    BY <1>1
  <2>2. \E i \in cut : \A j \in cut : i <= j
    BY <1>4, <2>1, Least
  <2>3. QED
    BY <2>2
<1> HIDE DEF cut, first
<1>5. CASE cut = {}
  <2>1. Readable = SubSeq(file, 1, Len(file))
    BY <1>1, <1>2, <1>5
  <2>2. Clean(file, long, Len(file))
    BY <1>1, <1>3, <1>5 DEF Clean
  <2>3. \A n : Clean(file, long, n) => n <= Len(file)
    BY <1>1 DEF Clean
  <2>4. Len(file) \in 0..Len(file)
    BY <1>1
  <2>5. QED
    BY <2>1, <2>2, <2>3, <2>4
<1>6. CASE cut # {}
  <2>1. PICK k : k = first - 1
    OBVIOUS
  <2>2. first \in 1..Len(file)
    BY <1>3, <1>4, <1>6
  <2>3. k \in 0..Len(file) /\ first = k + 1 /\ Readable = SubSeq(file, 1, k)
    BY <1>1, <1>2, <1>6, <2>1, <2>2
  <2>4. \A j \in cut : first <= j
    BY <1>4, <1>6
  <2>5. \A i \in 1..k : i \in 1..Len(file) /\ ~(first <= i)
    BY <1>1, <2>2, <2>3
  <2>6. Clean(file, long, k)
    BY <1>3, <2>3, <2>4, <2>5 DEF Clean
  <2>7. ASSUME NEW n, Clean(file, long, n) PROVE n <= k
    <3>1. first \notin 1..n
      BY <1>3, <1>4, <1>6, <2>7 DEF Clean
    <3>2. n \in Nat
      BY <1>1, <2>7 DEF Clean
    <3>3. QED
      BY <1>1, <2>2, <2>3, <3>1, <3>2
  <2>8. QED
    BY <2>3, <2>6, <2>7
<1>7. QED
  BY <1>5, <1>6

(* An answer made from n lines, all of them when no reading has failed. *)
LEMMA RespondStep ==
    ASSUME ReaderInv, NEW n \in 0..Len(file), Len(file) \in Nat, Respond(n),
           \/ fails' = fails /\ Clean(file, long, n) /\ (Clean(file, long, offset) => offset <= n)
           \/ fails' = fails + 1
    PROVE  ReaderInv'
<1>1. /\ file' = file /\ long' = long /\ offset' = offset /\ printed' = printed
      /\ reader \in {"first", "more"}
  BY DEF Respond, disk
<1>2. fails \in Nat /\ fails' \in Nat /\ offset \in Nat /\ (fails = 0 \/ fails' # 0)
      /\ (fails' = 0 => fails = 0)
  BY DEF ReaderInv
<1>3. Follows(printed, Len(file), fails') /\ EndsAt(printed, offset, fails')
  BY <1>2, FollowsAnyway DEF ReaderInv
<1>4. PICK start : start = IF offset > n THEN n ELSE offset
  OBVIOUS
<1>5. start \in Nat /\ start <= offset /\ start <= n
  BY <1>2, <1>4
<1>6. fails' = 0 => start = offset /\ Clean(file, long, n)
  BY <1>2, <1>4 DEF ReaderInv
<1>7. \/ /\ reply' = [start |-> start, total |-> n]
         /\ reader' = IF reader = "first" THEN "gotFirst" ELSE "gotMore"
      \/ reader' = "hung"
  BY <1>4 DEF Respond
<1>8. reader' # "hung" => AnswerInv'
  <2> HAVE reader' # "hung"
  <2>1. reply'.start = start /\ reply'.total = n
    BY <1>7
  <2>2. QED
    BY <1>1, <1>5, <1>6, <2>1 DEF AnswerInv
<1>9. QED
  BY <1>1, <1>2, <1>3, <1>7, <1>8 DEF ReaderInv

(* Every step leaves the reader where its output says it is. *)
LEMMA ReaderStep ==
    ASSUME DiskInv, CallInv, ReaderInv, FileKept, [Next]_vars
    PROVE  ReaderInv'
<1>0. file \in Seq(Entry) /\ Len(file) \in Nat /\ Frame \in Nat /\ InitialLines \in Nat
  BY TailAssumption DEF DiskInv
<1>1. CASE UNCHANGED client
  <2>1. UNCHANGED <<reader, reply, offset, printed, fails>>
    BY <1>1 DEF client
  <2>2. PICK y \in Seq(Entry) : file' = file \o y
    BY DEF FileKept
  <2>3. Len(file') \in Nat /\ Len(file) <= Len(file')
    BY <1>0, <2>2
  <2>4. Follows(printed, Len(file'), fails)
    BY <1>0, <2>3, FollowsLonger DEF ReaderInv
  <2>5. fails = 0 => Clean(file', long', offset)
    BY CleanKept DEF ReaderInv
  <2>6. AnswerInv => AnswerInv'
    BY <1>0, <2>1, <2>3, CleanKept DEF AnswerInv
  <2>7. QED
    BY <1>0, <2>1, <2>3, <2>4, <2>5, <2>6 DEF ReaderInv
<1>2. CASE FetchLogs
  BY <1>2 DEF FetchLogs, disk, ReaderInv
<1>3. PICK k \in 0..Len(file) : /\ Readable = SubSeq(file, 1, k) /\ Clean(file, long, k)
                                /\ \A n : Clean(file, long, n) => n <= k
  BY ReadableIsClean
<1>4. Len(Readable) = k
  BY <1>0, <1>3
<1>5. CASE onFetchLogs
  BY <1>0, <1>3, <1>4, <1>5, RespondStep DEF onFetchLogs
<1>6. CASE ReadFails
  <2>1. PICK n \in 0..Len(Readable) : Respond(n)
    BY <1>6 DEF ReadFails
  <2>2. n \in 0..Len(file) /\ fails' = fails + 1
    BY <1>0, <1>3, <1>4, <1>6 DEF ReadFails
  <2>3. QED
    BY <1>0, <2>1, <2>2, RespondStep
<1>7. CASE PrintFirst
  <2>1. PICK t : t = reply.total
    OBVIOUS
  <2>2. /\ reader = "gotFirst" /\ file' = file /\ long' = long /\ offset' = t /\ fails' = fails
        /\ reader' \in {"follow", "ended"}
    BY <1>7, <2>1 DEF PrintFirst, disk
  <2>3. t \in Nat /\ t <= Len(file) /\ (fails = 0 => Clean(file, long, t)) /\ fails \in Nat
    BY <2>1, <2>2 DEF ReaderInv, AnswerInv
  <2>4. PICK from : from = IF t > InitialLines THEN t - InitialLines ELSE 0
    OBVIOUS
  <2>5. from \in Nat /\ from <= t
    BY <1>0, <2>3, <2>4
  <2>6. printed' = Places(from, t)
    BY <1>7, <2>1, <2>4 DEF PrintFirst
  <2>7. Follows(printed', Len(file), fails) /\ EndsAt(printed', t, fails)
    BY <1>0, <2>3, <2>5, <2>6, FirstFollows, FollowsLonger
  <2>8. QED
    BY <2>2, <2>3, <2>7 DEF ReaderInv
<1>8. CASE PrintMore
  <2>1. PICK a, t : a = reply.start /\ t = reply.total
    OBVIOUS
  <2>2. /\ reader = "gotMore" /\ file' = file /\ long' = long /\ offset' = t /\ fails' = fails
        /\ reader' = "follow" /\ printed' = printed \o Places(a, t)
    BY <1>8, <2>1 DEF PrintMore, disk
  <2>3. /\ a \in Nat /\ t \in Nat /\ a <= offset /\ a <= t /\ t <= Len(file) /\ fails \in Nat
        /\ offset \in Nat /\ (fails = 0 => a = offset /\ Clean(file, long, t))
    BY <2>1, <2>2 DEF ReaderInv, AnswerInv
  <2>4. Follows(printed', Len(file), fails) /\ EndsAt(printed', t, fails)
    BY <1>0, <2>2, <2>3, MoreFollows DEF ReaderInv
  <2>5. QED
    BY <2>2, <2>3, <2>4 DEF ReaderInv
<1>9. CASE ReaderEnds
  BY <1>9 DEF ReaderEnds, disk, ReaderInv
<1>10. QED
  BY <1>1, <1>2, <1>5, <1>6, <1>7, <1>8, <1>9 DEF Next, LogMain, LogOther, Log, Banner, SetFullLogWriter,
     NewTail, TailPrint, TailClose, Ask, Answer, Attach, Detach, Close, OnLog, Syncing, Tick, StopLoop,
     CloseFile, Reading, vars

-----------------------------------------------------------------------------
(* The theorems *)

LEMMA InitLog == Init => LogInv
<1> SUFFICES ASSUME Init PROVE LogInv
  OBVIOUS
<1>1. <<>> \in Seq(Entry) /\ Len(<<>>) = 0 /\ <<>> \o <<>> = <<>> /\ DOMAIN <<>> = {}
  OBVIOUS
<1>2. Intact(term) /\ MainInv
  <2>1. /\ term.rows = <<>> /\ term.kept = <<>> /\ term.muted = FALSE /\ term.open = FALSE
        /\ term.buf = <<>> /\ term.height = 0 /\ main = "free"
    BY DEF Init
  <2>2. term \in Screen
    <3>1. <<>> \in Seq(Row) /\ <<>> \in Seq(KeptRow) /\ <<>> \in Seq(Nat)
      OBVIOUS
    <3>2. QED
      BY <3>1 DEF Init, Screen
  <2>3. QED
    BY <2>1, <2>2 DEF Intact, MainInv
<1>3. DiskInv
  BY <1>1 DEF Init, DiskInv
<1>4. Records(<<>>, {})
  BY <1>1 DEF Records
<1>5. CallInv
  BY <1>1, <1>4 DEF Init, CallInv
<1>6. Follows(<<>>, 0, 0) /\ EndsAt(<<>>, 0, 0)
  BY DEF Follows, EndsAt
<1>7. ReaderInv
  BY <1>1, <1>6 DEF Init, ReaderInv, Clean
<1>8. QED
  BY <1>2, <1>3, <1>5, <1>7 DEF LogInv

(* The terminal is intact, the log records the calls, and the reader is     *)
(* where its output says: inductive.                                        *)
THEOREM LogInductive == Spec => []LogInv
<1>1. LogInv /\ [Next]_vars => LogInv'
  <2> SUFFICES ASSUME LogInv, [Next]_vars PROVE LogInv'
    OBVIOUS
  <2>1. Intact(term) /\ MainInv /\ DiskInv /\ CallInv /\ ReaderInv /\ calls \in Nat
    BY DEF LogInv, CallInv
  <2>2. Intact(term') /\ MainInv'
    BY <2>1, ScreenStep
  <2>3. DiskInv' /\ CallInv' /\ FileKept
    BY <2>1, LogStep
  <2>4. ReaderInv'
    BY <2>1, <2>3, ReaderStep
  <2>5. QED
    BY <2>2, <2>3, <2>4 DEF LogInv
<1>2. QED
  BY <1>1, InitLog, PTL DEF Spec

(* ScreenIntact: clearTailBoxLocked erases the live box and nothing else,   *)
(* whichever goroutines log while a tail is open (logger.go).               *)
THEOREM ScreenStaysIntact == Spec => []ScreenIntact
<1>1. LogInv => ScreenIntact
  BY IntactShows DEF LogInv
<1>2. QED
  BY <1>1, LogInductive, PTL

(* LogsExact: the full log holds every line it owes, once and in order; a   *)
(* follower skips none of them, and repeats none while the file can be read *)
(* (logs.go, onFetchLogs).                                                  *)
THEOREM LogsAreExact == Spec => []LogsExact
<1>1. LogInv => LogsExact
  <2> SUFFICES ASSUME LogInv PROVE LogsExact
    OBVIOUS
  <2>1. file \in Seq(Entry) /\ DOMAIN file = 1..Len(file) /\ Records(file \o buffer, issued)
    BY DEF LogInv, DiskInv, CallInv
  <2>2. Follows(printed, Len(file), fails)
    BY DEF LogInv, ReaderInv
  <2>3. QED
    BY <2>1, <2>2, Zenon DEF LogsExact, Follows
<1>2. QED
  BY <1>1, LogInductive, PTL

(* LastRoundSyncs: SyncWriter's loop, told to stop, leaves no line that is  *)
(* not on disk: what is not marked dirty was synced (syncwriter.go).        *)
THEOREM LastRoundLeavesNothing == Spec => LastRoundSyncs
<1>1. LogInv /\ [Next]_vars => [writer = "stopping" /\ writer' = "stopped" => synced' = Len(file)]_vars
  <2> SUFFICES ASSUME LogInv, [Next]_vars, writer = "stopping", writer' = "stopped"
               PROVE  synced' = Len(file)
    OBVIOUS
  <2>1. StopLoop
    BY DEF Next, LogMain, LogOther, Log, Banner, SetFullLogWriter, NewTail, TailPrint, TailClose, Ask,
       Answer, Attach, Detach, Close, OnLog, Syncing, Tick, CloseFile, Reading, FetchLogs, onFetchLogs,
       Respond, ReadFails, PrintFirst, PrintMore, ReaderEnds, vars, disk, writeFullLogLocked, Write, WriteAndSync
  <2>2. DiskInv /\ Flushed /\ UNCHANGED <<file, buffer>>
    BY <2>1 DEF LogInv, StopLoop, logger
  <2>3. QED
    BY <2>2, FlushedIsSynced
<1>2. QED
  BY <1>1, LogInductive, PTL DEF Spec, LastRoundSyncs
=============================================================================
