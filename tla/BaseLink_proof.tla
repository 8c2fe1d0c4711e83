---------------------------- MODULE BaseLink_proof ----------------------------
(***************************************************************************)
(* The commander and the base, for any set of commands, of threads and of  *)
(* first counter values, and any capacity of the port.                     *)
(*                                                                         *)
(* A frame is in flight from the draw of its counter until the base hears  *)
(* it or it is lost: first in its thread's hand, then in the port, then on *)
(* the wire.  What the base does with it depends only on its number, on    *)
(* the last one checked, and on the frames of the same id that may be      *)
(* heard before it.  The invariant says, of those three, what a step of    *)
(* one thread may change; "Thins" is the step that only takes frames away. *)
(***************************************************************************)
EXTENDS MCBase, Basics_proof

-----------------------------------------------------------------------------
(* The counters, modulo CounterMod.                                          *)

LEMMA ModSmall ==
  ASSUME NEW n \in Nat \ {0}, NEW x \in Int
  PROVE  /\ x \in 0..(n - 1) => x % n = x
         /\ x \in (-n)..(-1) => x % n = x + n
<1>1. ASSUME x \in 0..(n - 1) PROVE x % n = x
  <2>1. (n * 0 + x) % n = x
    BY <1>1, ModUnique
  <2>2. n * 0 + x = x
    OBVIOUS
  <2> QED BY <2>1, <2>2
<1>2. ASSUME x \in (-n)..(-1) PROVE x % n = x + n
  <2>1. (n * (-1) + (x + n)) % n = x + n
    BY <1>2, ModUnique
  <2>2. n * (-1) + (x + n) = x
    OBVIOUS
  <2> QED BY <2>1, <2>2
<1> QED BY <1>1, <1>2

LEMMA ModLess ==
  ASSUME NEW n \in Nat \ {0}, NEW a \in Int, NEW b \in Int
  PROVE  ((a % n) - (b % n)) % n = (a - b) % n
<1>1. PICK q \in Int, m \in 0..(n - 1) : b = n * q + m /\ b % n = m
  BY ModDiv
<1>2. ((a % n) + (-m)) % n = (a + (-m)) % n
  <2>1. -m \in Int
    OBVIOUS
  <2> QED BY <2>1, ModSum
<1>3. a + (-m) = (a - b) + n * q
  BY <1>1
<1>4. ((a - b) + n * q) % n = (a - b) % n
  <2>1. a - b \in Int
    OBVIOUS
  <2> QED BY <2>1, ModShift
<1>5. PICK r \in Int : r = a % n
  BY ModDiv
<1>6. r - m = r + (-m)
  BY <1>1, <1>5
<1> QED BY <1>1, <1>2, <1>3, <1>4, <1>5, <1>6

Reference(k) == [have |-> TRUE, last |-> k % CounterMod]

LEMMA Mods == CounterMod \in Nat \ {0} /\ MaxDelta \in Nat \ {0} /\ MaxDelta < CounterMod
BY CounterAssumption

LEMMA CounterTyped ==
  ASSUME NEW k \in Nat
  PROVE  k % CounterMod \in Counters /\ Reference(k) \in Checks
BY Mods, ModDiv DEF Counters, Checks, Reference

LEMMA DeltaIs ==
  ASSUME NEW a \in Nat, NEW b \in Nat
  PROVE  Delta(Reference(b), a % CounterMod) = (a - b) % CounterMod
<1>1. Reference(b).last = b % CounterMod
  BY DEF Reference
<1>2. Delta(Reference(b), a % CounterMod) = ((a % CounterMod) - (b % CounterMod)) % CounterMod
  BY <1>1 DEF Delta
<1>3. ((a % CounterMod) - (b % CounterMod)) % CounterMod = (a - b) % CounterMod
  <2>1. a \in Int /\ b \in Int /\ CounterMod \in Nat \ {0}
    BY Mods
  <2> QED BY <2>1, ModLess
<1> QED BY <1>2, <1>3

(* The frame after the last one, or one of the next MaxDelta, passes.        *)
LEMMA NextPasses ==
  ASSUME NEW a \in Nat, NEW b \in Nat, a - b \in 1..MaxDelta
  PROVE  Accepted(Result(Reference(b), a % CounterMod))
<1>1. a - b \in 0..(CounterMod - 1)
  BY Mods
<1>2. (a - b) % CounterMod = a - b
  BY <1>1, Mods, ModSmall
<1>3. Delta(Reference(b), a % CounterMod) \in 1..MaxDelta
  BY <1>2, DeltaIs
<1>4. PICK d \in 1..MaxDelta : d = Delta(Reference(b), a % CounterMod)
  BY <1>3
<1>5. ~(d = 0) /\ ~(d > MaxDelta)
  BY Mods
<1> QED BY <1>4, <1>5 DEF Result, Accepted, Reference

(* One that the last overtook, by less than a turn of the counter, does not. *)
LEMMA LateRefused ==
  ASSUME NEW a \in Nat, NEW b \in Nat, b - a \in 1..(CounterMod - MaxDelta - 1)
  PROVE  ~Accepted(Result(Reference(b), a % CounterMod))
<1>1. a - b \in (-CounterMod)..(-1)
  BY Mods
<1>2. (a - b) % CounterMod = a - b + CounterMod
  BY <1>1, Mods, ModSmall
<1>3. PICK d \in Int : d = Delta(Reference(b), a % CounterMod) /\ d = a - b + CounterMod
  <2>1. a - b + CounterMod \in Int
    BY Mods
  <2>2. Delta(Reference(b), a % CounterMod) = a - b + CounterMod
    BY <1>2, DeltaIs
  <2> QED BY <2>1, <2>2
<1>4. d # 0 /\ d > MaxDelta
  BY <1>3, Mods
<1> QED BY <1>3, <1>4 DEF Result, Accepted, Reference

(* Whatever the result, the reference becomes the counter that was checked.  *)
LEMMA AlwaysMoves ==
  ASSUME NEW a \in Nat, NEW c, c = NoReference \/ \E b \in Nat : c = Reference(b)
  PROVE  Updated(c, a % CounterMod) = Reference(a)
<1>1. CASE c = NoReference
  BY <1>1 DEF Updated, Result, NoReference, Reference
<1>2. ASSUME NEW b \in Nat, c = Reference(b) PROVE Updated(c, a % CounterMod) = Reference(a)
  <2>1. PICK x \in 0..(CounterMod - 1), y \in 0..(CounterMod - 1) :
           x = a % CounterMod /\ y = b % CounterMod
    <3>1. a % CounterMod \in 0..(CounterMod - 1) /\ b % CounterMod \in 0..(CounterMod - 1)
      BY Mods, ModDiv
    <3> QED BY <3>1
  <2>2. CASE x = y
    BY <1>2, <2>1, <2>2 DEF Updated, Reference
  <2>3. CASE x # y
    <3>1. (x - y) % CounterMod = IF x > y THEN x - y ELSE x - y + CounterMod
      <4>1. CASE x > y
        <5>1. x - y \in 0..(CounterMod - 1) /\ x - y \in Int
          BY <4>1, Mods
        <5> QED BY <4>1, <5>1, Mods, ModSmall
      <4>2. CASE ~(x > y)
        <5>1. x - y \in (-CounterMod)..(-1) /\ x - y \in Int
          BY <2>3, <4>2, Mods
        <5> QED BY <4>2, <5>1, Mods, ModSmall
      <4> QED BY <4>1, <4>2
    <3>2. PICK d \in Int : d = (x - y) % CounterMod /\ d # 0
      BY <2>3, <3>1, Mods
    <3>3. Delta(c, a % CounterMod) # 0
      BY <1>2, <2>1, <3>2 DEF Delta, Reference
    <3>4. Result(c, a % CounterMod) # "stuck"
      BY <1>2, <3>3 DEF Result, Reference
    <3> QED BY <3>4 DEF Updated, Reference
  <2> QED BY <2>2, <2>3
<1> QED BY <1>1, <1>2
\* Never three threads at once between the draw and the send of a command of one id.
FewAtOnce ==
  \A c, d, e \in Callers :
    /\ c # d /\ d # e /\ c # e /\ NoFrame \notin {pending[c], pending[d], pending[e]}
    => ~(pending[c].id = pending[d].id /\ pending[d].id = pending[e].id)

-----------------------------------------------------------------------------
(* Frames in flight: those the port and the wire hold, and those drawn and not
   yet sent.                                                                 *)
Modes == {"standby", "auto"}
Drawn == {f \in Frames : /\ f.counter = f.number % CounterMod
                         /\ f.id = "mode" => f.value \in Modes}
InLink(f) == \E n \in 1..Len(sent) : sent[n] = f
InHand(f) == \E c \in Callers : pending[c] = f
InFlight(f) == InLink(f) \/ InHand(f)

\* f is heard before g; or it is not known which.
Before(f, g) ==
  \/ \E m, n \in 1..Len(sent) : m < n /\ sent[m] = f /\ sent[n] = g
  \/ InLink(f) /\ InHand(g)
Beside(f, g) == \E c, d \in Callers : c # d /\ pending[c] = f /\ pending[d] = g
Apart(f, g) == Before(f, g) \/ Beside(f, g)

-----------------------------------------------------------------------------
LinkInv ==
  /\ Port!LinkTypeOK
  /\ Port!Increasing(wire) /\ Port!Increasing(backlog)
  /\ \A i \in 1..Len(wire) : wire[i] \in 1..accepted
  /\ \A j \in 1..Len(backlog) : backlog[j] \in 1..accepted
  /\ \A i \in 1..Len(wire), j \in 1..Len(backlog) : wire[i] < backlog[j]
  /\ sent \in Seq(Drawn \cup {NoFrame}) /\ Len(sent) = accepted
  /\ heard \in 0..Len(wire)
  /\ \A k \in (heard + 1)..Len(wire) : sent[wire[k]] # NoFrame
  /\ \A j \in 1..Len(backlog) : sent[backlog[j]] # NoFrame
  /\ \A n \in 1..Len(sent) : sent[n] # NoFrame =>
       \/ \E k \in (heard + 1)..Len(wire) : wire[k] = n
       \/ \E j \in 1..Len(backlog) : backlog[j] = n

ClientInv ==
  /\ connected \in BOOLEAN
  /\ owner \in {"idle", "opening"}
  /\ version \in Versions
  /\ drawn \in [Ids -> Nat]
  /\ pending \in [Callers -> Drawn \cup {NoFrame}]
  /\ restarts \in 0..MaxRestarts
  /\ issued \in 0..MaxIssued
  /\ armed \in BOOLEAN /\ quiet \subseteq Ids
  /\ intent \in [Ids -> Values \cup {"none"}]

CountInv ==
  /\ newest \in [Ids -> Int] /\ last \in [Ids -> Int]
  /\ \A i \in Ids : /\ newest[i] \in -1..(drawn[i] - 1)
                    /\ last[i] \in -1..(drawn[i] - 1)
                    /\ ctr[i] = IF last[i] = -1 THEN NoReference
                                ELSE [have |-> TRUE, last |-> last[i] % CounterMod]
                    /\ last[i] = -1 => newest[i] = -1
  /\ \A f \in Drawn : InFlight(f) => f.number < drawn[f.id] /\ f.number # newest[f.id]
  /\ \A f, g \in Drawn : Apart(f, g) /\ f.id = g.id => f.number # g.number

OrderInv ==
  /\ \A f, g \in Drawn : Apart(g, f) /\ f.id = g.id /\ g.number < f.number => newest[f.id] < f.number
  /\ \A h, g, f \in Drawn : Before(h, g) /\ Apart(g, f) /\ f.id = g.id /\ h.id = g.id /\ g.number < f.number
        => h.number < f.number
  /\ \A f \in Drawn : InFlight(f) /\ f.number < newest[f.id] => f.number < last[f.id]

(* What is in flight of an id that nothing happened to: the numbers from the
   last one heard to the last one drawn, in order, none missing.             *)
QuietAt(i) ==
  /\ \A f \in Drawn : InFlight(f) /\ f.id = i => last[i] < f.number
  /\ \A f, g \in Drawn : Before(f, g) /\ f.id = i /\ g.id = i => f.number < g.number
  /\ last[i] # -1 => \A k \in (last[i] + 1)..(drawn[i] - 1) :
                       \E f \in Drawn : InFlight(f) /\ f.id = i /\ f.number = k
  /\ \A g \in Drawn : InFlight(g) /\ g.id = i =>
                       \A k \in g.number..(drawn[i] - 1) :
                         \E f \in Drawn : InFlight(f) /\ f.id = i /\ f.number = k
  /\ \A f \in Drawn : InFlight(f) /\ f.id = i /\ f.number = drawn[i] - 1 => f.value = intent[i]
  /\ (\A f \in Drawn : InFlight(f) => f.id # i) /\ intent[i] # "none" => Obeys(i)
QuietInv == \A i \in quiet : QuietAt(i)

LEMMA DrawnIsFrame ==
  ASSUME NEW f \in Drawn
  PROVE  /\ f \in Frames /\ f # NoFrame
         /\ f.id \in Ids /\ f.number \in Nat /\ f.counter = f.number % CounterMod /\ f.intact = TRUE
         /\ f.id = "mode" => f.value \in Modes
<1>1. f.id \in Ids
  BY DEF Drawn, Frames
<1>2. NoFrame.id = "none" /\ "none" \notin Ids
  BY DEF NoFrame, Ids
<1>3. f # NoFrame
  BY <1>1, <1>2
<1> QED BY <1>1, <1>3 DEF Drawn, Frames

(* Frames leave the port and the threads' hands, and none comes.             *)
Thinner ==
  /\ Len(sent') = Len(sent)
  /\ \A n \in 1..Len(sent) : sent'[n] = sent[n] \/ sent'[n] = NoFrame
  /\ \A c \in Callers : pending'[c] = pending[c] \/ pending'[c] = NoFrame

FewerFlight ==
  \A f, g \in Drawn : /\ InLink(f)' => InLink(f)
                      /\ InHand(f)' => InHand(f)
                      /\ Before(f, g)' => Before(f, g)
                      /\ Beside(f, g)' => Beside(f, g)

LEMMA Thinning == Thinner => FewerFlight
<1> SUFFICES ASSUME Thinner, NEW f \in Drawn, NEW g \in Drawn
             PROVE  /\ InLink(f)' => InLink(f)
                    /\ InHand(f)' => InHand(f)
                    /\ Before(f, g)' => Before(f, g)
                    /\ Beside(f, g)' => Beside(f, g)
  BY DEF FewerFlight
<1>1. f # NoFrame /\ g # NoFrame
  BY DrawnIsFrame
<1>2. \A n \in 1..Len(sent') : /\ n \in 1..Len(sent)
                               /\ sent'[n] = f => sent[n] = f
                               /\ sent'[n] = g => sent[n] = g
  BY <1>1 DEF Thinner
<1>3. \A c \in Callers : /\ pending'[c] = f => pending[c] = f
                         /\ pending'[c] = g => pending[c] = g
  BY <1>1 DEF Thinner
<1>4. InLink(f)' => InLink(f)
  BY <1>2 DEF InLink
<1>5. /\ InHand(f)' => InHand(f)
      /\ InHand(g)' => InHand(g)
  BY <1>3 DEF InHand
<1>6. Beside(f, g)' => Beside(f, g)
  BY <1>3 DEF Beside
<1>7. Before(f, g)' => Before(f, g)
  <2>1. ASSUME NEW m \in 1..Len(sent'), NEW n \in 1..Len(sent'), m < n, sent'[m] = f, sent'[n] = g
        PROVE  Before(f, g)
    BY <1>2, <2>1 DEF Before
  <2>2. InLink(f)' /\ InHand(g)' => Before(f, g)
    BY <1>4, <1>5 DEF Before
  <2> QED BY <2>1, <2>2 DEF Before
<1> QED BY <1>4, <1>5, <1>6, <1>7

(* Any two frames in flight stand one before the other, or in two threads'
   hands; what is in the port cannot also be in a hand.                      *)
LEMMA Placed ==
  ASSUME NEW f \in Drawn, NEW g \in Drawn
  PROVE  /\ Before(f, g) => InLink(f) /\ InFlight(f) /\ InFlight(g)
         /\ Beside(f, g) => InHand(f) /\ InHand(g) /\ InFlight(f) /\ InFlight(g) /\ Beside(g, f)
         /\ InLink(f) /\ InHand(g) => Before(f, g)
BY DEF Before, Beside, InLink, InHand, InFlight

(* The first frame on the wire is heard, or lost, before every other.        *)
LEMMA Taking ==
  ASSUME LinkInv, TakeOff, pending' = pending
  PROVE  /\ Arriving \in Drawn
         /\ InLink(Arriving)
         /\ FewerFlight
         /\ \A f \in Drawn : /\ InFlight(f)' => Before(Arriving, f)
                             /\ InFlight(f) => f = Arriving \/ InFlight(f)'
<1> DEFINE w == wire[heard + 1]
<1>0. /\ heard \in Nat /\ Len(wire) \in Nat /\ heard + 1 \in (heard + 1)..Len(wire) /\ heard + 1 \in 1..Len(wire)
      /\ heard' = heard + 1
  BY LenProperties DEF LinkInv, TakeOff, Port!LinkTypeOK
<1>1. w \in 1..Len(sent) /\ Len(sent) = accepted /\ accepted \in Nat
  BY <1>0 DEF LinkInv, Port!LinkTypeOK
<1>2. sent[w] # NoFrame
  BY <1>0 DEF LinkInv
<1>3. sent[w] \in Drawn
  BY <1>1, <1>2, ElementOfSeq DEF LinkInv
<1>4. Arriving = sent[w]
  BY DEF Arriving
<1>5. sent' = [n \in 1..accepted |-> IF n \in {w} THEN NoFrame ELSE sent[n]]
  BY <1>0 DEF TakeOff, Forget
<1>6. sent' = [n \in 1..accepted |-> IF n = w THEN NoFrame ELSE sent[n]]
  BY <1>5
<1>7. DOMAIN sent' = 1..accepted /\ Len(sent') = accepted
  BY <1>1, <1>6
<1>8. \A n \in 1..accepted : sent'[n] = IF n = w THEN NoFrame ELSE sent[n]
  BY <1>6
<1>9. FewerFlight
  BY <1>1, <1>7, <1>8, Thinning DEF Thinner
<1>10. \A n \in 1..Len(sent) : sent[n] # NoFrame /\ n # w => w < n
  <2> SUFFICES ASSUME NEW n \in 1..Len(sent), sent[n] # NoFrame, n # w PROVE w < n
    OBVIOUS
  <2>1. CASE \E k \in (heard + 1)..Len(wire) : wire[k] = n
    <3>1. PICK k \in (heard + 1)..Len(wire) : wire[k] = n
      BY <2>1
    <3>2. k # heard + 1 /\ heard + 1 < k /\ k \in 1..Len(wire)
      BY <3>1, <1>0
    <3>3. wire[heard + 1] < wire[k]
      BY <3>2, <1>0 DEF LinkInv, Port!Increasing
    <3> QED BY <3>1, <3>3
  <2>2. CASE \E j \in 1..Len(backlog) : backlog[j] = n
    BY <2>2, <1>0 DEF LinkInv
  <2> QED BY <2>1, <2>2 DEF LinkInv
<1> HIDE DEF w
<1>11. ASSUME NEW f \in Drawn, InFlight(f)'
       PROVE  Before(Arriving, f)
  <2>1. f # NoFrame
    BY DrawnIsFrame
  <2>2. CASE InLink(f)'
    <3>1. PICK n \in 1..accepted : sent'[n] = f
      BY <2>2, <1>7 DEF InLink
    <3>2. n # w /\ sent[n] = f
      BY <3>1, <2>1, <1>8
    <3>3. w < n
      BY <3>2, <2>1, <1>1, <1>10
    <3> QED BY <3>2, <3>3, <1>1, <1>4 DEF Before
  <2>3. CASE InHand(f)'
    <3>1. InHand(f)
      BY <2>3 DEF InHand
    <3> QED BY <3>1, <1>1, <1>4 DEF Before, InLink
  <2> QED BY <1>11, <2>2, <2>3 DEF InFlight
<1>12. ASSUME NEW f \in Drawn, InFlight(f), f # Arriving
       PROVE  InFlight(f)'
  <2>1. CASE InLink(f)
    <3>1. PICK n \in 1..accepted : sent[n] = f
      BY <2>1, <1>1 DEF InLink
    <3>2. sent'[n] = f
      BY <3>1, <1>4, <1>8, <1>12
    <3> QED BY <3>2, <1>7 DEF InLink, InFlight
  <2>2. CASE InHand(f)
    BY <2>2 DEF InHand, InFlight
  <2> QED BY <1>12, <2>1, <2>2 DEF InFlight
<1>13. InLink(Arriving)
  BY <1>1, <1>4 DEF InLink
<1> QED BY <1>3, <1>4, <1>9, <1>11, <1>12, <1>13

-----------------------------------------------------------------------------
(* The port and the wire.                                                    *)

LinkBasics ==
  /\ open \in BOOLEAN /\ accepted \in Nat
  /\ backlog \in Seq(Nat) /\ wire \in Seq(Nat)
  /\ sent \in Seq(Drawn \cup {NoFrame}) /\ Len(sent) = accepted
  /\ Len(wire) \in Nat /\ Len(backlog) \in Nat /\ heard \in Nat /\ heard <= Len(wire)

LEMMA Linked == LinkInv => LinkBasics
BY LenProperties DEF LinkInv, LinkBasics, Port!LinkTypeOK

LEMMA Forgets ==
  ASSUME LinkInv, NEW S, sent' = Forget(S), accepted' = accepted
  PROVE  /\ sent' \in Seq(Drawn \cup {NoFrame}) /\ Len(sent') = accepted
         /\ \A n \in 1..accepted : sent'[n] = IF n \in S THEN NoFrame ELSE sent[n]
<1>1. accepted \in Nat /\ \A n \in 1..accepted : sent[n] \in Drawn \cup {NoFrame}
  BY ElementOfSeq DEF LinkInv, Port!LinkTypeOK
<1>2. sent' \in [1..accepted -> Drawn \cup {NoFrame}]
  BY <1>1 DEF Forget
<1>3. sent' \in Seq(Drawn \cup {NoFrame})
  BY <1>1, <1>2, SeqDef
<1>4. Len(sent') = accepted
  BY <1>1, <1>2, LenProperties DEF Forget
<1> QED BY <1>3, <1>4 DEF Forget

LEMMA LinkTakes == ASSUME LinkInv, TakeOff PROVE LinkInv'
<1> DEFINE w == wire[heard + 1]
<1>0. LinkBasics /\ heard + 1 \in 1..Len(wire) /\ heard' = heard + 1
      /\ UNCHANGED <<open, backlog, accepted, wire>>
  BY Linked DEF TakeOff, LinkBasics
<1>1. sent' = Forget({w})
  BY <1>0 DEF TakeOff
<1>2. /\ sent' \in Seq(Drawn \cup {NoFrame}) /\ Len(sent') = accepted
      /\ \A n \in 1..accepted : sent'[n] = IF n \in {w} THEN NoFrame ELSE sent[n]
  BY <1>0, <1>1, Forgets
<1>3. \A k \in (heard' + 1)..Len(wire) : wire[k] # w /\ k \in (heard + 1)..Len(wire) /\ k \in 1..Len(wire)
  <2> SUFFICES ASSUME NEW k \in (heard' + 1)..Len(wire)
               PROVE  wire[k] # w /\ k \in (heard + 1)..Len(wire) /\ k \in 1..Len(wire)
    OBVIOUS
  <2>1. heard + 1 < k /\ k \in (heard + 1)..Len(wire) /\ k \in 1..Len(wire)
    BY <1>0 DEF LinkBasics
  <2>2. wire[heard + 1] < wire[k] /\ wire[heard + 1] \in Nat /\ wire[k] \in Nat
    BY <2>1, <1>0, ElementOfSeq DEF LinkInv, Port!Increasing, LinkBasics
  <2> QED BY <2>1, <2>2
<1>4. \A j \in 1..Len(backlog) : backlog[j] # w
  BY <1>0, ElementOfSeq DEF LinkInv, LinkBasics
<1>5. w \in 1..accepted
  BY <1>0 DEF LinkInv
<1> HIDE DEF w
<1>6. \A k \in (heard' + 1)..Len(wire) : sent'[wire[k]] # NoFrame
  <2> SUFFICES ASSUME NEW k \in (heard' + 1)..Len(wire) PROVE sent'[wire[k]] # NoFrame
    OBVIOUS
  <2>1. wire[k] # w /\ k \in (heard + 1)..Len(wire) /\ wire[k] \in 1..accepted
    BY <1>3 DEF LinkInv
  <2>2. sent'[wire[k]] = sent[wire[k]]
    BY <2>1, <1>2
  <2> QED BY <2>1, <2>2 DEF LinkInv
<1>7. \A j \in 1..Len(backlog) : sent'[backlog[j]] # NoFrame
  <2> SUFFICES ASSUME NEW j \in 1..Len(backlog) PROVE sent'[backlog[j]] # NoFrame
    OBVIOUS
  <2>1. backlog[j] # w /\ backlog[j] \in 1..accepted
    BY <1>4 DEF LinkInv
  <2>2. sent'[backlog[j]] = sent[backlog[j]]
    BY <2>1, <1>2
  <2> QED BY <2>2 DEF LinkInv
<1>8. \A n \in 1..accepted : sent'[n] # NoFrame =>
        \/ \E k \in (heard' + 1)..Len(wire) : wire[k] = n
        \/ \E j \in 1..Len(backlog) : backlog[j] = n
  <2> SUFFICES ASSUME NEW n \in 1..accepted, sent'[n] # NoFrame
               PROVE  \/ \E k \in (heard' + 1)..Len(wire) : wire[k] = n
                      \/ \E j \in 1..Len(backlog) : backlog[j] = n
    OBVIOUS
  <2>1. n # w /\ sent[n] # NoFrame /\ n \in 1..Len(sent)
    BY <1>0, <1>2 DEF LinkBasics
  <2>2. CASE \E k \in (heard + 1)..Len(wire) : wire[k] = n
    <3>1. PICK k \in (heard + 1)..Len(wire) : wire[k] = n
      BY <2>2
    <3>2. k # heard + 1
      BY <3>1, <2>1 DEF w
    <3>3. k \in (heard' + 1)..Len(wire)
      BY <3>2, <1>0 DEF LinkBasics
    <3> QED BY <3>1, <3>3
  <2> QED BY <2>1, <2>2 DEF LinkInv
<1>9. heard' \in 0..Len(wire)
  BY <1>0 DEF LinkBasics
<1>10. Port!LinkTypeOK'
  BY <1>0 DEF LinkInv, Port!LinkTypeOK
<1>11. Port!Increasing(wire)' /\ Port!Increasing(backlog)'
  BY <1>0 DEF LinkInv, Port!Increasing
<1> QED BY <1>0, <1>2, <1>6, <1>7, <1>8, <1>9, <1>10, <1>11 DEF LinkInv

LEMMA LinkGone == ASSUME LinkInv, PortGone, heard' = heard PROVE LinkInv'
<1> DEFINE S == {backlog[j] : j \in 1..Len(backlog)}
<1>0. LinkBasics /\ open' = FALSE /\ backlog' = <<>> /\ UNCHANGED <<accepted, wire>> /\ sent' = Forget(S)
  BY Linked DEF PortGone
<1>2. /\ sent' \in Seq(Drawn \cup {NoFrame}) /\ Len(sent') = accepted
      /\ \A n \in 1..accepted : sent'[n] = IF n \in S THEN NoFrame ELSE sent[n]
  BY <1>0, Forgets
<1>3. Len(backlog') = 0 /\ backlog' \in Seq(Nat)
  BY <1>0, EmptySeq
<1>6. \A k \in (heard + 1)..Len(wire) : sent'[wire[k]] # NoFrame
  <2> SUFFICES ASSUME NEW k \in (heard + 1)..Len(wire) PROVE sent'[wire[k]] # NoFrame
    OBVIOUS
  <2>1. k \in 1..Len(wire) /\ wire[k] \in 1..accepted
    BY <1>0 DEF LinkInv, LinkBasics
  <2>2. \A j \in 1..Len(backlog) : wire[k] # backlog[j]
    BY <2>1, <1>0, ElementOfSeq DEF LinkInv, LinkBasics
  <2>3. sent'[wire[k]] = sent[wire[k]]
    BY <2>1, <2>2, <1>2
  <2> QED BY <2>3 DEF LinkInv
<1>8. \A n \in 1..accepted : sent'[n] # NoFrame => \E k \in (heard + 1)..Len(wire) : wire[k] = n
  BY <1>0, <1>2 DEF LinkInv, LinkBasics
<1>10. Port!LinkTypeOK'
  BY <1>0, <1>3 DEF LinkInv, Port!LinkTypeOK
<1>11. Port!Increasing(wire)' /\ Port!Increasing(backlog)'
  BY <1>0, <1>3 DEF LinkInv, Port!Increasing
<1> HIDE DEF S
<1> QED BY <1>0, <1>2, <1>3, <1>6, <1>8, <1>10, <1>11 DEF LinkInv

LEMMA LinkStays ==
  ASSUME LinkInv, open' \in BOOLEAN, UNCHANGED <<backlog, accepted, wire, sent, heard>>
  PROVE  LinkInv'
<1>1. Port!LinkTypeOK'
  BY DEF LinkInv, Port!LinkTypeOK
<1>2. Port!Increasing(wire)' /\ Port!Increasing(backlog)'
  BY DEF LinkInv, Port!Increasing
<1> QED BY <1>1, <1>2 DEF LinkInv

(* What Append leaves in place and what it adds.                             *)
LEMMA Appended ==
  ASSUME NEW S, NEW s \in Seq(S), NEW e \in S
  PROVE  /\ Append(s, e) \in Seq(S) /\ Len(Append(s, e)) = Len(s) + 1
         /\ Append(s, e)[Len(s) + 1] = e
         /\ \A n \in 1..Len(s) : Append(s, e)[n] = s[n]
BY AppendProperties, LenProperties

LEMMA LinkAccepts ==
  ASSUME LinkInv, NEW p \in Drawn, Port!Accept, sent' = Append(sent, p), heard' = heard
  PROVE  LinkInv'
<1>0. LinkBasics /\ accepted' = accepted + 1 /\ backlog' = Append(backlog, accepted + 1)
      /\ UNCHANGED <<open, wire>>
  BY Linked DEF Port!Accept
<1>1. /\ sent' \in Seq(Drawn \cup {NoFrame}) /\ Len(sent') = accepted'
      /\ sent'[accepted + 1] = p
      /\ \A n \in 1..accepted : sent'[n] = sent[n]
  <2>1. sent \in Seq(Drawn \cup {NoFrame}) /\ Len(sent) = accepted
    BY <1>0 DEF LinkBasics
  <2>2. p \in Drawn \cup {NoFrame}
    OBVIOUS
  <2>3. /\ Append(sent, p) \in Seq(Drawn \cup {NoFrame}) /\ Len(Append(sent, p)) = Len(sent) + 1
        /\ Append(sent, p)[Len(sent) + 1] = p
        /\ \A n \in 1..Len(sent) : Append(sent, p)[n] = sent[n]
    BY <2>1, <2>2, Appended
  <2> QED BY <2>1, <2>3, <1>0
<1>2. /\ backlog' \in Seq(Nat) /\ Len(backlog') = Len(backlog) + 1
      /\ backlog'[Len(backlog) + 1] = accepted + 1
      /\ \A j \in 1..Len(backlog) : backlog'[j] = backlog[j]
  <2>1. backlog \in Seq(Nat) /\ accepted + 1 \in Nat
    BY <1>0 DEF LinkBasics
  <2>2. /\ Append(backlog, accepted + 1) \in Seq(Nat) /\ Len(Append(backlog, accepted + 1)) = Len(backlog) + 1
        /\ Append(backlog, accepted + 1)[Len(backlog) + 1] = accepted + 1
        /\ \A n \in 1..Len(backlog) : Append(backlog, accepted + 1)[n] = backlog[n]
    BY <2>1, Appended
  <2> QED BY <2>2, <1>0
<1>3. \A j \in 1..Len(backlog') : \/ j \in 1..Len(backlog) /\ backlog'[j] = backlog[j]
                                  \/ j = Len(backlog) + 1 /\ backlog'[j] = accepted + 1
  BY <1>0, <1>2 DEF LinkBasics
<1>4. p # NoFrame
  BY DrawnIsFrame
<1>5. \A j \in 1..Len(backlog) : backlog[j] \in 1..accepted
  BY DEF LinkInv
<1>6. \A i \in 1..Len(wire) : wire[i] \in 1..accepted
  BY DEF LinkInv
<1>7. Port!Increasing(backlog')
  <2> SUFFICES ASSUME NEW i \in 1..Len(backlog'), NEW j \in 1..Len(backlog'), i < j
               PROVE  backlog'[i] < backlog'[j]
    BY DEF Port!Increasing
  <2>1. i \in 1..Len(backlog) /\ backlog'[i] = backlog[i]
    BY <1>0, <1>2, <1>3 DEF LinkBasics
  <2>2. CASE j \in 1..Len(backlog) /\ backlog'[j] = backlog[j]
    BY <2>1, <2>2 DEF LinkInv, Port!Increasing
  <2>3. CASE j = Len(backlog) + 1 /\ backlog'[j] = accepted + 1
    BY <2>1, <2>3, <1>0, <1>5 DEF LinkBasics
  <2> QED BY <1>3, <2>2, <2>3
<1>8. \A j \in 1..Len(backlog') : backlog'[j] \in 1..(accepted + 1)
  BY <1>0, <1>3, <1>5 DEF LinkBasics
<1>9. \A i \in 1..Len(wire) : wire[i] \in 1..(accepted + 1)
  BY <1>0, <1>6 DEF LinkBasics
<1>10. \A i \in 1..Len(wire), j \in 1..Len(backlog') : wire[i] < backlog'[j]
  <2> SUFFICES ASSUME NEW i \in 1..Len(wire), NEW j \in 1..Len(backlog') PROVE wire[i] < backlog'[j]
    OBVIOUS
  <2>1. CASE j \in 1..Len(backlog) /\ backlog'[j] = backlog[j]
    BY <2>1 DEF LinkInv
  <2>2. CASE j = Len(backlog) + 1 /\ backlog'[j] = accepted + 1
    BY <2>2, <1>0, <1>6 DEF LinkBasics
  <2> QED BY <1>3, <2>1, <2>2
<1>11. \A k \in (heard + 1)..Len(wire) : sent'[wire[k]] # NoFrame
  <2> SUFFICES ASSUME NEW k \in (heard + 1)..Len(wire) PROVE sent'[wire[k]] # NoFrame
    OBVIOUS
  <2>1. k \in 1..Len(wire)
    BY <1>0 DEF LinkBasics
  <2>2. sent'[wire[k]] = sent[wire[k]]
    BY <2>1, <1>1, <1>6
  <2> QED BY <2>2 DEF LinkInv
<1>12. \A j \in 1..Len(backlog') : sent'[backlog'[j]] # NoFrame
  <2> SUFFICES ASSUME NEW j \in 1..Len(backlog') PROVE sent'[backlog'[j]] # NoFrame
    OBVIOUS
  <2>1. CASE j \in 1..Len(backlog) /\ backlog'[j] = backlog[j]
    <3>1. sent'[backlog[j]] = sent[backlog[j]]
      BY <2>1, <1>1, <1>5
    <3> QED BY <2>1, <3>1 DEF LinkInv
  <2>2. CASE j = Len(backlog) + 1 /\ backlog'[j] = accepted + 1
    BY <2>2, <1>1, <1>4
  <2> QED BY <1>3, <2>1, <2>2
<1>13. \A n \in 1..Len(sent') : sent'[n] # NoFrame =>
        \/ \E k \in (heard + 1)..Len(wire) : wire[k] = n
        \/ \E j \in 1..Len(backlog') : backlog'[j] = n
  <2> SUFFICES ASSUME NEW n \in 1..Len(sent'), sent'[n] # NoFrame
               PROVE  \/ \E k \in (heard + 1)..Len(wire) : wire[k] = n
                      \/ \E j \in 1..Len(backlog') : backlog'[j] = n
    OBVIOUS
  <2>1. CASE n \in 1..accepted
    <3>1. sent[n] # NoFrame /\ n \in 1..Len(sent)
      BY <2>1, <1>0, <1>1 DEF LinkBasics
    <3>2. \/ \E k \in (heard + 1)..Len(wire) : wire[k] = n
          \/ \E j \in 1..Len(backlog) : backlog[j] = n
      BY <3>1 DEF LinkInv
    <3>3. \A j \in 1..Len(backlog) : j \in 1..Len(backlog') /\ backlog'[j] = backlog[j]
      BY <1>0, <1>2 DEF LinkBasics
    <3> QED BY <3>2, <3>3
  <2>2. CASE n = accepted + 1
    <3>1. Len(backlog) + 1 \in 1..Len(backlog')
      BY <1>0, <1>2 DEF LinkBasics
    <3> QED BY <2>2, <3>1, <1>2
  <2>3. n \in 1..accepted \/ n = accepted + 1
    BY <1>0, <1>1 DEF LinkBasics
  <2> QED BY <2>1, <2>2, <2>3
<1>14. Port!LinkTypeOK'
  <2>1. accepted + 1 \in Nat
    BY <1>0 DEF LinkBasics
  <2> QED BY <2>1, <1>0, <1>2 DEF Port!LinkTypeOK, LinkBasics
<1>15. Port!Increasing(wire)
  BY DEF LinkInv
<1>16. heard' \in 0..Len(wire')
  BY <1>0 DEF LinkBasics
<1> QED BY <1>0, <1>1, <1>7, <1>8, <1>9, <1>10, <1>11, <1>12, <1>13, <1>14, <1>15, <1>16
        DEF LinkInv, Port!Increasing

LEMMA LinkTransmits ==
  ASSUME LinkInv, Port!Transmit, UNCHANGED <<sent, heard>>
  PROVE  LinkInv'
<1>0. LinkBasics /\ UNCHANGED <<open, accepted>> /\ backlog # <<>>
  BY Linked DEF Port!Transmit
<1>1. /\ backlog' \in Seq(Nat) /\ Len(backlog') = Len(backlog) - 1
      /\ Head(backlog) = backlog[1] /\ Len(backlog) >= 1
      /\ \A j \in 1..Len(backlog') : backlog'[j] = backlog[j + 1]
  BY <1>0, TailElements DEF Port!Transmit, LinkBasics
<1>2. PICK b \in 1..accepted : b = backlog[1]
  <2>1. 1 \in 1..Len(backlog)
    BY <1>0, <1>1 DEF LinkBasics
  <2> QED BY <2>1 DEF LinkInv
<1>3. wire' = Append(wire, b)
  BY <1>1, <1>2 DEF Port!Transmit
<1>4. /\ wire' \in Seq(Nat) /\ Len(wire') = Len(wire) + 1
      /\ wire'[Len(wire) + 1] = b
      /\ \A i \in 1..Len(wire) : wire'[i] = wire[i]
  <2>1. wire \in Seq(Nat) /\ b \in Nat
    BY <1>0 DEF LinkBasics
  <2>2. /\ Append(wire, b) \in Seq(Nat) /\ Len(Append(wire, b)) = Len(wire) + 1
        /\ Append(wire, b)[Len(wire) + 1] = b
        /\ \A n \in 1..Len(wire) : Append(wire, b)[n] = wire[n]
    BY <2>1, Appended
  <2> QED BY <2>2, <1>3
<1>5. \A j \in 1..Len(backlog') : j + 1 \in 1..Len(backlog) /\ 1 < j + 1
  <2>1. Len(backlog) \in Nat /\ Len(backlog') = Len(backlog) - 1
    BY <1>0, <1>1 DEF LinkBasics
  <2> QED BY <2>1
<1>6. \A j \in 1..Len(backlog') : backlog'[j] = backlog[j + 1] /\ b < backlog'[j]
  <2> SUFFICES ASSUME NEW j \in 1..Len(backlog') PROVE backlog'[j] = backlog[j + 1] /\ b < backlog'[j]
    OBVIOUS
  <2>1. 1 \in 1..Len(backlog) /\ j + 1 \in 1..Len(backlog) /\ 1 < j + 1
    BY <1>0, <1>1, <1>5 DEF LinkBasics
  <2>2. backlog[1] < backlog[j + 1]
    BY <2>1 DEF LinkInv, Port!Increasing
  <2> QED BY <2>2, <1>1, <1>2
<1>7. \A i \in 1..Len(wire') : \/ i \in 1..Len(wire) /\ wire'[i] = wire[i]
                               \/ i = Len(wire) + 1 /\ wire'[i] = b
  <2>1. \A i \in 1..Len(wire') : i \in 1..Len(wire) \/ i = Len(wire) + 1
    BY <1>0, <1>4 DEF LinkBasics
  <2> QED BY <2>1, <1>4
<1>8. \A i \in 1..Len(wire) : wire[i] \in 1..accepted /\ wire[i] < b
  <2>1. 1 \in 1..Len(backlog)
    BY <1>0, <1>1 DEF LinkBasics
  <2> QED BY <2>1, <1>2 DEF LinkInv
<1>9. Port!Increasing(wire')
  <2> SUFFICES ASSUME NEW i \in 1..Len(wire'), NEW j \in 1..Len(wire'), i < j
               PROVE  wire'[i] < wire'[j]
    BY DEF Port!Increasing
  <2>1. i \in 1..Len(wire) /\ wire'[i] = wire[i]
    <3>1. Len(wire) \in Nat /\ Len(wire') = Len(wire) + 1
      BY <1>0, <1>4 DEF LinkBasics
    <3>2. i # Len(wire) + 1
      BY <3>1
    <3> QED BY <3>2, <1>7
  <2>2. CASE j \in 1..Len(wire) /\ wire'[j] = wire[j]
    BY <2>1, <2>2 DEF LinkInv, Port!Increasing
  <2>3. CASE j = Len(wire) + 1 /\ wire'[j] = b
    BY <2>1, <2>3, <1>8
  <2> QED BY <1>7, <2>2, <2>3
<1>10. Port!Increasing(backlog')
  <2> SUFFICES ASSUME NEW i \in 1..Len(backlog'), NEW j \in 1..Len(backlog'), i < j
               PROVE  backlog'[i] < backlog'[j]
    BY DEF Port!Increasing
  <2>1. i + 1 < j + 1 /\ i + 1 \in 1..Len(backlog) /\ j + 1 \in 1..Len(backlog)
    BY <1>5
  <2>2. backlog[i + 1] < backlog[j + 1]
    BY <2>1 DEF LinkInv, Port!Increasing
  <2> QED BY <2>2, <1>6
<1>11. \A i \in 1..Len(wire') : wire'[i] \in 1..accepted
  BY <1>2, <1>7, <1>8
<1>12. \A j \in 1..Len(backlog') : backlog'[j] \in 1..accepted /\ sent[backlog'[j]] # NoFrame
  BY <1>5, <1>6 DEF LinkInv
<1>13. \A i \in 1..Len(wire'), j \in 1..Len(backlog') : wire'[i] < backlog'[j]
  <2> SUFFICES ASSUME NEW i \in 1..Len(wire'), NEW j \in 1..Len(backlog') PROVE wire'[i] < backlog'[j]
    OBVIOUS
  <2>1. CASE i \in 1..Len(wire) /\ wire'[i] = wire[i]
    BY <2>1, <1>5, <1>6 DEF LinkInv
  <2>2. CASE i = Len(wire) + 1 /\ wire'[i] = b
    BY <2>2, <1>6
  <2> QED BY <1>7, <2>1, <2>2
<1>14. \A k \in (heard + 1)..Len(wire') : sent[wire'[k]] # NoFrame
  <2> SUFFICES ASSUME NEW k \in (heard + 1)..Len(wire') PROVE sent[wire'[k]] # NoFrame
    OBVIOUS
  <2>1. CASE k = Len(wire) + 1
    <3>1. sent[backlog[1]] # NoFrame
      BY <1>0, <1>1 DEF LinkInv, LinkBasics
    <3> QED BY <2>1, <3>1, <1>2, <1>4
  <2>2. CASE k # Len(wire) + 1
    <3>1. Len(wire) \in Nat /\ heard \in Nat /\ Len(wire') = Len(wire) + 1
      BY <1>0, <1>4 DEF LinkBasics
    <3>2. k \in (heard + 1)..Len(wire) /\ k \in 1..Len(wire)
      BY <2>2, <3>1
    <3>3. wire'[k] = wire[k]
      BY <3>2, <1>4
    <3> QED BY <3>2, <3>3 DEF LinkInv
  <2> QED BY <2>1, <2>2
<1>15. \A n \in 1..Len(sent) : sent[n] # NoFrame =>
        \/ \E k \in (heard + 1)..Len(wire') : wire'[k] = n
        \/ \E j \in 1..Len(backlog') : backlog'[j] = n
  <2> SUFFICES ASSUME NEW n \in 1..Len(sent), sent[n] # NoFrame
               PROVE  \/ \E k \in (heard + 1)..Len(wire') : wire'[k] = n
                      \/ \E j \in 1..Len(backlog') : backlog'[j] = n
    OBVIOUS
  <2>1. CASE \E k \in (heard + 1)..Len(wire) : wire[k] = n
    <3>1. PICK k \in (heard + 1)..Len(wire) : wire[k] = n
      BY <2>1
    <3>2. Len(wire) \in Nat /\ heard \in Nat /\ Len(wire') = Len(wire) + 1
      BY <1>0, <1>4 DEF LinkBasics
    <3>3. k \in (heard + 1)..Len(wire') /\ k \in 1..Len(wire)
      BY <3>1, <3>2
    <3> QED BY <3>1, <3>3, <1>4
  <2>2. CASE \E j \in 1..Len(backlog) : backlog[j] = n
    <3>1. PICK j \in 1..Len(backlog) : backlog[j] = n
      BY <2>2
    <3>2. CASE j = 1
      <4>1. Len(wire) + 1 \in (heard + 1)..Len(wire')
        BY <1>0, <1>4 DEF LinkBasics
      <4>2. wire'[Len(wire) + 1] = n
        BY <3>1, <3>2, <1>2, <1>4
      <4> QED BY <4>1, <4>2
    <3>3. CASE j # 1
      <4>1. j - 1 \in 1..Len(backlog') /\ (j - 1) + 1 = j
        BY <3>3, <1>0, <1>1 DEF LinkBasics
      <4> QED BY <3>1, <4>1, <1>6
    <3> QED BY <3>2, <3>3
  <2> QED BY <2>1, <2>2 DEF LinkInv
<1>16. Port!LinkTypeOK'
  BY <1>0, <1>1, <1>4 DEF Port!LinkTypeOK, LinkBasics
<1>17. heard' \in 0..Len(wire')
  BY <1>0, <1>4 DEF LinkBasics
<1>18. sent' = sent /\ heard' = heard /\ accepted' = accepted
  BY <1>0
<1> QED BY <1>0, <1>9, <1>10, <1>11, <1>12, <1>13, <1>14, <1>15, <1>16, <1>17, <1>18
        DEF LinkInv, LinkBasics, Port!Increasing

-----------------------------------------------------------------------------
(* Steps that add no frame and after which nothing more was heard.           *)

LEMMA CountThins ==
  ASSUME CountInv, FewerFlight, UNCHANGED <<newest, last, ctr>>,
         drawn \in [Ids -> Nat], drawn' \in [Ids -> Nat], \A i \in Ids : drawn'[i] >= drawn[i]
  PROVE  CountInv'
<1>1. newest' \in [Ids -> Int] /\ last' \in [Ids -> Int]
  BY DEF CountInv
<1>2. \A i \in Ids : /\ newest'[i] \in -1..(drawn'[i] - 1)
                     /\ last'[i] \in -1..(drawn'[i] - 1)
                     /\ ctr'[i] = IF last'[i] = -1 THEN NoReference
                                  ELSE [have |-> TRUE, last |-> last'[i] % CounterMod]
                     /\ last'[i] = -1 => newest'[i] = -1
  <2> SUFFICES ASSUME NEW i \in Ids
               PROVE  /\ newest[i] \in -1..(drawn'[i] - 1)
                      /\ last[i] \in -1..(drawn'[i] - 1)
    BY DEF CountInv
  <2>1. newest[i] \in -1..(drawn[i] - 1) /\ last[i] \in -1..(drawn[i] - 1)
    BY DEF CountInv
  <2>2. drawn[i] \in Nat /\ drawn'[i] \in Nat /\ drawn'[i] >= drawn[i]
    OBVIOUS
  <2> QED BY <2>1, <2>2
<1>3. ASSUME NEW f \in Drawn, InFlight(f)'
      PROVE  f.number < drawn'[f.id] /\ f.number # newest'[f.id]
  <2>1. InFlight(f)
    BY <1>3 DEF FewerFlight, InFlight
  <2>2. f.id \in Ids /\ f.number \in Nat
    BY DrawnIsFrame
  <2>3. f.number < drawn[f.id] /\ f.number # newest[f.id]
    BY <2>1 DEF CountInv
  <2>4. drawn[f.id] \in Nat /\ drawn'[f.id] \in Nat /\ drawn'[f.id] >= drawn[f.id]
    BY <2>2
  <2> QED BY <2>2, <2>3, <2>4
<1>4. ASSUME NEW f \in Drawn, NEW g \in Drawn, Apart(f, g)', f.id = g.id
      PROVE  f.number # g.number
  <2>1. Apart(f, g)
    BY <1>4 DEF FewerFlight, Apart
  <2> QED BY <2>1, <1>4 DEF CountInv
<1> QED BY <1>1, <1>2, <1>3, <1>4 DEF CountInv

LEMMA LateThins ==
  ASSUME OrderInv, FewerFlight, UNCHANGED <<newest, last, issued>>,
         drawn' = drawn \/ \A f \in Drawn : ~InHand(f)'
  PROVE  OrderInv'
<1>1. OrderInv'
  <2>1. ASSUME NEW f \in Drawn, NEW g \in Drawn, Apart(g, f)', f.id = g.id, g.number < f.number
        PROVE  newest'[f.id] < f.number
    <3>1. Apart(g, f)
      BY <2>1 DEF FewerFlight, Apart
    <3> QED BY <2>1, <3>1 DEF OrderInv
  <2>2. ASSUME NEW h \in Drawn, NEW g \in Drawn, NEW f \in Drawn, Before(h, g)', Apart(g, f)',
               f.id = g.id, h.id = g.id, g.number < f.number
        PROVE  h.number < f.number
    <3>1. Before(h, g) /\ Apart(g, f)
      BY <2>2 DEF FewerFlight, Apart
    <3> QED BY <2>2, <3>1 DEF OrderInv
  <2>3. ASSUME NEW f \in Drawn, InFlight(f)', f.number < newest'[f.id]
        PROVE  f.number < last'[f.id]
    <3>1. InFlight(f)
      BY <2>3 DEF FewerFlight, InFlight
    <3> QED BY <2>3, <3>1 DEF OrderInv
  <2> QED BY <2>1, <2>2, <2>3 DEF OrderInv
<1> QED BY <1>1

LEMMA QuietThins ==
  ASSUME NEW i, QuietAt(i), FewerFlight,
         last'[i] = last[i], intent'[i] = intent[i], drawn'[i] = drawn[i], Obeys(i) => Obeys(i)',
         \A f \in Drawn : f.id = i /\ InFlight(f) => InFlight(f)'
  PROVE  QuietAt(i)'
<1>1. \A f, g \in Drawn : /\ InFlight(f)' => InFlight(f)
                          /\ Before(f, g)' => Before(f, g)
  BY DEF FewerFlight, InFlight
<1>2. \A f \in Drawn : InFlight(f)' /\ f.id = i => last'[i] < f.number
  BY <1>1 DEF QuietAt
<1>3. \A f, g \in Drawn : Before(f, g)' /\ f.id = i /\ g.id = i => f.number < g.number
  BY <1>1 DEF QuietAt
<1>4. last'[i] # -1 => \A k \in (last'[i] + 1)..(drawn'[i] - 1) :
                         \E f \in Drawn : InFlight(f)' /\ f.id = i /\ f.number = k
  BY DEF QuietAt
<1>5. \A g \in Drawn : InFlight(g)' /\ g.id = i => \A k \in g.number..(drawn'[i] - 1) :
                         \E f \in Drawn : InFlight(f)' /\ f.id = i /\ f.number = k
  BY <1>1 DEF QuietAt
<1>6. \A f \in Drawn : InFlight(f)' /\ f.id = i /\ f.number = drawn'[i] - 1 => f.value = intent'[i]
  BY <1>1 DEF QuietAt
<1>7. (\A f \in Drawn : InFlight(f)' => f.id # i) /\ intent'[i] # "none" => Obeys(i)'
  BY DEF QuietAt
<1> QED BY <1>2, <1>3, <1>4, <1>5, <1>6, <1>7 DEF QuietAt

-----------------------------------------------------------------------------
(* A command is issued: its frame has the next number of its id.             *)

LEMMA Issued ==
  ASSUME LinkInv, ClientInv, NEW c \in Callers, pending[c] = NoFrame,
         NEW p \in Drawn, sent' = sent, pending' = [pending EXCEPT ![c] = p]
  PROVE  \A f, g \in Drawn :
           /\ InLink(f)' <=> InLink(f)
           /\ InHand(f)' <=> InHand(f) \/ f = p
           /\ Before(f, g)' => Before(f, g) \/ (g = p /\ InLink(f))
           /\ Beside(f, g)' => Beside(f, g) \/ (f = p /\ InHand(g)) \/ (g = p /\ InHand(f))
<1> SUFFICES ASSUME NEW f \in Drawn, NEW g \in Drawn
             PROVE  /\ InLink(f)' <=> InLink(f)
                    /\ InHand(f)' <=> InHand(f) \/ f = p
                    /\ Before(f, g)' => Before(f, g) \/ (g = p /\ InLink(f))
                    /\ Beside(f, g)' => Beside(f, g) \/ (f = p /\ InHand(g)) \/ (g = p /\ InHand(f))
  OBVIOUS
<1>1. f # NoFrame /\ g # NoFrame
  BY DrawnIsFrame
<1>2. \A d \in Callers : pending'[d] = IF d = c THEN p ELSE pending[d]
  BY DEF ClientInv
<1>3. InLink(f)' <=> InLink(f)
  BY DEF InLink
<1>4. (InHand(f)' <=> InHand(f) \/ f = p) /\ (InHand(g)' => InHand(g) \/ g = p)
  BY <1>1, <1>2 DEF InHand
<1>5. Beside(f, g)' => Beside(f, g) \/ (f = p /\ InHand(g)) \/ (g = p /\ InHand(f))
  <2> SUFFICES ASSUME NEW d \in Callers, NEW e \in Callers, d # e, pending'[d] = f, pending'[e] = g
               PROVE  Beside(f, g) \/ (f = p /\ InHand(g)) \/ (g = p /\ InHand(f))
    BY DEF Beside
  <2>1. CASE d = c
    BY <2>1, <1>2 DEF InHand
  <2>2. CASE e = c
    BY <2>2, <1>2 DEF InHand
  <2>3. CASE d # c /\ e # c
    BY <2>3, <1>2 DEF Beside
  <2> QED BY <2>1, <2>2, <2>3
<1>6. Before(f, g)' => Before(f, g) \/ (g = p /\ InLink(f))
  BY <1>3, <1>4 DEF Before
<1> QED BY <1>3, <1>4, <1>5, <1>6

IssueStep(c, p) ==
  /\ c \in Callers /\ p \in Drawn /\ pending[c] = NoFrame
  /\ p.number = drawn[p.id]
  /\ pending' = [pending EXCEPT ![c] = p]
  /\ drawn' = [drawn EXCEPT ![p.id] = @ + 1]
  /\ issued' = issued + 1
  /\ intent' = [intent EXCEPT ![p.id] = p.value]
  /\ UNCHANGED <<portVars, heard, newest, last, quiet, trackerVars>>

LEMMA IssueCounts ==
  ASSUME LinkInv, ClientInv, CountInv, NEW c, NEW p, IssueStep(c, p)
  PROVE  CountInv'
<1>0. c \in Callers /\ p \in Drawn /\ pending[c] = NoFrame /\ p.number = drawn[p.id] /\ sent' = sent
      /\ pending' = [pending EXCEPT ![c] = p] /\ UNCHANGED <<newest, last, ctr>>
  BY DEF IssueStep, portVars, trackerVars
<1>1. \A f, g \in Drawn :
           /\ InLink(f)' <=> InLink(f)
           /\ InHand(f)' <=> InHand(f) \/ f = p
           /\ Before(f, g)' => Before(f, g) \/ (g = p /\ InLink(f))
           /\ Beside(f, g)' => Beside(f, g) \/ (f = p /\ InHand(g)) \/ (g = p /\ InHand(f))
  BY <1>0, Issued
<1>2. p.id \in Ids /\ p.number \in Nat
  BY <1>0, DrawnIsFrame
<1>3. /\ \A i \in Ids : drawn[i] \in Nat /\ drawn'[i] = IF i = p.id THEN drawn[i] + 1 ELSE drawn[i]
      /\ drawn' \in [Ids -> Nat]
  BY <1>2 DEF IssueStep, ClientInv
<1>4. newest' \in [Ids -> Int] /\ last' \in [Ids -> Int]
  BY <1>0 DEF CountInv
<1>5. \A i \in Ids : /\ newest'[i] \in -1..(drawn'[i] - 1)
                     /\ last'[i] \in -1..(drawn'[i] - 1)
  <2> TAKE i \in Ids
  <2>1. newest[i] \in -1..(drawn[i] - 1) /\ last[i] \in -1..(drawn[i] - 1)
    BY DEF CountInv
  <2>2. drawn[i] \in Nat /\ drawn'[i] \in Nat /\ drawn'[i] >= drawn[i]
    BY <1>3
  <2> QED BY <2>1, <2>2, <1>0
<1>6. \A i \in Ids : /\ ctr'[i] = IF last'[i] = -1 THEN NoReference
                                  ELSE [have |-> TRUE, last |-> last'[i] % CounterMod]
                     /\ last'[i] = -1 => newest'[i] = -1
  BY <1>0 DEF CountInv
<1>7. ASSUME NEW f \in Drawn, InFlight(f)'
      PROVE  f.number < drawn'[f.id] /\ f.number # newest'[f.id]
  <2>1. f.id \in Ids /\ f.number \in Nat
    BY DrawnIsFrame
  <2>2. CASE f = p
    <3>1. newest[p.id] \in -1..(drawn[p.id] - 1)
      BY <1>2 DEF CountInv
    <3> QED BY <2>1, <2>2, <3>1, <1>0, <1>3
  <2>3. CASE f # p
    <3>1. InFlight(f)
      BY <1>1, <1>7, <2>3 DEF InFlight
    <3>2. f.number < drawn[f.id] /\ f.number # newest[f.id]
      BY <3>1 DEF CountInv
    <3> QED BY <2>1, <3>2, <1>0, <1>3
  <2> QED BY <2>2, <2>3
<1>8. ASSUME NEW f \in Drawn, NEW g \in Drawn, Apart(f, g)', f.id = g.id
      PROVE  f.number # g.number
  <2>1. f.number \in Nat /\ g.number \in Nat /\ f.id \in Ids
    BY DrawnIsFrame
  <2>2. CASE Apart(f, g)
    BY <2>2, <1>8 DEF CountInv
  <2>3. CASE ~Apart(f, g)
    <3>1. (g = p /\ InFlight(f)) \/ (f = p /\ InFlight(g))
      BY <2>3, <1>1, <1>8 DEF Apart, InFlight
    <3>2. \A x \in Drawn : InFlight(x) => x.number < drawn[x.id]
      BY DEF CountInv
    <3>3. drawn[f.id] \in Nat
      BY <2>1, <1>3
    <3> QED BY <3>1, <3>2, <3>3, <2>1, <1>0, <1>8
  <2> QED BY <2>2, <2>3
<1> QED BY <1>4, <1>5, <1>6, <1>7, <1>8 DEF CountInv

LEMMA IssueLate ==
  ASSUME LinkInv, ClientInv, CountInv, OrderInv, NEW c, NEW p, IssueStep(c, p)
  PROVE  OrderInv'
<1>0. c \in Callers /\ p \in Drawn /\ pending[c] = NoFrame /\ p.number = drawn[p.id] /\ sent' = sent
      /\ pending' = [pending EXCEPT ![c] = p] /\ UNCHANGED <<newest, last, ctr>> /\ issued' = issued + 1
  BY DEF IssueStep, portVars, trackerVars
<1>1. \A f, g \in Drawn :
           /\ InLink(f)' <=> InLink(f)
           /\ InHand(f)' <=> InHand(f) \/ f = p
           /\ Before(f, g)' => Before(f, g) \/ (g = p /\ InLink(f))
           /\ Beside(f, g)' => Beside(f, g) \/ (f = p /\ InHand(g)) \/ (g = p /\ InHand(f))
  BY <1>0, Issued
<1>2. p.id \in Ids /\ p.number \in Nat
  BY <1>0, DrawnIsFrame
<1>3. \A i \in Ids : drawn[i] \in Nat /\ drawn'[i] = IF i = p.id THEN drawn[i] + 1 ELSE drawn[i]
  BY <1>2 DEF IssueStep, ClientInv
<1>4. issued \in Int
  BY DEF ClientInv
<1>5. \A i \in Ids : newest[i] \in Int /\ last[i] \in Int /\ newest[i] < drawn[i] /\ last[i] < drawn[i]
  <2> TAKE i \in Ids
  <2>1. newest[i] \in -1..(drawn[i] - 1) /\ last[i] \in -1..(drawn[i] - 1)
    BY DEF CountInv
  <2> QED BY <2>1, <1>3
<1>6. \A x \in Drawn : InFlight(x) /\ x.id = p.id => x.number < p.number
  BY <1>0 DEF CountInv
<1>7. \A x \in Drawn : InFlight(x)' => x = p \/ InFlight(x)
  BY <1>1 DEF InFlight
<1>8. \A f, g \in Drawn : Apart(g, f)' => \/ Apart(g, f)
                                          \/ f = p /\ InFlight(g)
                                          \/ g = p /\ InFlight(f)
  BY <1>1 DEF Apart, InFlight
<1>9. OrderInv'
  <2>1. ASSUME NEW f \in Drawn, NEW g \in Drawn, Apart(g, f)', f.id = g.id, g.number < f.number
        PROVE  newest'[f.id] < f.number
    <3>1. f.number \in Nat /\ g.number \in Nat /\ f.id \in Ids
      BY DrawnIsFrame
    <3>2. CASE Apart(g, f)
      BY <2>1, <3>2, <1>0 DEF OrderInv
    <3>3. CASE f = p
      BY <3>3, <1>0, <1>2, <1>5
    <3>4. CASE g = p /\ InFlight(f)
      BY <3>4, <2>1, <3>1, <1>2, <1>6
    <3> QED BY <2>1, <3>2, <3>3, <3>4, <1>8
  <2>2. ASSUME NEW h \in Drawn, NEW g \in Drawn, NEW f \in Drawn, Before(h, g)', Apart(g, f)',
               f.id = g.id, h.id = g.id, g.number < f.number
        PROVE  h.number < f.number
    <3>1. f.number \in Nat /\ g.number \in Nat /\ h.number \in Nat /\ f.id \in Ids
      BY DrawnIsFrame
    <3>2. (Before(h, g) \/ (g = p /\ InLink(h))) /\ InFlight(h)
      BY <2>2, <1>1, Placed DEF InFlight
    <3>3. CASE f = p
      BY <3>2, <3>3, <2>2, <1>6
    <3>4. CASE g = p /\ InFlight(f)
      BY <3>4, <2>2, <3>1, <1>2, <1>6
    <3>5. CASE Apart(g, f) /\ Before(h, g)
      BY <3>5, <2>2 DEF OrderInv
    <3>6. CASE Apart(g, f) /\ g = p
      <4>1. InFlight(f)
        BY <3>6, Placed DEF Apart
      <4> QED BY <4>1, <3>4, <3>6
    <3> QED BY <2>2, <3>2, <3>3, <3>4, <3>5, <3>6, <1>8
  <2>3. ASSUME NEW f \in Drawn, InFlight(f)', f.number < newest'[f.id]
        PROVE  f.number < last'[f.id]
    <3>1. f.number \in Nat /\ f.id \in Ids
      BY DrawnIsFrame
    <3>2. CASE f = p
      BY <3>1, <3>2, <2>3, <1>0, <1>3, <1>5
    <3>3. CASE InFlight(f)
      BY <3>3, <2>3, <1>0 DEF OrderInv
    <3> QED BY <2>3, <3>2, <3>3, <1>7
  <2> QED BY <2>1, <2>2, <2>3 DEF OrderInv
<1> QED BY <1>9

LEMMA IssueQuiet ==
  ASSUME LinkInv, ClientInv, CountInv, QuietInv, NEW c, NEW p, IssueStep(c, p)
  PROVE  QuietInv'
<1>0. c \in Callers /\ p \in Drawn /\ pending[c] = NoFrame /\ p.number = drawn[p.id] /\ sent' = sent
      /\ pending' = [pending EXCEPT ![c] = p] /\ UNCHANGED <<newest, last, quiet, trackerVars>>
  BY DEF IssueStep, portVars
<1>1. \A f, g \in Drawn :
           /\ InLink(f)' <=> InLink(f)
           /\ InHand(f)' <=> InHand(f) \/ f = p
           /\ Before(f, g)' => Before(f, g) \/ (g = p /\ InLink(f))
           /\ Beside(f, g)' => Beside(f, g) \/ (f = p /\ InHand(g)) \/ (g = p /\ InHand(f))
  BY <1>0, Issued
<1>2. p.id \in Ids /\ p.number \in Nat
  BY <1>0, DrawnIsFrame
<1>3. \A i \in Ids : /\ drawn[i] \in Nat /\ drawn'[i] = IF i = p.id THEN drawn[i] + 1 ELSE drawn[i]
                     /\ intent'[i] = IF i = p.id THEN p.value ELSE intent[i]
  BY <1>2 DEF IssueStep, ClientInv
<1>4. \A f \in Drawn : InFlight(f)' <=> InFlight(f) \/ f = p
  BY <1>1 DEF InFlight
<1>5. \A x \in Drawn : InFlight(x) => x.number < drawn[x.id]
  BY DEF CountInv
<1> SUFFICES ASSUME NEW i \in quiet, QuietAt(i), i \in Ids PROVE QuietAt(i)'
  BY <1>0 DEF QuietInv, ClientInv
<1>6. last[i] \in Int /\ last[i] < drawn[i] /\ last' = last
  <2>1. last[i] \in -1..(drawn[i] - 1)
    BY DEF CountInv
  <2> QED BY <2>1, <1>0, <1>3
<1>7. ASSUME NEW f \in Drawn, InFlight(f)', f.id = i PROVE last'[i] < f.number
  <2>1. CASE f = p
    BY <2>1, <1>0, <1>6, <1>7
  <2>2. CASE InFlight(f)
    BY <2>2, <1>6, <1>7 DEF QuietAt
  <2> QED BY <2>1, <2>2, <1>4, <1>7
<1>8. ASSUME NEW f \in Drawn, NEW g \in Drawn, Before(f, g)', f.id = i, g.id = i
      PROVE  f.number < g.number
  <2>1. CASE Before(f, g)
    BY <2>1, <1>8 DEF QuietAt
  <2>2. CASE g = p /\ InLink(f)
    BY <2>2, <1>0, <1>5, <1>8 DEF InFlight
  <2> QED BY <2>1, <2>2, <1>1, <1>8
<1>9. ASSUME NEW k \in Int, k < drawn'[i],
             k < drawn[i] => \E f \in Drawn : InFlight(f) /\ f.id = i /\ f.number = k
      PROVE  \E f \in Drawn : InFlight(f)' /\ f.id = i /\ f.number = k
  <2>1. CASE k < drawn[i]
    BY <2>1, <1>4, <1>9
  <2>2. CASE ~(k < drawn[i])
    <3>1. i = p.id /\ k = p.number
      BY <2>2, <1>0, <1>3, <1>9
    <3> QED BY <3>1, <1>0, <1>4
  <2> QED BY <2>1, <2>2
<1>10. ASSUME last'[i] # -1, NEW k \in (last'[i] + 1)..(drawn'[i] - 1)
       PROVE  \E f \in Drawn : InFlight(f)' /\ f.id = i /\ f.number = k
  <2>1. k \in Int /\ k < drawn'[i] /\ drawn[i] \in Nat /\ drawn'[i] \in Int
    BY <1>3, <1>6
  <2>2. k < drawn[i] => k \in (last[i] + 1)..(drawn[i] - 1)
    BY <2>1, <1>6
  <2> QED BY <2>1, <2>2, <1>6, <1>9, <1>10 DEF QuietAt
<1>11. ASSUME NEW g \in Drawn, InFlight(g)', g.id = i, NEW k \in g.number..(drawn'[i] - 1)
       PROVE  \E f \in Drawn : InFlight(f)' /\ f.id = i /\ f.number = k
  <2>0. g.number \in Nat
    BY DrawnIsFrame
  <2>1. k \in Int /\ k < drawn'[i] /\ drawn[i] \in Nat /\ drawn'[i] \in Int
    BY <1>3, <2>0
  <2>2. ASSUME k < drawn[i]
        PROVE  InFlight(g) /\ k \in g.number..(drawn[i] - 1)
    <3>1. g # p
      BY <2>0, <2>1, <2>2, <1>0, <1>11
    <3> QED BY <2>0, <2>1, <2>2, <3>1, <1>4, <1>11
  <2>3. k < drawn[i] => \E f \in Drawn : InFlight(f) /\ f.id = i /\ f.number = k
    BY <2>2, <1>11 DEF QuietAt
  <2> QED BY <2>1, <2>3, <1>9
<1>12. ASSUME NEW f \in Drawn, InFlight(f)', f.id = i, f.number = drawn'[i] - 1
       PROVE  f.value = intent'[i]
  <2>1. f.number \in Nat
    BY DrawnIsFrame
  <2>2. CASE f = p
    BY <2>2, <1>3, <1>12
  <2>3. CASE f # p
    <3>1. InFlight(f) /\ f.number < drawn[i]
      BY <2>3, <1>4, <1>5, <1>12
    <3>2. i # p.id
      BY <3>1, <2>1, <1>3, <1>12
    <3> QED BY <3>1, <3>2, <1>3, <1>12 DEF QuietAt
  <2> QED BY <2>2, <2>3
<1>13. ASSUME \A f \in Drawn : InFlight(f)' => f.id # i, intent'[i] # "none"
       PROVE  Obeys(i)'
  <2>1. i # p.id
    BY <1>0, <1>4, <1>13
  <2>2. intent'[i] = intent[i]
    BY <2>1, <1>3
  <2>3. Obeys(i)
    BY <2>2, <1>4, <1>13 DEF QuietAt
  <2> QED BY <2>2, <2>3, <1>0 DEF Obeys, trackerVars
<1> QED BY <1>7, <1>8, <1>10, <1>11, <1>12, <1>13 DEF QuietAt

-----------------------------------------------------------------------------
(* The port accepts a frame: it comes after those the port holds, and before
   those the other threads have drawn.                                       *)

SendStep(c, p) ==
  /\ c \in Callers /\ p \in Drawn /\ pending[c] = p
  /\ sent' = Append(sent, p)
  /\ pending' = [pending EXCEPT ![c] = NoFrame]
  /\ quiet' = IF Overtakes(c) THEN quiet \ {p.id} ELSE quiet
  /\ UNCHANGED <<drawn, issued, newest, last, intent, trackerVars>>

LEMMA NoFrameTwice ==
  ASSUME CountInv, NEW f \in Drawn
  PROVE  ~Before(f, f) /\ ~Beside(f, f) /\ ~(InLink(f) /\ InHand(f))
<1>1. ~Apart(f, f)
  BY DEF CountInv
<1> QED BY <1>1, Placed DEF Apart

LEMMA Sending ==
  ASSUME LinkInv, ClientInv, CountInv, NEW c, NEW p, SendStep(c, p)
  PROVE  \A f, g \in Drawn :
           /\ InFlight(f)' <=> InFlight(f)
           /\ InHand(f)' => InHand(f) /\ Beside(p, f)
           /\ Before(f, g)' => Before(f, g) \/ (f = p /\ Beside(p, g))
           /\ Beside(f, g)' => Beside(f, g)
<1>0. c \in Callers /\ p \in Drawn /\ pending[c] = p /\ sent' = Append(sent, p)
      /\ pending' = [pending EXCEPT ![c] = NoFrame]
  BY DEF SendStep
<1>1. /\ Len(sent') = Len(sent) + 1 /\ Len(sent) \in Nat
      /\ sent'[Len(sent) + 1] = p
      /\ \A n \in 1..Len(sent) : sent'[n] = sent[n]
  <2>1. sent \in Seq(Drawn \cup {NoFrame})
    BY DEF LinkInv
  <2> QED BY <2>1, <1>0, AppendProperties, LenProperties
<1>2. \A d \in Callers : pending'[d] = IF d = c THEN NoFrame ELSE pending[d]
  BY <1>0 DEF ClientInv
<1>3. \A n \in 1..Len(sent') : n \in 1..Len(sent) \/ n = Len(sent) + 1
  BY <1>1
<1>4. InHand(p)
  BY <1>0 DEF InHand
<1> SUFFICES ASSUME NEW f \in Drawn, NEW g \in Drawn
             PROVE  /\ InFlight(f)' <=> InFlight(f)
                    /\ InHand(f)' => InHand(f) /\ Beside(p, f)
                    /\ Before(f, g)' => Before(f, g) \/ (f = p /\ Beside(p, g))
                    /\ Beside(f, g)' => Beside(f, g)
  OBVIOUS
<1>5. f # NoFrame /\ g # NoFrame
  BY DrawnIsFrame
<1>6. InLink(f)' <=> InLink(f) \/ f = p
  <2>1. ASSUME InLink(f)' PROVE InLink(f) \/ f = p
    <3>1. PICK n \in 1..Len(sent') : sent'[n] = f
      BY <2>1 DEF InLink
    <3> QED BY <3>1, <1>1, <1>3 DEF InLink
  <2>2. ASSUME InLink(f) PROVE InLink(f)'
    <3>1. PICK n \in 1..Len(sent) : sent[n] = f
      BY <2>2 DEF InLink
    <3>2. n \in 1..Len(sent') /\ sent'[n] = f
      BY <3>1, <1>1
    <3> QED BY <3>2 DEF InLink
  <2>3. ASSUME f = p PROVE InLink(f)'
    <3>1. Len(sent) + 1 \in 1..Len(sent')
      BY <1>1
    <3> QED BY <2>3, <3>1, <1>1 DEF InLink
  <2> QED BY <2>1, <2>2, <2>3
<1>7. ASSUME InHand(f)' PROVE InHand(f) /\ Beside(p, f)
  <2>1. PICK d \in Callers : pending'[d] = f
    BY <1>7 DEF InHand
  <2>2. d # c /\ pending[d] = f
    BY <2>1, <1>2, <1>5
  <2> QED BY <2>2, <1>0 DEF InHand, Beside
<1>8. ASSUME InHand(g)' PROVE InHand(g) /\ Beside(p, g)
  <2>1. PICK d \in Callers : pending'[d] = g
    BY <1>8 DEF InHand
  <2>2. d # c /\ pending[d] = g
    BY <2>1, <1>2, <1>5
  <2> QED BY <2>2, <1>0 DEF InHand, Beside
<1>9. InFlight(f)' <=> InFlight(f)
  <2>1. ASSUME InHand(f), f # p PROVE InHand(f)'
    <3>1. PICK d \in Callers : pending[d] = f
      BY <2>1 DEF InHand
    <3>2. d # c
      BY <3>1, <2>1, <1>0
    <3> QED BY <3>1, <3>2, <1>2 DEF InHand
  <2> QED BY <2>1, <1>4, <1>6, <1>7 DEF InFlight
<1>10. ASSUME Before(f, g)' PROVE Before(f, g) \/ (f = p /\ Beside(p, g))
  <2>1. ASSUME NEW m \in 1..Len(sent'), NEW n \in 1..Len(sent'), m < n, sent'[m] = f, sent'[n] = g
        PROVE  Before(f, g)
    <3>1. m \in 1..Len(sent) /\ sent[m] = f
      BY <2>1, <1>1, <1>3
    <3>2. CASE n \in 1..Len(sent)
      <4>1. sent[n] = g
        BY <3>2, <2>1, <1>1
      <4> QED BY <2>1, <3>1, <3>2, <4>1 DEF Before
    <3>3. CASE n = Len(sent) + 1
      <4>1. g = p
        BY <3>3, <2>1, <1>1
      <4> QED BY <3>1, <4>1, <1>4 DEF Before, InLink
    <3> QED BY <3>2, <3>3, <1>3
  <2>2. ASSUME InLink(f)', InHand(g)' PROVE Before(f, g) \/ (f = p /\ Beside(p, g))
    BY <2>2, <1>6, <1>8 DEF Before
  <2> QED BY <1>10, <2>1, <2>2 DEF Before
<1>11. ASSUME Beside(f, g)' PROVE Beside(f, g)
  <2>1. PICK d \in Callers, e \in Callers : d # e /\ pending'[d] = f /\ pending'[e] = g
    BY <1>11 DEF Beside
  <2> QED BY <2>1, <1>2, <1>5 DEF Beside
<1> QED BY <1>7, <1>9, <1>10, <1>11

LEMMA SendCounts ==
  ASSUME LinkInv, ClientInv, CountInv, NEW c, NEW p, SendStep(c, p)
  PROVE  CountInv'
<1>1. \A f, g \in Drawn :
           /\ InFlight(f)' <=> InFlight(f)
           /\ InHand(f)' => InHand(f) /\ Beside(p, f)
           /\ Before(f, g)' => Before(f, g) \/ (f = p /\ Beside(p, g))
           /\ Beside(f, g)' => Beside(f, g)
  BY Sending
<1>2. \A f, g \in Drawn : Apart(f, g)' => Apart(f, g)
  BY <1>1 DEF Apart
<1>3. UNCHANGED <<drawn, newest, last, ctr>>
  BY DEF SendStep, trackerVars
<1>4. \A f \in Drawn : InFlight(f)' => f.number < drawn'[f.id] /\ f.number # newest'[f.id]
  BY <1>1, <1>3 DEF CountInv
<1>5. \A f, g \in Drawn : Apart(f, g)' /\ f.id = g.id => f.number # g.number
  BY <1>2 DEF CountInv
<1> QED BY <1>3, <1>4, <1>5 DEF CountInv

LEMMA SendLate ==
  ASSUME FewAtOnce, LinkInv, ClientInv, CountInv, OrderInv, NEW c, NEW p, SendStep(c, p)
  PROVE  OrderInv'
<1>1. \A f, g \in Drawn :
           /\ InFlight(f)' <=> InFlight(f)
           /\ InHand(f)' => InHand(f) /\ Beside(p, f)
           /\ Before(f, g)' => Before(f, g) \/ (f = p /\ Beside(p, g))
           /\ Beside(f, g)' => Beside(f, g)
  BY Sending
<1>2. \A f, g \in Drawn : Apart(f, g)' => Apart(f, g)
  BY <1>1 DEF Apart
<1>3. UNCHANGED <<drawn, newest, last, issued>> /\ c \in Callers /\ p \in Drawn
      /\ pending' = [pending EXCEPT ![c] = NoFrame]
  BY DEF SendStep
<1>4. \A f, g \in Drawn : f.id = p.id /\ g.id = p.id => ~Beside(f, g)'
  <2> SUFFICES ASSUME NEW f \in Drawn, NEW g \in Drawn, NEW d \in Callers, NEW e \in Callers,
                      d # e, pending'[d] = f, pending'[e] = g, f.id = p.id, g.id = p.id
               PROVE  FALSE
    BY DEF Beside
  <2>1. d # c /\ e # c
    BY <1>3, DrawnIsFrame DEF ClientInv
  <2>2. pending[c] = p /\ pending[d] = f /\ pending[e] = g
    BY <2>1, <1>3 DEF ClientInv, SendStep
  <2>3. NoFrame \notin {pending[c], pending[d], pending[e]}
    BY <2>2, <1>3, DrawnIsFrame
  <2> QED BY <2>1, <2>2, <2>3, <1>3 DEF FewAtOnce
<1>5. OrderInv'
  <2>1. ASSUME NEW f \in Drawn, NEW g \in Drawn, Apart(g, f)', f.id = g.id, g.number < f.number
        PROVE  newest'[f.id] < f.number
    BY <2>1, <1>2, <1>3 DEF OrderInv
  <2>2. ASSUME NEW h \in Drawn, NEW g \in Drawn, NEW f \in Drawn, Before(h, g)', Apart(g, f)',
               f.id = g.id, h.id = g.id, g.number < f.number
        PROVE  h.number < f.number
    <3>1. CASE Before(h, g)
      BY <2>2, <3>1, <1>2 DEF OrderInv
    <3>2. CASE h = p /\ Beside(p, g)
      <4>1. InHand(g)
        BY <3>2, <1>3, Placed
      <4>2. Before(g, f)'
        BY <2>2, <3>2, <1>4 DEF Apart
      <4>3. CASE Before(g, f)
        BY <4>1, <4>3, NoFrameTwice, Placed
      <4>4. CASE g = p
        BY <3>2, <4>4, NoFrameTwice
      <4> QED BY <4>2, <4>3, <4>4, <1>1
    <3> QED BY <2>2, <3>1, <3>2, <1>1
  <2>3. ASSUME NEW f \in Drawn, InFlight(f)', f.number < newest'[f.id]
        PROVE  f.number < last'[f.id]
    BY <2>3, <1>1, <1>3 DEF OrderInv
  <2> QED BY <2>1, <2>2, <2>3 DEF OrderInv
<1> QED BY <1>5

LEMMA SendQuiet ==
  ASSUME LinkInv, ClientInv, CountInv, QuietInv, NEW c, NEW p, SendStep(c, p)
  PROVE  QuietInv'
<1>1. \A f, g \in Drawn :
           /\ InFlight(f)' <=> InFlight(f)
           /\ InHand(f)' => InHand(f) /\ Beside(p, f)
           /\ Before(f, g)' => Before(f, g) \/ (f = p /\ Beside(p, g))
           /\ Beside(f, g)' => Beside(f, g)
  BY Sending
<1>2. UNCHANGED <<drawn, last, intent, trackerVars>> /\ c \in Callers /\ p \in Drawn /\ pending[c] = p
      /\ pending' = [pending EXCEPT ![c] = NoFrame]
  BY DEF SendStep
<1> SUFFICES ASSUME NEW i \in quiet', QuietAt(i), i \in Ids, i = p.id => ~Overtakes(c)
             PROVE  QuietAt(i)'
  <2>1. \A i \in quiet' : i \in quiet /\ (i = p.id => ~Overtakes(c))
    BY DEF SendStep
  <2> QED BY <2>1 DEF QuietInv, ClientInv
<1>3. \A f \in Drawn : InFlight(f)' /\ f.id = i => last'[i] < f.number
  BY <1>1, <1>2 DEF QuietAt
<1>4. ASSUME NEW f \in Drawn, NEW g \in Drawn, Before(f, g)', f.id = i, g.id = i
      PROVE  f.number < g.number
  <2>1. CASE Before(f, g)
    BY <2>1, <1>4 DEF QuietAt
  <2>2. CASE f = p /\ Beside(p, g)
    <3>1. Apart(p, g) /\ InHand(g)
      BY <2>2, <1>2, Placed DEF Apart
    <3>2. f.number # g.number /\ f.number \in Nat /\ g.number \in Nat
      BY <2>2, <3>1, <1>4, DrawnIsFrame DEF CountInv
    <3>3. PICK d \in Callers : pending[d] = g
      BY <3>1 DEF InHand
    <3>4. d # c
      BY <3>2, <3>3, <2>2, <1>2
    <3>5. pending[d] # NoFrame
      BY <3>3, DrawnIsFrame
    <3>6. ~(g.number < p.number)
      BY <3>3, <3>4, <3>5, <2>2, <1>2, <1>4 DEF Overtakes
    <3> QED BY <3>2, <3>6, <2>2
  <2> QED BY <2>1, <2>2, <1>1, <1>4
<1>5. last'[i] # -1 => \A k \in (last'[i] + 1)..(drawn'[i] - 1) :
                         \E f \in Drawn : InFlight(f)' /\ f.id = i /\ f.number = k
  BY <1>1, <1>2 DEF QuietAt
<1>6. \A g \in Drawn : InFlight(g)' /\ g.id = i => \A k \in g.number..(drawn'[i] - 1) :
                         \E f \in Drawn : InFlight(f)' /\ f.id = i /\ f.number = k
  BY <1>1, <1>2 DEF QuietAt
<1>7. \A f \in Drawn : InFlight(f)' /\ f.id = i /\ f.number = drawn'[i] - 1 => f.value = intent'[i]
  BY <1>1, <1>2 DEF QuietAt
<1>8. (\A f \in Drawn : InFlight(f)' => f.id # i) /\ intent'[i] # "none" => Obeys(i)'
  <2>1. Obeys(i) => Obeys(i)'
    BY <1>2 DEF Obeys, trackerVars
  <2> QED BY <2>1, <1>1, <1>2 DEF QuietAt
<1> QED BY <1>3, <1>4, <1>5, <1>6, <1>7, <1>8 DEF QuietAt

-----------------------------------------------------------------------------
(* A frame reaches the base whole.                                           *)

LEMMA Acts ==
  ASSUME NEW f, OnFrame(f), f.id \in Ids
  PROVE  /\ Count(f)
         /\ \A i \in Ids : /\ i # f.id \/ ~Passes(f)
                           /\ intent'[i] = intent[i]
                           /\ Obeys(i)
                           => Obeys(i)'
         /\ \A i \in Ids : /\ i = f.id /\ Passes(f)
                           /\ intent'[i] = f.value
                           => Obeys(i)'
<1>1. Count(f)
  BY DEF OnFrame, OnRejected, OnTwist, OnMode, OnEStop, OnHeartbeat
<1>2. /\ f.id # "twist" \/ ~Passes(f) => twist' = twist
      /\ f.id # "mode" \/ ~Passes(f) => mode' = mode
      /\ f.id # "estop" \/ ~Passes(f) => estop_engaged' = estop_engaged
      /\ f.id # "heartbeat" \/ ~Passes(f) => version_ok' = version_ok
  BY DEF OnFrame, OnRejected, OnTwist, OnMode, OnEStop, OnHeartbeat, Ids
<1>3. /\ f.id = "twist" /\ Passes(f) => twist' = f.value
      /\ f.id = "mode" /\ Passes(f) => mode' = f.value
      /\ f.id = "estop" /\ Passes(f) => estop_engaged' = (f.value = "engage")
      /\ f.id = "heartbeat" /\ Passes(f) => version_ok' = (f.value = Expected)
  BY DEF OnFrame, OnRejected, OnTwist, OnMode, OnEStop, OnHeartbeat, Ids
<1>4. ASSUME NEW i \in Ids, i # f.id \/ ~Passes(f), intent'[i] = intent[i], Obeys(i) PROVE Obeys(i)'
  BY <1>2, <1>4 DEF Obeys, Ids
<1>5. ASSUME NEW i \in Ids, i = f.id, Passes(f), intent'[i] = f.value PROVE Obeys(i)'
  BY <1>3, <1>5 DEF Obeys, Ids
<1> QED BY <1>1, <1>4, <1>5

HearStep(h) ==
  /\ h = Arriving
  /\ TakeOff
  /\ OnFrame(h)
  /\ newest' = IF Passes(h) THEN [newest EXCEPT ![h.id] = h.number] ELSE newest
  /\ last' = [last EXCEPT ![h.id] = h.number]
  /\ UNCHANGED <<quiet, clientVars, intent>>

LEMMA Hearing ==
  ASSUME LinkInv, ClientInv, TrackerTypeOK, CountInv, NEW h, HearStep(h)
  PROVE  /\ h \in Drawn /\ h.id \in Ids /\ h.number \in Nat /\ InFlight(h)
         /\ FewerFlight
         /\ \A f \in Drawn : /\ InFlight(f)' => Before(h, f)
                             /\ InFlight(f) => f = h \/ InFlight(f)'
         /\ \A i \in Ids : /\ ctr'[i] = IF i = h.id THEN Reference(h.number) ELSE ctr[i]
                           /\ last'[i] = IF i = h.id THEN h.number ELSE last[i]
                           /\ newest'[i] = IF i = h.id /\ Passes(h) THEN h.number ELSE newest[i]
         /\ newest' \in [Ids -> Int] /\ last' \in [Ids -> Int]
         /\ UNCHANGED <<drawn, issued, intent, quiet, pending>>
         /\ Passes(h) <=> Accepted(Result(ctr[h.id], h.number % CounterMod))
<1>1. UNCHANGED <<drawn, issued, intent, quiet, pending>> /\ h = Arriving /\ TakeOff /\ OnFrame(h)
  BY DEF HearStep, clientVars
<1>2. /\ Arriving \in Drawn
      /\ InLink(Arriving)
      /\ FewerFlight
      /\ \A f \in Drawn : /\ InFlight(f)' => Before(Arriving, f)
                          /\ InFlight(f) => f = Arriving \/ InFlight(f)'
  BY <1>1, Taking
<1>3. /\ h \in Drawn /\ InFlight(h)
      /\ \A f \in Drawn : /\ InFlight(f)' => Before(h, f)
                          /\ InFlight(f) => f = h \/ InFlight(f)'
  BY <1>1, <1>2 DEF InFlight
<1>4. /\ h.id \in Ids /\ h.number \in Nat /\ h.counter = h.number % CounterMod /\ h.intact = TRUE
  BY <1>3, DrawnIsFrame
<1>5. ctr' = [ctr EXCEPT ![h.id] = Updated(@, h.counter)]
  BY <1>1, <1>4, Acts DEF Count
<1>6. ctr[h.id] = NoReference \/ \E b \in Nat : ctr[h.id] = Reference(b)
  <2>1. /\ ctr[h.id] = IF last[h.id] = -1 THEN NoReference
                       ELSE [have |-> TRUE, last |-> last[h.id] % CounterMod]
        /\ last[h.id] \in -1..(drawn[h.id] - 1) /\ drawn[h.id] \in Nat
    BY <1>4 DEF CountInv, ClientInv
  <2>2. last[h.id] = -1 \/ last[h.id] \in Nat
    BY <2>1
  <2> QED BY <2>1, <2>2 DEF Reference
<1>7. Updated(ctr[h.id], h.counter) = Reference(h.number)
  BY <1>4, <1>6, AlwaysMoves
<1>8. \A i \in Ids : ctr'[i] = IF i = h.id THEN Reference(h.number) ELSE ctr[i]
  BY <1>4, <1>5, <1>7 DEF TrackerTypeOK
<1>9. /\ newest \in [Ids -> Int] /\ last \in [Ids -> Int]
      /\ newest' = IF Passes(h) THEN [newest EXCEPT ![h.id] = h.number] ELSE newest
      /\ last' = [last EXCEPT ![h.id] = h.number]
  BY DEF CountInv, HearStep
<1>10. \A i \in Ids : /\ last'[i] = IF i = h.id THEN h.number ELSE last[i]
                      /\ newest'[i] = IF i = h.id /\ Passes(h) THEN h.number ELSE newest[i]
  BY <1>4, <1>9
<1>11. newest' \in [Ids -> Int] /\ last' \in [Ids -> Int]
  BY <1>4, <1>9
<1>12. Passes(h) <=> Accepted(Result(ctr[h.id], h.number % CounterMod))
  BY <1>4 DEF Passes
<1> QED BY <1>1, <1>2, <1>3, <1>4, <1>8, <1>10, <1>11, <1>12

LEMMA HearCounts ==
  ASSUME LinkInv, ClientInv, TrackerTypeOK, CountInv, NEW h, HearStep(h)
  PROVE  CountInv'
<1>0. /\ h \in Drawn /\ h.id \in Ids /\ h.number \in Nat /\ InFlight(h)
      /\ FewerFlight
      /\ \A f \in Drawn : /\ InFlight(f)' => Before(h, f)
                          /\ InFlight(f) => f = h \/ InFlight(f)'
      /\ \A i \in Ids : /\ ctr'[i] = IF i = h.id THEN Reference(h.number) ELSE ctr[i]
                        /\ last'[i] = IF i = h.id THEN h.number ELSE last[i]
                        /\ newest'[i] = IF i = h.id /\ Passes(h) THEN h.number ELSE newest[i]
      /\ newest' \in [Ids -> Int] /\ last' \in [Ids -> Int]
      /\ drawn' = drawn
  BY Hearing
<1>1. h.number < drawn[h.id] /\ drawn[h.id] \in Nat
  BY <1>0 DEF CountInv, ClientInv
<1>2. \A i \in Ids : /\ newest'[i] \in -1..(drawn[i] - 1)
                     /\ last'[i] \in -1..(drawn[i] - 1)
  <2> TAKE i \in Ids
  <2>1. newest[i] \in -1..(drawn[i] - 1) /\ last[i] \in -1..(drawn[i] - 1)
    BY DEF CountInv
  <2>2. h.number \in -1..(drawn[h.id] - 1)
    BY <1>0, <1>1
  <2> QED BY <2>1, <2>2, <1>0
<1>3. \A i \in Ids : /\ ctr'[i] = IF last'[i] = -1 THEN NoReference
                                  ELSE [have |-> TRUE, last |-> last'[i] % CounterMod]
                     /\ last'[i] = -1 => newest'[i] = -1
  <2> TAKE i \in Ids
  <2>1. h.number # -1
    BY <1>0
  <2>2. CASE i = h.id
    BY <2>1, <2>2, <1>0 DEF Reference
  <2>3. CASE i # h.id
    BY <2>3, <1>0 DEF CountInv
  <2> QED BY <2>2, <2>3
<1>4. ASSUME NEW f \in Drawn, InFlight(f)'
      PROVE  f.number < drawn[f.id] /\ f.number # newest'[f.id]
  <2>1. InFlight(f) /\ Apart(h, f)
    BY <1>0, <1>4 DEF FewerFlight, InFlight, Apart
  <2>2. f.number < drawn[f.id] /\ f.number # newest[f.id] /\ (f.id = h.id => f.number # h.number)
    BY <2>1, <1>0 DEF CountInv
  <2>3. f.id \in Ids
    BY DrawnIsFrame
  <2> QED BY <2>2, <2>3, <1>0
<1>5. ASSUME NEW f \in Drawn, NEW g \in Drawn, Apart(f, g)', f.id = g.id
      PROVE  f.number # g.number
  <2>1. Apart(f, g)
    BY <1>0, <1>5 DEF FewerFlight, Apart
  <2> QED BY <2>1, <1>5 DEF CountInv
<1> QED BY <1>0, <1>2, <1>3, <1>4, <1>5 DEF CountInv

LEMMA HearLate ==
  ASSUME LinkInv, ClientInv, TrackerTypeOK, CountInv, OrderInv, NEW h, HearStep(h)
  PROVE  OrderInv'
<1>0. /\ h \in Drawn /\ h.id \in Ids /\ h.number \in Nat /\ InFlight(h)
      /\ FewerFlight
      /\ \A f \in Drawn : /\ InFlight(f)' => Before(h, f)
                          /\ InFlight(f) => f = h \/ InFlight(f)'
      /\ \A i \in Ids : /\ last'[i] = IF i = h.id THEN h.number ELSE last[i]
                        /\ newest'[i] = IF i = h.id /\ Passes(h) THEN h.number ELSE newest[i]
      /\ UNCHANGED <<drawn, issued>>
  BY Hearing
<1>1. \A f, g \in Drawn : /\ InFlight(f)' => InFlight(f) /\ Apart(h, f)
                          /\ InHand(f)' => InHand(f)
                          /\ Before(f, g)' => Before(f, g)
                          /\ Apart(f, g)' => Apart(f, g)
  BY <1>0 DEF FewerFlight, InFlight, Apart
<1>2. OrderInv'
  <2>1. ASSUME NEW f \in Drawn, NEW g \in Drawn, Apart(g, f)', f.id = g.id, g.number < f.number
        PROVE  newest'[f.id] < f.number
    <3>1. Apart(g, f) /\ f.id \in Ids
      BY <2>1, <1>1, DrawnIsFrame
    <3>2. newest[f.id] < f.number
      BY <2>1, <3>1 DEF OrderInv
    <3>3. InFlight(g)'
      BY <2>1 DEF Apart, Before, Beside, InFlight, InLink, InHand
    <3>4. h.id = g.id => h.number < f.number
      BY <2>1, <3>1, <3>3, <1>0 DEF OrderInv
    <3> QED BY <2>1, <3>1, <3>2, <3>4, <1>0
  <2>2. ASSUME NEW x \in Drawn, NEW g \in Drawn, NEW f \in Drawn, Before(x, g)', Apart(g, f)',
               f.id = g.id, x.id = g.id, g.number < f.number
        PROVE  x.number < f.number
    BY <2>2, <1>1 DEF OrderInv
  <2>3. ASSUME NEW f \in Drawn, InFlight(f)', f.number < newest'[f.id]
        PROVE  f.number < last'[f.id]
    <3>1. InFlight(f) /\ Apart(h, f) /\ f.id \in Ids /\ f.number \in Nat
      BY <2>3, <1>1, DrawnIsFrame
    <3>2. CASE f.id # h.id
      BY <2>3, <3>1, <3>2, <1>0 DEF OrderInv
    <3>3. CASE f.id = h.id /\ Passes(h)
      BY <2>3, <3>1, <3>3, <1>0
    <3>4. CASE f.id = h.id /\ ~Passes(h)
      <4>1. f.number < newest[f.id] /\ newest[f.id] \in Int
        BY <2>3, <3>1, <3>4, <1>0 DEF CountInv
      <4>2. h.number < f.number => newest[f.id] < f.number
        BY <3>1, <3>4, <1>0 DEF OrderInv
      <4>3. h.number # f.number
        BY <3>1, <3>4, <1>0 DEF CountInv
      <4>4. f.number < h.number
        BY <4>1, <4>2, <4>3, <3>1, <1>0
      <4> QED BY <4>4, <3>1, <3>4, <1>0
    <3> QED BY <3>2, <3>3, <3>4
  <2> QED BY <2>1, <2>2, <2>3 DEF OrderInv
<1> QED BY <1>2

(* Nothing of a quiet id is missing, so its frames follow one another.       *)
LEMMA QuietPasses ==
  ASSUME LinkInv, ClientInv, TrackerTypeOK, CountInv, NEW h, HearStep(h), QuietAt(h.id)
  PROVE  /\ Passes(h)
         /\ \A f \in Drawn : InFlight(f)' /\ f.id = h.id => h.number < f.number
<1>0. /\ h \in Drawn /\ h.id \in Ids /\ h.number \in Nat /\ InFlight(h)
      /\ \A f \in Drawn : /\ InFlight(f)' => Before(h, f)
                          /\ InFlight(f) => f = h \/ InFlight(f)'
      /\ Passes(h) <=> Accepted(Result(ctr[h.id], h.number % CounterMod))
  BY Hearing
<1>1. \A f \in Drawn : InFlight(f)' /\ f.id = h.id => h.number < f.number
  BY <1>0 DEF QuietAt
<1>2. /\ ctr[h.id] = IF last[h.id] = -1 THEN NoReference
                     ELSE [have |-> TRUE, last |-> last[h.id] % CounterMod]
      /\ last[h.id] \in -1..(drawn[h.id] - 1) /\ drawn[h.id] \in Nat
  BY <1>0 DEF CountInv, ClientInv
<1>3. CASE last[h.id] = -1
  <2>1. ctr[h.id].have = FALSE
    BY <1>2, <1>3 DEF NoReference
  <2> QED BY <2>1, <1>0, <1>1 DEF Result, Accepted
<1>4. CASE last[h.id] # -1
  <2>1. PICK l \in Nat : l = last[h.id]
    BY <1>2, <1>4
  <2>2. l < h.number /\ h.number < drawn[h.id]
    BY <2>1, <1>0 DEF QuietAt, CountInv
  <2>3. l + 1 \in (l + 1)..(drawn[h.id] - 1)
    BY <2>2, <1>0, <1>2
  <2>4. PICK f \in Drawn : InFlight(f) /\ f.id = h.id /\ f.number = l + 1
    BY <2>1, <2>3, <1>4 DEF QuietAt
  <2>5. f = h \/ h.number < f.number
    BY <2>4, <1>0, <1>1
  <2>6. h.number - l \in 1..MaxDelta
    BY <2>2, <2>4, <2>5, <1>0, Mods
  <2>7. ctr[h.id] = Reference(l)
    BY <2>1, <1>2, <1>4 DEF Reference
  <2> QED BY <2>6, <2>7, <1>0, <1>1, NextPasses
<1> QED BY <1>3, <1>4

LEMMA HearQuiet ==
  ASSUME LinkInv, ClientInv, TrackerTypeOK, CountInv, QuietInv, NEW h, HearStep(h)
  PROVE  QuietInv'
<1>0. /\ h \in Drawn /\ h.id \in Ids /\ h.number \in Nat /\ InFlight(h)
      /\ FewerFlight
      /\ \A f \in Drawn : /\ InFlight(f)' => Before(h, f)
                          /\ InFlight(f) => f = h \/ InFlight(f)'
      /\ \A i \in Ids : last'[i] = IF i = h.id THEN h.number ELSE last[i]
      /\ UNCHANGED <<drawn, intent, quiet>>
  BY Hearing
<1>1. OnFrame(h)
  BY DEF HearStep
<1> SUFFICES ASSUME NEW i \in quiet, i \in Ids, QuietAt(i) PROVE QuietAt(i)'
  BY <1>0 DEF QuietInv, ClientInv
<1>2. CASE i # h.id
  <2>1. Obeys(i) => Obeys(i)'
    BY <1>0, <1>1, <1>2, Acts
  <2>2. \A f \in Drawn : f.id = i /\ InFlight(f) => InFlight(f)'
    BY <1>0, <1>2
  <2> QED BY <2>1, <2>2, <1>0, <1>2, QuietThins
<1>3. CASE i = h.id
  <2>1. /\ Passes(h)
        /\ \A f \in Drawn : InFlight(f)' /\ f.id = h.id => h.number < f.number
    BY <1>3, QuietPasses
  <2>2. \A f, g \in Drawn : /\ InFlight(f)' => InFlight(f)
                            /\ Before(f, g)' => Before(f, g)
    BY <1>0 DEF FewerFlight, InFlight
  <2>3. drawn[i] \in Nat /\ h.number < drawn[i] /\ last'[i] = h.number
    BY <1>0, <1>3 DEF CountInv, ClientInv
  <2>4. \A f \in Drawn : InFlight(f)' /\ f.id = i => last'[i] < f.number
    BY <2>1, <2>3, <1>3
  <2>5. \A f, g \in Drawn : Before(f, g)' /\ f.id = i /\ g.id = i => f.number < g.number
    BY <2>2 DEF QuietAt
  <2>6. ASSUME NEW k \in (h.number + 1)..(drawn[i] - 1)
        PROVE  \E f \in Drawn : InFlight(f)' /\ f.id = i /\ f.number = k
    <3>1. k \in h.number..(drawn[i] - 1) /\ k # h.number
      BY <2>6, <2>3, <1>0
    <3>2. PICK f \in Drawn : InFlight(f) /\ f.id = i /\ f.number = k
      BY <3>1, <1>0, <1>3 DEF QuietAt
    <3>3. InFlight(f)'
      BY <3>1, <3>2, <1>0
    <3> QED BY <3>2, <3>3
  <2>7. last'[i] # -1 => \A k \in (last'[i] + 1)..(drawn'[i] - 1) :
                           \E f \in Drawn : InFlight(f)' /\ f.id = i /\ f.number = k
    BY <2>3, <2>6, <1>0
  <2>8. ASSUME NEW g \in Drawn, InFlight(g)', g.id = i, NEW k \in g.number..(drawn'[i] - 1)
        PROVE  \E f \in Drawn : InFlight(f)' /\ f.id = i /\ f.number = k
    <3>1. g.number \in Nat /\ h.number < g.number
      BY <2>1, <2>8, <1>3, DrawnIsFrame
    <3>2. k \in (h.number + 1)..(drawn[i] - 1)
      BY <3>1, <2>3, <1>0
    <3> QED BY <3>2, <2>6
  <2>9. \A f \in Drawn : InFlight(f)' /\ f.id = i /\ f.number = drawn'[i] - 1 => f.value = intent'[i]
    BY <2>2, <1>0 DEF QuietAt
  <2>10. ASSUME \A f \in Drawn : InFlight(f)' => f.id # i
         PROVE  Obeys(i)'
    <3>1. h.number = drawn[i] - 1
      <4>1. ASSUME h.number # drawn[i] - 1 PROVE FALSE
        <5>1. drawn[i] - 1 \in (h.number + 1)..(drawn[i] - 1)
          BY <4>1, <2>3, <1>0
        <5> QED BY <5>1, <2>6, <2>10
      <4> QED BY <4>1
    <3>2. h.value = intent[i]
      BY <3>1, <1>0, <1>3 DEF QuietAt
    <3> QED BY <3>2, <2>1, <1>0, <1>1, <1>3, Acts
  <2> QED BY <2>4, <2>5, <2>7, <2>8, <2>9, <2>10 DEF QuietAt
<1> QED BY <1>2, <1>3

-----------------------------------------------------------------------------
(* A frame is lost, or arrives damaged; the port closes or fails; a frame is
   refused; and whatever concerns no frame at all.                           *)

DropStep ==
  /\ TakeOff
  /\ UNCHANGED <<clientVars, newest, last, intent, ctr, twist, mode, estop_engaged, version_ok>>
  /\ quiet' = quiet \ {Arriving.id}

LEMMA Drops ==
  ASSUME LinkInv, ClientInv, CountInv, QuietInv, DropStep
  PROVE  CountInv' /\ QuietInv' /\ (OrderInv => OrderInv')
<1>1. TakeOff /\ UNCHANGED <<pending, drawn, issued, newest, last, intent, ctr>>
  BY DEF DropStep, clientVars
<1>2. /\ FewerFlight
      /\ \A f \in Drawn : InFlight(f) => f = Arriving \/ InFlight(f)'
  BY <1>1, Taking
<1>3. \A i \in Ids : drawn[i] \in Nat
  BY DEF ClientInv
<1>4. CountInv'
  BY <1>1, <1>2, <1>3, CountThins DEF ClientInv
<1>5. OrderInv => OrderInv'
  BY <1>1, <1>2, LateThins
<1>6. ASSUME NEW i \in quiet' PROVE QuietAt(i)'
  <2>1. i \in quiet /\ i # Arriving.id /\ i \in Ids
    BY <1>6 DEF DropStep, ClientInv
  <2>2. QuietAt(i)
    BY <2>1 DEF QuietInv
  <2>3. Obeys(i) => Obeys(i)'
    BY DEF DropStep, Obeys
  <2>4. \A f \in Drawn : f.id = i /\ InFlight(f) => InFlight(f)'
    BY <2>1, <1>2
  <2> QED BY <2>2, <2>3, <2>4, <1>1, <1>2, QuietThins
<1> QED BY <1>4, <1>5, <1>6 DEF QuietInv

GoneStep ==
  /\ PortGone
  /\ \A c \in Callers : pending'[c] = pending[c] \/ pending'[c] = NoFrame
  /\ drawn' \in [Ids -> Nat]
  /\ UNCHANGED <<issued, newest, last, intent, trackerVars>>
  /\ \/ pending' = pending /\ drawn' = drawn /\ quiet' = quiet \ InPort
     \/ /\ \A c \in Callers : pending'[c] = NoFrame
        /\ \A i \in Ids : drawn'[i] >= drawn[i]
        /\ quiet' = {}

LEMMA PortGoes ==
  ASSUME LinkInv, ClientInv, CountInv, QuietInv, GoneStep
  PROVE  CountInv' /\ QuietInv' /\ (OrderInv => OrderInv')
<1> DEFINE S == {backlog[j] : j \in 1..Len(backlog)}
<1>0. /\ PortGone /\ UNCHANGED <<issued, newest, last, intent, ctr>> /\ drawn' \in [Ids -> Nat]
      /\ sent' = Forget(S) /\ accepted' = accepted
  BY DEF GoneStep, trackerVars, PortGone
<1>1. /\ Len(sent') = accepted
      /\ \A n \in 1..accepted : sent'[n] = IF n \in S THEN NoFrame ELSE sent[n]
  BY <1>0, Forgets
<1>2. Len(sent) = accepted
  BY DEF LinkInv
<1>3. FewerFlight
  BY <1>1, <1>2, Thinning DEF Thinner, GoneStep
<1>4. \A i \in Ids : drawn[i] \in Nat /\ drawn'[i] >= drawn[i]
  <2> TAKE i \in Ids
  <2>1. drawn[i] \in Nat
    BY DEF ClientInv
  <2> QED BY <2>1 DEF GoneStep
<1>5. CountInv'
  BY <1>0, <1>3, <1>4, CountThins DEF ClientInv
<1>6. drawn' = drawn \/ \A f \in Drawn : ~InHand(f)'
  <2>1. ASSUME \A c \in Callers : pending'[c] = NoFrame, NEW f \in Drawn, InHand(f)' PROVE FALSE
    BY <2>1, DrawnIsFrame DEF InHand
  <2> QED BY <2>1 DEF GoneStep
<1>7. OrderInv => OrderInv'
  BY <1>0, <1>3, <1>6, LateThins
<1>8. ASSUME NEW i \in quiet' PROVE QuietAt(i)'
  <2>1. pending' = pending /\ drawn' = drawn /\ i \in quiet /\ i \notin InPort
    BY <1>8 DEF GoneStep
  <2>2. QuietAt(i)
    BY <2>1 DEF QuietInv
  <2>3. Obeys(i) => Obeys(i)'
    BY DEF GoneStep, Obeys, trackerVars
  <2>4. ASSUME NEW f \in Drawn, f.id = i, InFlight(f) PROVE InFlight(f)'
    <3>1. CASE InHand(f)
      BY <3>1, <2>1 DEF InHand, InFlight
    <3>2. CASE InLink(f)
      <4>1. PICK n \in 1..accepted : sent[n] = f
        BY <3>2, <1>2 DEF InLink
      <4>2. n \notin S
        BY <4>1, <2>1, <2>4 DEF InPort
      <4>3. sent'[n] = f
        BY <4>1, <4>2, <1>1
      <4> QED BY <4>1, <4>3, <1>1 DEF InLink, InFlight
    <3> QED BY <2>4, <3>1, <3>2 DEF InFlight
  <2> QED BY <2>1, <2>2, <2>3, <2>4, <1>0, <1>3, QuietThins
<1> QED BY <1>5, <1>7, <1>8 DEF QuietInv

RefuseStep(c) ==
  /\ c \in Callers
  /\ pending' = [pending EXCEPT ![c] = NoFrame]
  /\ quiet' = quiet \ {pending[c].id}
  /\ UNCHANGED <<sent, drawn, issued, newest, last, intent, trackerVars>>

LEMMA Refused ==
  ASSUME LinkInv, ClientInv, CountInv, QuietInv, NEW c, RefuseStep(c)
  PROVE  CountInv' /\ QuietInv' /\ (OrderInv => OrderInv')
<1>0. /\ c \in Callers /\ UNCHANGED <<sent, drawn, issued, newest, last, intent, ctr>>
      /\ quiet' = quiet \ {pending[c].id}
  BY DEF RefuseStep, trackerVars
<1>1. \A d \in Callers : pending'[d] = IF d = c THEN NoFrame ELSE pending[d]
  BY DEF ClientInv, RefuseStep
<1>3. FewerFlight
  BY <1>0, <1>1, Thinning DEF Thinner
<1>4. \A i \in Ids : drawn[i] \in Nat
  BY DEF ClientInv
<1>5. CountInv'
  BY <1>0, <1>3, <1>4, CountThins DEF ClientInv
<1>7. OrderInv => OrderInv'
  BY <1>0, <1>3, LateThins
<1>8. ASSUME NEW i \in quiet' PROVE QuietAt(i)'
  <2>1. i \in quiet /\ i # pending[c].id
    BY <1>0, <1>8
  <2>2. QuietAt(i)
    BY <2>1 DEF QuietInv
  <2>3. Obeys(i) => Obeys(i)'
    BY DEF RefuseStep, Obeys, trackerVars
  <2>4. ASSUME NEW f \in Drawn, f.id = i, InFlight(f) PROVE InFlight(f)'
    <3>1. CASE InHand(f)
      <4>1. PICK d \in Callers : pending[d] = f
        BY <3>1 DEF InHand
      <4>2. d # c
        BY <4>1, <2>1, <2>4
      <4> QED BY <4>1, <4>2, <1>1 DEF InHand, InFlight
    <3>2. CASE InLink(f)
      BY <3>2, <1>0 DEF InLink, InFlight
    <3> QED BY <2>4, <3>1, <3>2 DEF InFlight
  <2> QED BY <2>2, <2>3, <2>4, <1>0, <1>3, QuietThins
<1> QED BY <1>5, <1>7, <1>8 DEF QuietInv

IdleStep ==
  UNCHANGED <<sent, pending, drawn, issued, newest, last, intent, quiet, ctr,
              twist, mode, estop_engaged, version_ok>>

LEMMA Idles ==
  ASSUME LinkInv, ClientInv, CountInv, QuietInv, IdleStep
  PROVE  CountInv' /\ QuietInv' /\ (OrderInv => OrderInv')
<1>1. FewerFlight
  BY Thinning DEF Thinner, IdleStep
<1>2. \A i \in Ids : drawn[i] \in Nat
  BY DEF ClientInv
<1>3. CountInv'
  BY <1>1, <1>2, CountThins DEF ClientInv, IdleStep
<1>4. OrderInv => OrderInv'
  BY <1>1, LateThins DEF IdleStep
<1>5. ASSUME NEW i \in quiet' PROVE QuietAt(i)'
  <2>1. i \in quiet /\ QuietAt(i) /\ (Obeys(i) => Obeys(i)')
    BY <1>5 DEF QuietInv, IdleStep, Obeys
  <2>2. \A f \in Drawn : InFlight(f) => InFlight(f)'
    BY DEF IdleStep, InFlight, InLink, InHand
  <2>3. last'[i] = last[i] /\ intent'[i] = intent[i] /\ drawn'[i] = drawn[i]
    BY DEF IdleStep
  <2> QED BY <2>1, <2>2, <2>3, <1>1, QuietThins
<1> QED BY <1>3, <1>4, <1>5 DEF QuietInv

-----------------------------------------------------------------------------
(* Every step of the client, the link and the base.                          *)

BaseInv == LinkInv /\ ClientInv /\ TrackerTypeOK /\ CountInv /\ QuietInv
Preserved == BaseInv' /\ (FewAtOnce /\ OrderInv => OrderInv')

LEMMA FrameDrawn ==
  ASSUME NEW id \in Ids, NEW value \in Values, NEW n \in Nat, id = "mode" => value \in Modes
  PROVE  /\ Frame(id, value, n) \in Drawn
         /\ Frame(id, value, n).id = id
         /\ Frame(id, value, n).number = n
         /\ Frame(id, value, n).value = value
<1>1. n % CounterMod \in Counters
  BY CounterTyped
<1> QED BY <1>1 DEF Frame, Drawn, Frames

LEMMA CommandStep ==
  ASSUME BaseInv, NEW c \in Callers, Command(c)
  PROVE  Preserved
<1>0. LinkInv /\ ClientInv /\ TrackerTypeOK /\ CountInv /\ QuietInv
  BY DEF BaseInv
<1>1. PICK id \in Ids, value \in Values : (id = "mode" => value \in Modes) /\ Issue(c, id, value)
  <2>1. PICK cmd \in Commands :
          Issue(c, cmd[1], IF cmd[1] = "heartbeat" THEN version ELSE cmd[2])
    BY DEF Command
  <2>2. cmd[1] \in Ids /\ (cmd[1] = "mode" => cmd[2] \in Modes)
    <3>1. \A x \in Commands : x[1] \in Ids /\ (x[1] = "mode" => x[2] \in {"standby", "auto"})
      BY CommandsAssumption
    <3>2. cmd \in Commands
      OBVIOUS
    <3>3. cmd[1] \in Ids /\ (cmd[1] = "mode" => cmd[2] \in {"standby", "auto"})
      BY <3>1, <3>2, Zenon
    <3> QED BY <3>3 DEF Modes
  <2>3. cmd[2] \in Values /\ version \in Values
    BY <1>0 DEF Values, ClientInv
  <2>4. PICK v : v = IF cmd[1] = "heartbeat" THEN version ELSE cmd[2]
    OBVIOUS
  <2>5. v \in Values /\ (cmd[1] = "mode" => v \in Modes)
    BY <2>2, <2>3, <2>4
  <2>6. Issue(c, cmd[1], v)
    BY <2>1, <2>4
  <2> QED BY <2>2, <2>5, <2>6
<1>2. PICK n \in Nat : n = drawn[id]
  BY <1>0 DEF ClientInv
<1>3. PICK p \in Drawn : p = Frame(id, value, n) /\ p.id = id /\ p.number = n /\ p.value = value
  BY <1>1, FrameDrawn
<1>4. /\ pending[c] = NoFrame /\ issued < MaxIssued /\ issued' = issued + 1
      /\ pending' = [pending EXCEPT ![c] = p]
      /\ drawn' = [drawn EXCEPT ![id] = @ + 1]
      /\ intent' = [intent EXCEPT ![id] = value]
      /\ UNCHANGED <<portVars, connected, owner, version, restarts, heard, newest, last,
                     quiet, armed, trackerVars>>
  BY <1>1, <1>2, <1>3 DEF Issue
<1>5. IssueStep(c, p)
  BY <1>2, <1>3, <1>4 DEF IssueStep
<1>6. LinkInv'
  BY <1>0, <1>4, LinkStays DEF LinkInv, Port!LinkTypeOK, portVars
<1>7. ClientInv'
  <2>1. issued' \in 0..MaxIssued
    BY <1>0, <1>4, BaseLinkAssumption DEF ClientInv
  <2>2. drawn' \in [Ids -> Nat] /\ pending' \in [Callers -> Drawn \cup {NoFrame}]
        /\ intent' \in [Ids -> Values \cup {"none"}]
    BY <1>0, <1>4 DEF ClientInv
  <2> QED BY <2>1, <2>2, <1>0, <1>4 DEF ClientInv
<1>8. TrackerTypeOK'
  BY <1>0, <1>4 DEF TrackerTypeOK, trackerVars
<1> QED BY <1>0, <1>5, <1>6, <1>7, <1>8, IssueCounts, IssueLate, IssueQuiet
        DEF BaseInv, Preserved

LEMMA SendOkStep ==
  ASSUME BaseInv, NEW c \in Callers, SendOk(c)
  PROVE  Preserved
<1>0. LinkInv /\ ClientInv /\ TrackerTypeOK /\ CountInv /\ QuietInv
  BY DEF BaseInv
<1>1. /\ pending[c] # NoFrame /\ Port!Accept /\ sent' = Append(sent, pending[c])
      /\ pending' = [pending EXCEPT ![c] = NoFrame]
      /\ quiet' = IF Overtakes(c) THEN quiet \ {pending[c].id} ELSE quiet
      /\ UNCHANGED <<connected, owner, version, drawn, restarts, issued, heard, newest, last, intent,
                     armed, trackerVars>>
  BY DEF SendOk
<1>2. PICK p \in Drawn : p = pending[c]
  BY <1>0, <1>1 DEF ClientInv
<1>3. SendStep(c, p)
  BY <1>1, <1>2 DEF SendStep
<1>4. LinkInv'
  BY <1>0, <1>1, <1>2, LinkAccepts
<1>5. ClientInv'
  <2>1. pending' \in [Callers -> Drawn \cup {NoFrame}]
    BY <1>0, <1>1 DEF ClientInv
  <2>2. quiet' \subseteq Ids
    BY <1>0, <1>1 DEF ClientInv
  <2> QED BY <2>1, <2>2, <1>0, <1>1 DEF ClientInv
<1>6. TrackerTypeOK'
  BY <1>0, <1>1 DEF TrackerTypeOK, trackerVars
<1> QED BY <1>0, <1>3, <1>4, <1>5, <1>6, SendCounts, SendLate, SendQuiet
        DEF BaseInv, Preserved

LEMMA SendRefusedStep ==
  ASSUME BaseInv, NEW c \in Callers, SendRefused(c)
  PROVE  Preserved
<1>0. LinkInv /\ ClientInv /\ TrackerTypeOK /\ CountInv /\ QuietInv
  BY DEF BaseInv
<1>1. /\ pending' = [pending EXCEPT ![c] = NoFrame]
      /\ quiet' = quiet \ {pending[c].id}
      /\ UNCHANGED <<portVars, connected, owner, version, drawn, restarts, issued, heard, newest,
                     last, intent, armed, trackerVars>>
  BY DEF SendRefused
<1>3. RefuseStep(c)
  BY <1>1 DEF RefuseStep, portVars
<1>4. LinkInv'
  BY <1>0, <1>1, LinkStays DEF LinkInv, Port!LinkTypeOK, portVars
<1>5. ClientInv'
  <2>1. pending' \in [Callers -> Drawn \cup {NoFrame}]
    BY <1>0, <1>1 DEF ClientInv
  <2> QED BY <2>1, <1>0, <1>1 DEF ClientInv
<1>6. TrackerTypeOK'
  BY <1>0, <1>1 DEF TrackerTypeOK, trackerVars
<1> QED BY <1>0, <1>3, <1>4, <1>5, <1>6, Refused DEF BaseInv, Preserved

LEMMA GoneSteps ==
  ASSUME BaseInv, GoneStep, ClientInv', heard' = heard
  PROVE  Preserved
<1>0. LinkInv /\ ClientInv /\ TrackerTypeOK /\ CountInv /\ QuietInv
  BY DEF BaseInv
<1>1. LinkInv'
  BY <1>0, LinkGone DEF GoneStep
<1>2. TrackerTypeOK'
  BY <1>0 DEF TrackerTypeOK, trackerVars, GoneStep
<1> QED BY <1>0, <1>1, <1>2, PortGoes DEF BaseInv, Preserved

LEMMA CloseStep ==
  ASSUME BaseInv, Disconnect \/ PortFaults
  PROVE  Preserved
<1>0. LinkInv /\ ClientInv
  BY DEF BaseInv
<1>1. /\ PortGone /\ quiet' = quiet \ InPort
      /\ UNCHANGED <<owner, version, drawn, pending, restarts, issued, heard, newest, last, intent,
                     armed, trackerVars>>
  BY DEF Disconnect, PortFaults
<1>2. connected' = FALSE
  BY <1>1 DEF PortGone
<1>3. GoneStep
  BY <1>0, <1>1 DEF GoneStep, ClientInv
<1>4. ClientInv'
  BY <1>0, <1>1, <1>2 DEF ClientInv
<1> QED BY <1>1, <1>3, <1>4, GoneSteps

LEMMA RestartStep ==
  ASSUME BaseInv, Restart
  PROVE  Preserved
<1>0. LinkInv /\ ClientInv
  BY DEF BaseInv
<1>1. /\ PortGone /\ quiet' = {} /\ restarts < MaxRestarts /\ restarts' = restarts + 1
      /\ owner' = "idle" /\ version' \in Versions
      /\ drawn' = [i \in Ids |-> ((drawn[i] \div CounterMod) + 2) * CounterMod]
      /\ pending' = [c \in Callers |-> NoFrame]
      /\ UNCHANGED <<issued, heard, newest, last, intent, armed, trackerVars>>
  BY DEF Restart
<1>2. \A i \in Ids : drawn'[i] \in Nat /\ drawn'[i] >= drawn[i]
  <2> TAKE i \in Ids
  <2>1. PICK x \in Nat : x = drawn[i]
    BY <1>0 DEF ClientInv
  <2>2. CounterMod \in Nat \ {0}
    BY Mods
  <2>3. /\ x % CounterMod \in 0..(CounterMod - 1) /\ x \div CounterMod \in Int
        /\ x = CounterMod * (x \div CounterMod) + (x % CounterMod)
    BY <2>2, ModDiv
  <2>4. PICK q \in Int, m \in 0..(CounterMod - 1) :
          q = x \div CounterMod /\ m = x % CounterMod
    BY <2>3
  <2>5. x = CounterMod * q + m
    BY <2>3, <2>4
  <2>6. (q + 2) * CounterMod = CounterMod * q + CounterMod + CounterMod
    BY <2>2, <2>4
  <2>7. PICK y \in Int : y = CounterMod * q
    BY <2>2, <2>4
  <2>8. (q + 2) * CounterMod \in Nat /\ (q + 2) * CounterMod >= x
    BY <2>2, <2>5, <2>6, <2>7
  <2>9. drawn'[i] = (q + 2) * CounterMod
    BY <2>1, <2>4, <1>1
  <2> QED BY <2>1, <2>8, <2>9
<1>3. drawn' \in [Ids -> Nat]
  BY <1>1, <1>2
<1>4. connected' = FALSE
  BY <1>1 DEF PortGone
<1>5. GoneStep
  BY <1>1, <1>2, <1>3 DEF GoneStep
<1>6. restarts' \in 0..MaxRestarts
  BY <1>0, <1>1, BaseLinkAssumption DEF ClientInv
<1>7. ClientInv'
  BY <1>0, <1>1, <1>3, <1>4, <1>6 DEF ClientInv
<1> QED BY <1>1, <1>5, <1>7, GoneSteps

LEMMA IdleSteps ==
  ASSUME BaseInv, LinkInv', ClientInv', TrackerTypeOK', IdleStep
  PROVE  Preserved
BY Idles DEF BaseInv, Preserved

LEMMA QuietSteps ==
  ASSUME BaseInv,
         \/ Connect \/ ConnectDone \/ Transmit \/ BaseTick \/ BaseClearFaults
         \/ UNCHANGED vars
  PROVE  Preserved
<1>0. LinkInv /\ ClientInv /\ TrackerTypeOK
  BY DEF BaseInv
<1>1. CASE Connect
  <2>1. /\ open' = TRUE /\ owner' = "opening"
        /\ UNCHANGED <<backlog, accepted, wire, sent, heard>>
        /\ UNCHANGED <<connected, version, drawn, pending, restarts, issued, historyVars, trackerVars>>
    BY <1>1 DEF Connect, Port!Connect
  <2>2. LinkInv'
    BY <1>0, <2>1, LinkStays
  <2>3. ClientInv' /\ TrackerTypeOK' /\ IdleStep
    BY <1>0, <2>1 DEF ClientInv, TrackerTypeOK, IdleStep, historyVars, trackerVars
  <2> QED BY <2>2, <2>3, IdleSteps
<1>2. CASE ConnectDone
  <2>1. /\ connected' = TRUE /\ owner' = "idle"
        /\ UNCHANGED <<open, backlog, accepted, wire, sent, heard>>
        /\ UNCHANGED <<version, drawn, pending, restarts, issued, historyVars, trackerVars>>
    BY <1>2 DEF ConnectDone, portVars
  <2>2. LinkInv'
    BY <1>0, <2>1, LinkStays DEF LinkInv, Port!LinkTypeOK
  <2>3. ClientInv' /\ TrackerTypeOK' /\ IdleStep
    BY <1>0, <2>1 DEF ClientInv, TrackerTypeOK, IdleStep, historyVars, trackerVars
  <2> QED BY <2>2, <2>3, IdleSteps
<1>3. CASE Transmit
  <2>1. Port!Transmit /\ UNCHANGED <<sent, heard>>
        /\ UNCHANGED <<clientVars, historyVars, trackerVars>>
    BY <1>3 DEF Transmit
  <2>2. LinkInv'
    BY <1>0, <2>1, LinkTransmits
  <2>3. ClientInv' /\ TrackerTypeOK' /\ IdleStep
    BY <1>0, <2>1 DEF ClientInv, TrackerTypeOK, IdleStep, historyVars, trackerVars, clientVars
  <2> QED BY <2>2, <2>3, IdleSteps
<1>4. CASE BaseTick \/ BaseClearFaults \/ UNCHANGED vars
  <2>1. /\ UNCHANGED <<open, backlog, accepted, wire, sent, heard>>
        /\ UNCHANGED <<clientVars, newest, last, intent, quiet, ctr, twist, mode, estop_engaged, version_ok>>
    BY <1>4 DEF BaseTick, BaseClearFaults, Tick, ClearFaults, vars, portVars, historyVars, trackerVars
  <2>2. LinkInv'
    BY <1>0, <2>1, LinkStays DEF LinkInv, Port!LinkTypeOK
  <2>3. armed' \in BOOLEAN
    BY <1>0, <1>4 DEF ClientInv, BaseTick, BaseClearFaults, vars, historyVars
  <2>4. ClientInv' /\ IdleStep
    BY <1>0, <2>1, <2>3 DEF ClientInv, IdleStep, clientVars
  <2>5. twist_age' \in 0..(Timeout + 1)
    BY <1>0, <1>4, TrackerAssumption
       DEF TrackerTypeOK, BaseTick, BaseClearFaults, Tick, ClearFaults, vars, trackerVars
  <2>6. faults' \subseteq {"integrity", "version"}
    BY <1>0, <1>4
       DEF TrackerTypeOK, BaseTick, BaseClearFaults, Tick, ClearFaults, vars, trackerVars
  <2>7. TrackerTypeOK'
    BY <1>0, <2>1, <2>5, <2>6 DEF TrackerTypeOK
  <2> QED BY <2>2, <2>4, <2>7, IdleSteps
<1> QED BY <1>1, <1>2, <1>3, <1>4

(* What a frame does to the types of the base, whole or damaged.             *)
LEMMA TrackerStep ==
  ASSUME TrackerTypeOK, NEW f, f.id \in Ids, f.counter \in Counters,
         f.id = "mode" => f.value \in Modes, OnFrame(f)
  PROVE  TrackerTypeOK'
<1>1. ctr' \in [Ids -> Checks]
  <2>1. Updated(ctr[f.id], f.counter) \in Checks
    BY DEF TrackerTypeOK, Updated, Checks
  <2>2. Count(f)
    BY Acts
  <2> QED BY <2>1, <2>2 DEF Count, TrackerTypeOK
<1>2. twist_age' \in 0..(Timeout + 1)
  BY TrackerAssumption
     DEF TrackerTypeOK, OnFrame, OnRejected, OnTwist, OnMode, OnEStop, OnHeartbeat
<1>3. mode' \in {"standby", "auto"}
  BY DEF TrackerTypeOK, OnFrame, OnRejected, OnTwist, OnMode, OnEStop, OnHeartbeat, Modes
<1>4. estop_engaged' \in BOOLEAN /\ version_ok' \in BOOLEAN
  BY DEF TrackerTypeOK, OnFrame, OnRejected, OnTwist, OnMode, OnEStop, OnHeartbeat
<1>5. faults' \subseteq {"integrity", "version"}
  BY DEF TrackerTypeOK, OnFrame, OnRejected, OnTwist, OnMode, OnEStop, OnHeartbeat
<1> QED BY <1>1, <1>2, <1>3, <1>4, <1>5 DEF TrackerTypeOK

LEMMA ReceiveIs ==
  ASSUME LinkInv, Receive
  PROVE  \E h \in Drawn : /\ HearStep(h)
                          /\ armed' \in BOOLEAN
<1>1. TakeOff /\ pending' = pending
  BY DEF Receive, Hear, clientVars
<1>2. PICK h \in Drawn : h = Arriving
  BY <1>1, Taking
<1>3. Hear(h)
  BY <1>2 DEF Receive
<1>4. h.intact = TRUE
  BY DrawnIsFrame
<1>5. last' = [last EXCEPT ![h.id] = h.number] /\ quiet' = quiet
  BY <1>3, <1>4 DEF Hear
<1>6. /\ TakeOff
      /\ OnFrame(h)
      /\ newest' = IF Passes(h) THEN [newest EXCEPT ![h.id] = h.number] ELSE newest
      /\ UNCHANGED <<clientVars, intent>>
      /\ armed' = (armed \/ (h.id = "mode" /\ h.value = "auto" /\ Passes(h)))
  BY <1>3 DEF Hear
<1>7. armed' \in BOOLEAN
  BY <1>6
<1> QED BY <1>2, <1>5, <1>6, <1>7 DEF HearStep

LEMMA ReceiveStep ==
  ASSUME BaseInv, Receive
  PROVE  Preserved
<1>0. LinkInv /\ ClientInv /\ TrackerTypeOK /\ CountInv /\ QuietInv
  BY DEF BaseInv
<1>1. PICK h \in Drawn : HearStep(h) /\ armed' \in BOOLEAN
  BY <1>0, ReceiveIs
<1>2. TakeOff /\ OnFrame(h) /\ UNCHANGED <<quiet, clientVars, intent>>
  BY <1>1 DEF HearStep
<1>3. LinkInv'
  BY <1>0, <1>2, LinkTakes
<1>4. ClientInv'
  BY <1>0, <1>1, <1>2 DEF ClientInv, clientVars
<1>5. TrackerTypeOK'
  <2>1. h.id \in Ids /\ h.counter \in Counters /\ (h.id = "mode" => h.value \in Modes)
    BY DrawnIsFrame, CounterTyped
  <2> QED BY <2>1, <1>0, <1>2, TrackerStep
<1> QED BY <1>0, <1>1, <1>3, <1>4, <1>5, HearCounts, HearLate, HearQuiet
        DEF BaseInv, Preserved

LEMMA DropIs ==
  ASSUME LinkInv, TrackerTypeOK, ClientInv, ReceiveDamaged \/ LoseFrame
  PROVE  DropStep /\ TrackerTypeOK' /\ armed' \in BOOLEAN
<1>1. TakeOff /\ pending' = pending
  BY DEF ReceiveDamaged, LoseFrame, Hear, clientVars
<1>2. PICK h \in Drawn : h = Arriving
  BY <1>1, Taking
<1>3. CASE LoseFrame
  BY <1>3 DEF LoseFrame, DropStep, TrackerTypeOK, trackerVars, ClientInv
<1>4. CASE ReceiveDamaged
  <2>1. PICK d : d = [h EXCEPT !.intact = FALSE]
    OBVIOUS
  <2>2. d.id = h.id /\ d.counter = h.counter /\ d.value = h.value /\ d.intact = FALSE
    BY <2>1 DEF Drawn, Frames
  <2>3. Hear(d)
    BY <1>2, <1>4, <2>1 DEF ReceiveDamaged
  <2>4. ~Passes(d)
    BY <2>2 DEF Passes
  <2>5. /\ TakeOff /\ OnFrame(d) /\ newest' = newest /\ last' = last /\ quiet' = quiet \ {d.id}
        /\ UNCHANGED <<clientVars, intent>>
        /\ armed' = (armed \/ (d.id = "mode" /\ d.value = "auto" /\ Passes(d)))
    BY <2>2, <2>3, <2>4 DEF Hear
  <2>6. OnRejected(d)
    BY <2>4, <2>5 DEF OnFrame, OnTwist, OnMode, OnEStop, OnHeartbeat
  <2>7. UNCHANGED <<ctr, twist, mode, estop_engaged, version_ok>>
    BY <2>2, <2>6 DEF OnRejected, Count
  <2>8. d.id \in Ids /\ d.counter \in Counters /\ (d.id = "mode" => d.value \in Modes)
    BY <2>2, DrawnIsFrame, CounterTyped
  <2>9. TrackerTypeOK'
    BY <2>5, <2>8, TrackerStep
  <2> QED BY <1>2, <2>2, <2>5, <2>7, <2>9 DEF DropStep
<1> QED BY <1>3, <1>4

LEMMA DropSteps ==
  ASSUME BaseInv, ReceiveDamaged \/ LoseFrame
  PROVE  Preserved
<1>0. LinkInv /\ ClientInv /\ TrackerTypeOK /\ CountInv /\ QuietInv
  BY DEF BaseInv
<1>1. DropStep /\ TrackerTypeOK' /\ armed' \in BOOLEAN
  BY <1>0, DropIs
<1>2. LinkInv'
  BY <1>0, <1>1, LinkTakes DEF DropStep
<1>3. ClientInv'
  BY <1>0, <1>1 DEF ClientInv, clientVars, DropStep
<1> QED BY <1>0, <1>1, <1>2, <1>3, Drops DEF BaseInv, Preserved

LEMMA BaseSteps == BaseInv /\ [Next]_vars => Preserved
<1> SUFFICES ASSUME BaseInv, [Next]_vars PROVE Preserved
  OBVIOUS
<1>1. ASSUME NEW c \in Callers, Command(c) \/ SendOk(c) \/ SendRefused(c) PROVE Preserved
  BY <1>1, CommandStep, SendOkStep, SendRefusedStep
<1>2. CASE Connect \/ ConnectDone \/ Transmit \/ BaseTick \/ BaseClearFaults \/ UNCHANGED vars
  BY <1>2, QuietSteps
<1>3. CASE Disconnect \/ PortFaults
  BY <1>3, CloseStep
<1>4. CASE Restart
  BY <1>4, RestartStep
<1>5. CASE Receive
  BY <1>5, ReceiveStep
<1>6. CASE ReceiveDamaged \/ LoseFrame
  BY <1>6, DropSteps
<1> QED BY <1>1, <1>2, <1>3, <1>4, <1>5, <1>6 DEF Next, Client

-----------------------------------------------------------------------------
(* What follows, for every behaviour of the runs.                            *)

LEMMA BaseStarts == Init => BaseInv /\ OrderInv
<1> SUFFICES ASSUME Init PROVE BaseInv /\ OrderInv
  OBVIOUS
<1>0. /\ sent = <<>> /\ wire = <<>> /\ backlog = <<>> /\ accepted = 0 /\ heard = 0 /\ open = FALSE
      /\ pending = [c \in Callers |-> NoFrame] /\ quiet = Ids /\ issued = 0
      /\ newest = [i \in Ids |-> -1] /\ last = [i \in Ids |-> -1] /\ ctr = [i \in Ids |-> NoReference]
      /\ intent = [i \in Ids |-> "none"]
  BY DEF Init, TrackerInit, Port!LinkInit
<1>1. LinkInv
  <2>1. Len(wire) = 0 /\ Len(backlog) = 0 /\ Len(sent) = 0
    BY <1>0
  <2>2. wire \in Seq(Nat) /\ backlog \in Seq(Nat) /\ sent \in Seq(Drawn \cup {NoFrame})
    BY <1>0, EmptySeq
  <2>3. Port!Increasing(wire) /\ Port!Increasing(backlog)
    BY <1>0, <2>1 DEF Port!Increasing
  <2>4. Port!LinkTypeOK
    BY <1>0, <2>2 DEF Port!LinkTypeOK
  <2>5. 1..Len(wire) = {} /\ 1..Len(backlog) = {} /\ 1..Len(sent) = {} /\ (heard + 1)..Len(wire) = {}
    BY <1>0, <2>1
  <2>6. heard \in 0..Len(wire) /\ Len(sent) = accepted
    BY <1>0, <2>1
  <2> QED BY <2>2, <2>3, <2>4, <2>5, <2>6, Zenon DEF LinkInv
<1>2. PICK n \in Nat : drawn = [i \in Ids |-> n]
  BY BaseLinkAssumption DEF Init
<1>3. ClientInv
  <2>1. issued \in 0..MaxIssued /\ restarts \in 0..MaxRestarts
    BY BaseLinkAssumption DEF Init
  <2> QED BY <1>0, <1>2, <2>1 DEF Init, ClientInv
<1>4. TrackerTypeOK
  <2>1. NoReference \in Checks
    BY Mods DEF NoReference, Checks, Counters
  <2>2. ctr \in [Ids -> Checks]
    BY <1>0, <2>1
  <2>3. twist_age \in 0..(Timeout + 1)
    BY TrackerAssumption DEF Init, TrackerInit
  <2> QED BY <2>2, <2>3 DEF Init, TrackerInit, TrackerTypeOK
<1>5. \A f \in Drawn : ~InLink(f) /\ ~InHand(f) /\ ~InFlight(f)
  <2> SUFFICES ASSUME NEW f \in Drawn PROVE ~InLink(f) /\ ~InHand(f)
    BY DEF InFlight
  <2>1. 1..Len(sent) = {}
    BY <1>0
  <2>2. f # NoFrame
    BY DrawnIsFrame
  <2>3. \A c \in Callers : pending[c] = NoFrame
    BY <1>0
  <2> QED BY <2>1, <2>2, <2>3 DEF InLink, InHand
<1>6. \A f, g \in Drawn : ~Before(f, g) /\ ~Apart(f, g)
  BY <1>5, Placed DEF Apart
<1>7. CountInv
  <2>1. \A i \in Ids : -1 \in -1..(drawn[i] - 1)
    BY <1>2
  <2> QED BY <1>0, <1>5, <1>6, <2>1 DEF CountInv
<1>8. OrderInv
  BY <1>5, <1>6 DEF OrderInv
<1>9. QuietInv
  <2> SUFFICES ASSUME NEW i \in Ids PROVE QuietAt(i)
    BY <1>0 DEF QuietInv
  <2>1. last[i] = -1 /\ intent[i] = "none"
    BY <1>0
  <2> QED BY <1>5, <1>6, <2>1 DEF QuietAt
<1> QED BY <1>1, <1>3, <1>4, <1>7, <1>8, <1>9 DEF BaseInv

BaseVars == <<which, vars, codecVars>>

LEMMA MCBaseIs == MCInit => Init
BY DEF MCInit

LEMMA MCBaseSteps == [MCNext]_BaseVars => [Next]_vars
BY DEF MCNext, BaseVars

LEMMA BaseInvariance == MCSpec => []BaseInv
<1>1. MCInit => BaseInv
  BY MCBaseIs, BaseStarts
<1>2. BaseInv /\ [MCNext]_BaseVars => BaseInv'
  BY MCBaseSteps, BaseSteps DEF Preserved
<1> QED BY <1>1, <1>2, PTL DEF MCSpec, BaseVars

LEMMA OrderInvariance == MCSpec /\ []FewAtOnce => [](BaseInv /\ OrderInv)
<1>1. MCInit => BaseInv /\ OrderInv
  BY MCBaseIs, BaseStarts
<1>2. (BaseInv /\ OrderInv) /\ FewAtOnce /\ [MCNext]_BaseVars => (BaseInv /\ OrderInv)'
  BY MCBaseSteps, BaseSteps DEF Preserved
<1> QED BY <1>1, <1>2, PTL DEF MCSpec, BaseVars

(* MobileBaseCanClient, its port and CommandTracker keep their types, whatever
   the threads, the error callback, a restart and the bus do.                *)
THEOREM BaseTyping == MCSpec => []TypeOK
<1>1. BaseInv => TypeOK
  <2> SUFFICES ASSUME BaseInv PROVE TypeOK
    OBVIOUS
  <2>1. LinkInv /\ ClientInv /\ TrackerTypeOK /\ CountInv
    BY DEF BaseInv
  <2>2. Drawn \cup {NoFrame} \subseteq Frames \cup {NoFrame}
    BY DEF Drawn
  <2>3. sent \in Seq(Frames \cup {NoFrame})
    <3>1. Len(sent) \in Nat /\ sent \in [1..Len(sent) -> Frames \cup {NoFrame}]
      BY <2>1, <2>2, LenProperties, ElementOfSeq DEF LinkInv
    <3> QED BY <3>1, SeqDef
  <2>4. pending \in [Callers -> Frames \cup {NoFrame}]
    BY <2>1, <2>2 DEF ClientInv
  <2>5. /\ Port!LinkTypeOK /\ Len(sent) = accepted /\ heard \in 0..Len(wire)
        /\ newest \in [Ids -> Int] /\ last \in [Ids -> Int]
    BY <2>1 DEF LinkInv, CountInv
  <2> QED BY <2>1, <2>3, <2>4, <2>5 DEF TypeOK, ClientInv
<1> QED BY <1>1, BaseInvariance, PTL

(* Once the frames of an id, none of them lost or overtaken, have arrived, what
   CommandTracker::OnFrame stored is the last command the client issued for it.*)
THEOREM BaseAgrees == MCSpec => []CommandsAgree
<1>1. BaseInv => CommandsAgree
  <2> SUFFICES ASSUME BaseInv, NEW i \in quiet, intent[i] # "none", i \notin Waiting, i \notin InPort,
                      \A n \in (heard + 1)..Len(wire) : sent[wire[n]].id # i
               PROVE  Obeys(i)
    BY DEF CommandsAgree
  <2>1. LinkInv /\ QuietAt(i)
    BY DEF BaseInv, QuietInv
  <2>2. ASSUME NEW f \in Drawn, InFlight(f), f.id = i PROVE FALSE
    <3>0. f # NoFrame
      BY DrawnIsFrame
    <3>1. CASE InHand(f)
      BY <2>2, <3>0, <3>1 DEF InHand, Waiting
    <3>2. CASE InLink(f)
      <4>1. PICK n \in 1..Len(sent) : sent[n] = f
        BY <3>2 DEF InLink
      <4>2. \/ \E k \in (heard + 1)..Len(wire) : wire[k] = n
            \/ \E j \in 1..Len(backlog) : backlog[j] = n
        BY <2>1, <3>0, <4>1 DEF LinkInv
      <4> QED BY <2>2, <4>1, <4>2 DEF InPort
    <3> QED BY <2>2, <3>1, <3>2 DEF InFlight
  <2> QED BY <2>1, <2>2 DEF QuietAt
<1> QED BY <1>1, BaseInvariance, PTL

(* A step in which the base checks a frame is one in which it hears it whole. *)
LEMMA CheckedIs ==
  ASSUME BaseInv, [Next]_vars, Checked
  PROVE  \E h \in Drawn : HearStep(h)
<1>0. LinkInv /\ TrackerTypeOK /\ ClientInv /\ heard \in Nat
  BY Linked DEF BaseInv, LinkBasics
<1>1. heard' # heard /\ last' # last
  BY <1>0 DEF Checked
<1>2. last' = last \/ Receive
  <2>1. CASE ReceiveDamaged \/ LoseFrame
    BY <2>1, <1>0, DropIs DEF DropStep
  <2>2. CASE \E c \in Callers : Command(c) \/ SendOk(c) \/ SendRefused(c)
    BY <2>2 DEF Command, Issue, SendOk, SendRefused
  <2>3. CASE Connect \/ ConnectDone \/ Transmit \/ BaseTick \/ BaseClearFaults \/ UNCHANGED vars
    BY <2>3 DEF Connect, ConnectDone, Transmit, BaseTick, BaseClearFaults, vars, historyVars
  <2>4. CASE Disconnect \/ PortFaults \/ Restart
    BY <2>4 DEF Disconnect, PortFaults, Restart
  <2> QED BY <2>1, <2>2, <2>3, <2>4 DEF Next, Client
<1> QED BY <1>0, <1>1, <1>2, ReceiveIs

(* CounterCheck::Update lets a frame pass that follows the last one checked by
   at most max_delta, whatever was lost in between and wherever it wraps.    *)
THEOREM LossIsTolerated == MCSpec => ToleratesLoss
<1>1. BaseInv /\ [MCNext]_BaseVars =>
        [Checked /\ last[Arriving.id] >= 0 /\ Arriving.number - last[Arriving.id] \in 1..MaxDelta
           => Took]_vars
  <2> SUFFICES ASSUME BaseInv, [Next]_vars, Checked, last[Arriving.id] >= 0,
                      Arriving.number - last[Arriving.id] \in 1..MaxDelta
               PROVE  Took
    BY MCBaseSteps
  <2>0. LinkInv /\ ClientInv /\ TrackerTypeOK /\ CountInv
    BY DEF BaseInv
  <2>1. PICK h \in Drawn : HearStep(h)
    BY CheckedIs
  <2>2. h = Arriving
    BY <2>1 DEF HearStep
  <2>3. /\ h.id \in Ids /\ h.number \in Nat /\ InFlight(h)
        /\ newest'[h.id] = IF Passes(h) THEN h.number ELSE newest[h.id]
        /\ Passes(h) <=> Accepted(Result(ctr[h.id], h.number % CounterMod))
    BY <2>0, <2>1, Hearing
  <2>4. PICK l \in Nat : l = last[h.id] /\ h.number - l \in 1..MaxDelta
    <3>1. last[h.id] \in Int /\ last[h.id] >= 0
      BY <2>0, <2>2, <2>3 DEF CountInv
    <3> QED BY <2>2, <3>1
  <2>5. ctr[h.id] = Reference(l)
    <3>1. last[h.id] # -1
      BY <2>4
    <3> QED BY <2>0, <2>3, <2>4, <3>1 DEF CountInv, Reference
  <2>6. Passes(h)
    BY <2>3, <2>4, <2>5, NextPasses
  <2>7. h.number # newest[h.id]
    BY <2>0, <2>3 DEF CountInv
  <2> QED BY <2>3, <2>6, <2>7 DEF Took
<1> QED BY <1>1, BaseInvariance, PTL DEF MCSpec, ToleratesLoss, BaseVars

(* No frame on its way is so far behind the last one checked that the counter
   has come round to it.                                                     *)
InReach == \A f \in Drawn : InFlight(f) => last[f.id] - f.number < CounterMod - MaxDelta

LEMMA NoneIsLate ==
  ASSUME BaseInv, OrderInv, InReach, [Next]_vars, NEW i \in Ids
  PROVE  newest'[i] >= newest[i]
<1>0. LinkInv /\ ClientInv /\ TrackerTypeOK /\ CountInv
  BY DEF BaseInv
<1>1. newest[i] \in Int
  BY <1>0 DEF CountInv
<1>2. newest' = newest \/ Receive
  <2>1. CASE ReceiveDamaged \/ LoseFrame
    BY <2>1, <1>0, DropIs DEF DropStep
  <2>2. CASE \E c \in Callers : Command(c) \/ SendOk(c) \/ SendRefused(c)
    BY <2>2 DEF Command, Issue, SendOk, SendRefused
  <2>3. CASE Connect \/ ConnectDone \/ Transmit \/ BaseTick \/ BaseClearFaults \/ UNCHANGED vars
    BY <2>3 DEF Connect, ConnectDone, Transmit, BaseTick, BaseClearFaults, vars, historyVars
  <2>4. CASE Disconnect \/ PortFaults \/ Restart
    BY <2>4 DEF Disconnect, PortFaults, Restart
  <2> QED BY <2>1, <2>2, <2>3, <2>4 DEF Next, Client
<1>3. CASE Receive
  <2>1. PICK h \in Drawn : HearStep(h)
    BY <1>0, <1>3, ReceiveIs
  <2>2. /\ h.id \in Ids /\ h.number \in Nat /\ InFlight(h)
        /\ newest'[i] = IF i = h.id /\ Passes(h) THEN h.number ELSE newest[i]
        /\ Passes(h) <=> Accepted(Result(ctr[h.id], h.number % CounterMod))
    BY <1>0, <2>1, Hearing
  <2>3. ASSUME h.number < newest[h.id] PROVE ~Passes(h)
    <3>1. h.number < last[h.id] /\ last[h.id] - h.number < CounterMod - MaxDelta
      BY <2>2, <2>3 DEF OrderInv, InReach
    <3>2. last[h.id] \in Int
      BY <1>0, <2>2 DEF CountInv
    <3>3. PICK l \in Nat : l = last[h.id]
      BY <2>2, <3>1, <3>2
    <3>4. l - h.number \in 1..(CounterMod - MaxDelta - 1)
      BY <2>2, <3>1, <3>3, Mods
    <3>5. ctr[h.id] = Reference(l)
      <4>1. last[h.id] # -1
        BY <3>3
      <4> QED BY <1>0, <2>2, <3>3, <4>1 DEF CountInv, Reference
    <3> QED BY <2>2, <3>4, <3>5, LateRefused
  <2> QED BY <1>1, <2>2, <2>3
<1> QED BY <1>1, <1>2, <1>3

(* The client draws a counter and then sends, without a lock around both.  For
   any number of threads, and however many commands are issued, the gate never
   lets a command take effect after a later one of its id, as long as no three
   threads are between the draw and the send of the same id at once, and none on
   its way is passed by CounterMod - MaxDelta others, where the counter has come
   round.  With three at once it may, because a gap moves the reference.        *)
THEOREM OrderIsKept == MCSpec /\ [](InReach /\ FewAtOnce) => CommandsInOrder
<1>1. (BaseInv /\ OrderInv) /\ InReach /\ [MCNext]_BaseVars =>
        [\A i \in Ids : newest'[i] >= newest[i]]_vars
  BY MCBaseSteps, NoneIsLate
<1> QED BY <1>1, OrderInvariance, PTL DEF MCSpec, CommandsInOrder, BaseVars

-----------------------------------------------------------------------------
(* The seal of a frame: any one byte that comes out different breaks it.     *)

Covered(f) == <<f.id % 256, f.id \div 256>> \o SubSeq(f.data, 1, 7)
\* A word of two bytes, and its halves.
Word16(x) == x \in Nat /\ x < 256 * 256
Low(x) == x % 256
High(x) == x \div 256
Both(h, l) == 256 * h + l

Bytewise(f) == Word16(f.id) /\ f.data \in [1..8 -> 0..255]
Sealed(f) == f.data[8] = ComputeCrc(f)
\* The nine bytes the checksum of f covers.
Covering(c, f) ==
  /\ c \in [1..9 -> 0..255]
  /\ c[1] = Low(f.id) /\ c[2] = High(f.id)
  /\ \A i \in 1..7 : c[i + 2] = f.data[i]

LEMMA Halves ==
  ASSUME NEW x, Word16(x)
  PROVE  Low(x) \in 0..255 /\ High(x) \in 0..255 /\ x = Both(High(x), Low(x))
BY DEF Word16, Low, High, Both

LEMMA HalvesOf ==
  ASSUME NEW h \in 0..255, NEW l \in 0..255
  PROVE  Word16(Both(h, l)) /\ Low(Both(h, l)) = l /\ High(Both(h, l)) = h
BY DEF Word16, Low, High, Both

LEMMA Rejoined ==
  ASSUME NEW l \in 0..255, NEW h \in 0..255, NEW b \in 0..255
  PROVE  Both(h, l) - l + b = Both(h, b)
BY DEF Both

LEMMA Nine == \A j \in 1..9 : j = 1 \/ j = 2 \/ \E i \in 1..7 : j = i + 2
<1> SUFFICES ASSUME NEW j \in 1..9, j # 1, j # 2 PROVE \E i \in 1..7 : j = i + 2
  OBVIOUS
<1>1. j - 2 \in 1..7 /\ j = (j - 2) + 2
  OBVIOUS
<1> QED BY <1>1

\* Two bytes and seven.
NineOf(c, l, h, d) ==
  /\ c \in [1..9 -> 0..255] /\ c = <<l, h>> \o SubSeq(d, 1, 7)
  /\ c[1] = l /\ c[2] = h /\ \A i \in 1..7 : c[i + 2] = d[i]

LEMMA NineJoined ==
  ASSUME NEW l \in 0..255, NEW h \in 0..255, NEW d \in [1..8 -> 0..255]
  PROVE  \E c : NineOf(c, l, h, d)
<1>1. \A i \in 1..7 : d[i] \in 0..255
  OBVIOUS
<1>2. /\ SubSeq(d, 1, 7) \in Seq(0..255) /\ Len(SubSeq(d, 1, 7)) = 7
      /\ \A i \in 1..7 : SubSeq(d, 1, 7)[i] = d[i]
  <2>1. /\ SubSeq(d, 1, 7) \in Seq(0..255)
        /\ Len(SubSeq(d, 1, 7)) = IF 1 <= 7 THEN 7 - 1 + 1 ELSE 0
        /\ \A i \in 1..(7 - 1 + 1) : SubSeq(d, 1, 7)[i] = d[1 + i - 1]
    BY <1>1, SubSeqProperties
  <2>2. \A i \in 1..7 : 1 + i - 1 = i
    OBVIOUS
  <2> QED BY <2>1, <2>2
<1>3. PICK s \in Seq(0..255) : s = SubSeq(d, 1, 7) /\ Len(s) = 7 /\ \A i \in 1..7 : s[i] = d[i]
  BY <1>2
<1>4. PICK p \in Seq(0..255) : p = <<l, h>> /\ Len(p) = 2 /\ p[1] = l /\ p[2] = h
  <2>1. <<l, h>> \in Seq(0..255)
    OBVIOUS
  <2>2. Len(<<l, h>>) = 2 /\ <<l, h>>[1] = l /\ <<l, h>>[2] = h
    OBVIOUS
  <2> QED BY <2>1, <2>2, Zenon
<1>5. PICK c \in Seq(0..255) :
        c = p \o s /\ Len(c) = 9 /\ \A i \in 1..9 : c[i] = IF i <= 2 THEN p[i] ELSE s[i - 2]
  <2>1. /\ p \o s \in Seq(0..255) /\ Len(p \o s) = 9
        /\ \A i \in 1..9 : (p \o s)[i] = IF i <= 2 THEN p[i] ELSE s[i - 2]
    BY <1>3, <1>4, ConcatProperties
  <2> QED BY <2>1, Zenon
<1>6. c \in [1..9 -> 0..255]
  <2>1. c \in [1..Len(c) -> 0..255]
    BY LenProperties, Zenon
  <2> QED BY <1>5, <2>1, Zenon
<1>7. c[1] = l /\ c[2] = h
  BY <1>4, <1>5
<1>8. \A i \in 1..7 : c[i + 2] = d[i]
  <2> TAKE i \in 1..7
  <2>1. i + 2 \in 1..9 /\ ~(i + 2 <= 2) /\ (i + 2) - 2 = i
    OBVIOUS
  <2> QED BY <1>3, <1>5, <2>1
<1>9. c = <<l, h>> \o SubSeq(d, 1, 7)
  BY <1>3, <1>4, <1>5, Zenon
<1> QED BY <1>6, <1>7, <1>8, <1>9, Zenon DEF NineOf

\* The nine bytes are the id's two and the first seven of the payload.
LEMMA CoveredIs ==
  ASSUME NEW f, Bytewise(f)
  PROVE  Covering(Covered(f), f) /\ ComputeCrc(f) = Crc8Autosar(Covered(f))
<1>1. Word16(f.id) /\ f.data \in [1..8 -> 0..255]
  BY DEF Bytewise
<1>2. Low(f.id) \in 0..255 /\ High(f.id) \in 0..255
  BY <1>1, Halves, Zenon
<1>3. PICK d, l, h : d = f.data /\ l = Low(f.id) /\ h = High(f.id)
  OBVIOUS
<1>4. l \in 0..255 /\ h \in 0..255 /\ d \in [1..8 -> 0..255]
  BY <1>1, <1>2, <1>3, Zenon
<1>5. PICK c : NineOf(c, l, h, d)
  BY <1>4, NineJoined, Zenon
<1>6. c = Covered(f)
  BY <1>3, <1>5, Zenon DEF Covered, NineOf, Low, High
<1>7. Covering(Covered(f), f)
  BY <1>3, <1>5, <1>6, Zenon DEF Covering, NineOf
<1>8. ComputeCrc(f) = Crc8Autosar(Covered(f))
  BY Zenon DEF ComputeCrc, Covered
<1> QED BY <1>7, <1>8, Zenon

\* The trailer is not among them.
LEMMA SealedSame ==
  ASSUME NEW f, NEW g, Bytewise(f), Bytewise(g), g.id = f.id,
         \A i \in 1..7 : g.data[i] = f.data[i]
  PROVE  ComputeCrc(g) = ComputeCrc(f)
<1>1. PICK c : c = Covered(f) /\ Covering(c, f) /\ ComputeCrc(f) = Crc8Autosar(c)
  BY CoveredIs, Zenon
<1>2. PICK o : o = Covered(g) /\ Covering(o, g) /\ ComputeCrc(g) = Crc8Autosar(o)
  BY CoveredIs, Zenon
<1>3. \A j \in 1..9 : o[j] = c[j]
  <2>1. o[1] = c[1] /\ o[2] = c[2] /\ \A i \in 1..7 : o[i + 2] = c[i + 2]
    BY <1>1, <1>2 DEF Covering
  <2> QED BY <2>1, Nine, Zenon
<1>4. c \in [1..9 -> 0..255] /\ o \in [1..9 -> 0..255]
  BY <1>1, <1>2, Zenon DEF Covering
<1>5. o = c
  BY <1>3, <1>4
<1> QED BY <1>1, <1>2, <1>5, Zenon

\* One byte of f has another value in g.
OtherByte(f, g) ==
  \/ /\ g.id = f.id
     /\ \E i \in 1..8 : \E b \in 0..255 : b # f.data[i] /\ g.data = [f.data EXCEPT ![i] = b]
  \/ /\ g.data = f.data
     /\ \E b \in 0..255 : \/ b # Low(f.id) /\ g.id = f.id - Low(f.id) + b
                          \/ b # High(f.id) /\ g.id = Both(b, Low(f.id))

\* It is of the trailer; of the payload; or of the id.
LEMMA TrailerBreaks ==
  ASSUME NEW f, NEW g, Bytewise(f), Bytewise(g), Sealed(f), g.id = f.id,
         g.data[8] # f.data[8], \A j \in 1..7 : g.data[j] = f.data[j]
  PROVE  ~Sealed(g)
<1>1. ComputeCrc(g) = ComputeCrc(f)
  BY SealedSame, Zenon
<1> QED BY <1>1, Zenon DEF Sealed

\* One of the nine came out different: the CRC finds it.
LEMMA CoverBreaks ==
  ASSUME NEW f, NEW g, Bytewise(f), Bytewise(g), Sealed(f), g.data[8] = f.data[8],
         NEW c, c = Covered(f), NEW o, o = Covered(g),
         NEW p \in 1..9, o[p] # c[p], \A j \in 1..9 : j # p => o[j] = c[j]
  PROVE  ~Sealed(g)
<1>1. Covering(c, f) /\ ComputeCrc(f) = Crc8Autosar(c)
  BY CoveredIs, Zenon
<1>2. Covering(o, g) /\ ComputeCrc(g) = Crc8Autosar(o)
  BY CoveredIs, Zenon
<1>3. c \in [1..9 -> 0..255] /\ o \in [1..9 -> 0..255]
  BY <1>1, <1>2, Zenon DEF Covering
<1>4. OneByteOff(c, o, 9)
  BY <1>3 DEF OneByteOff
<1>5. 9 \in Nat
  OBVIOUS
<1>6. Crc8Autosar(c) # Crc8Autosar(o)
  BY <1>4, <1>5, AutosarFinds, Zenon
<1> QED BY <1>1, <1>2, <1>6, Zenon DEF Sealed

LEMMA PayloadBreaks ==
  ASSUME NEW f, NEW g, Bytewise(f), Bytewise(g), Sealed(f), g.id = f.id,
         NEW i \in 1..7, g.data[i] # f.data[i], \A j \in 1..8 : j # i => g.data[j] = f.data[j]
  PROVE  ~Sealed(g)
<1>1. PICK c, o : c = Covered(f) /\ Covering(c, f) /\ o = Covered(g) /\ Covering(o, g)
  BY CoveredIs, Zenon
<1>2. i + 2 \in 1..9 /\ i + 2 # 1 /\ i + 2 # 2 /\ i # 8 /\ \A j \in 1..7 : j # i <=> j + 2 # i + 2
  OBVIOUS
<1>3. /\ o[1] = c[1] /\ o[2] = c[2]
      /\ o[i + 2] # c[i + 2] /\ \A j \in 1..7 : j # i => o[j + 2] = c[j + 2]
  <2>1. \A j \in 1..7 : j \in 1..8
    OBVIOUS
  <2> QED BY <1>1, <2>1 DEF Covering
<1>4. \A j \in 1..9 : j # i + 2 => o[j] = c[j]
  BY <1>2, <1>3, Nine, Zenon
<1>5. g.data[8] = f.data[8]
  BY <1>2
<1> QED BY <1>1, <1>2, <1>3, <1>4, <1>5, CoverBreaks

LEMMA IdBreaks ==
  ASSUME NEW f, NEW g, Bytewise(f), Bytewise(g), Sealed(f), g.data = f.data,
         NEW p, \/ p = 1 /\ Low(g.id) # Low(f.id) /\ High(g.id) = High(f.id)
                \/ p = 2 /\ Low(g.id) = Low(f.id) /\ High(g.id) # High(f.id)
  PROVE  ~Sealed(g)
<1>1. PICK c, o : c = Covered(f) /\ Covering(c, f) /\ o = Covered(g) /\ Covering(o, g)
  BY CoveredIs, Zenon
<1>2. /\ c[1] = Low(f.id) /\ c[2] = High(f.id)
      /\ o[1] = Low(g.id) /\ o[2] = High(g.id)
      /\ \A j \in 1..7 : o[j + 2] = c[j + 2]
  BY <1>1 DEF Covering
<1>3. \/ p = 1 /\ o[1] # c[1] /\ o[2] = c[2]
      \/ p = 2 /\ o[1] = c[1] /\ o[2] # c[2]
  BY <1>2
<1>4. 1 \in 1..9 /\ 2 \in 1..9
  OBVIOUS
<1>5. p \in 1..9 /\ o[p] # c[p]
  BY <1>3, <1>4, Zenon
<1>6. \A j \in 1..9 : j # p => o[j] = c[j]
  <2> SUFFICES ASSUME NEW j \in 1..9, j # p PROVE o[j] = c[j]
    OBVIOUS
  <2>1. CASE j = 1
    BY <1>3, <2>1, Zenon
  <2>2. CASE j = 2
    BY <1>3, <2>2, Zenon
  <2>3. CASE \E i \in 1..7 : j = i + 2
    BY <1>2, <2>3
  <2> QED BY <2>1, <2>2, <2>3, Nine, Zenon
<1>7. f.data[8] = g.data[8]
  OBVIOUS
<1> QED BY <1>1, <1>5, <1>6, <1>7, CoverBreaks

\* What another low, or high, byte does to a word.
LEMMA OtherLow ==
  ASSUME NEW x, Word16(x), NEW b \in 0..255, b # Low(x), NEW y, y = x - Low(x) + b
  PROVE  Word16(y) /\ Low(y) # Low(x) /\ High(y) = High(x)
<1>1. Low(x) \in 0..255 /\ High(x) \in 0..255 /\ x = Both(High(x), Low(x))
  BY Halves, Zenon
<1>2. Both(High(x), Low(x)) - Low(x) + b = Both(High(x), b)
  BY <1>1, Rejoined, Zenon
<1>3. y = Both(High(x), b)
  BY <1>1, <1>2, Zenon
<1>4. PICK h \in 0..255 : h = High(x)
  BY <1>1, Zenon
<1>5. y = Both(h, b)
  BY <1>3, <1>4, Zenon
<1>6. Word16(Both(h, b)) /\ Low(Both(h, b)) = b /\ High(Both(h, b)) = h
  BY HalvesOf, Zenon
<1> QED BY <1>4, <1>5, <1>6, Zenon

LEMMA OtherHigh ==
  ASSUME NEW x, Word16(x), NEW b \in 0..255, b # High(x), NEW y, y = Both(b, Low(x))
  PROVE  Word16(y) /\ Low(y) = Low(x) /\ High(y) # High(x)
<1>1. Low(x) \in 0..255
  BY Halves, Zenon
<1>2. Word16(y) /\ Low(y) = Low(x) /\ High(y) = b
  BY <1>1, HalvesOf, Zenon
<1> QED BY <1>2, Zenon

\* So whichever byte it is, the trailer no longer fits.
LEMMA SealBreaks ==
  ASSUME NEW f, NEW g, Bytewise(f), Sealed(f), OtherByte(f, g)
  PROVE  ~Sealed(g)
<1>0. Word16(f.id) /\ f.data \in [1..8 -> 0..255]
  BY DEF Bytewise
<1>1. ASSUME g.id = f.id, NEW i \in 1..8, NEW b \in 0..255, b # f.data[i],
             g.data = [f.data EXCEPT ![i] = b]
      PROVE  ~Sealed(g)
  <2>1. g.data \in [1..8 -> 0..255] /\ g.data[i] = b /\ \A j \in 1..8 : j # i => g.data[j] = f.data[j]
    <3>1. PICK d \in [1..8 -> 0..255] : d = f.data
      BY <1>0, Zenon
    <3>2. PICK e : e = [d EXCEPT ![i] = b] /\ e = g.data
      BY <1>1, <3>1, Zenon
    <3>3. e \in [1..8 -> 0..255] /\ e[i] = b /\ \A j \in 1..8 : j # i => e[j] = d[j]
      BY <3>2
    <3> QED BY <3>1, <3>2, <3>3, Zenon
  <2>2. Bytewise(g)
    BY <1>0, <1>1, <2>1, Zenon DEF Bytewise
  <2>3. g.data[i] # f.data[i]
    BY <1>1, <2>1, Zenon
  <2>4. \A j \in 1..7 : j \in 1..8 /\ j # 8
    OBVIOUS
  <2>5. CASE i = 8
    BY <1>1, <2>1, <2>2, <2>3, <2>4, <2>5, TrailerBreaks, Zenon
  <2>6. CASE i \in 1..7
    BY <1>1, <2>1, <2>2, <2>3, <2>6, PayloadBreaks, Zenon
  <2>7. i = 8 \/ i \in 1..7
    OBVIOUS
  <2> QED BY <2>5, <2>6, <2>7, Zenon
<1>2. ASSUME NEW b \in 0..255, b # Low(f.id), g.id = f.id - Low(f.id) + b, g.data = f.data
      PROVE  ~Sealed(g)
  <2>1. Word16(g.id) /\ Low(g.id) # Low(f.id) /\ High(g.id) = High(f.id)
    BY <1>0, <1>2, OtherLow, Zenon
  <2>2. Bytewise(g)
    BY <1>0, <1>2, <2>1, Zenon DEF Bytewise
  <2> QED BY <1>2, <2>1, <2>2, IdBreaks, Zenon
<1>3. ASSUME NEW b \in 0..255, b # High(f.id), g.id = Both(b, Low(f.id)), g.data = f.data
      PROVE  ~Sealed(g)
  <2>1. Word16(g.id) /\ Low(g.id) = Low(f.id) /\ High(g.id) # High(f.id)
    BY <1>0, <1>3, OtherHigh, Zenon
  <2>2. Bytewise(g)
    BY <1>0, <1>3, <2>1, Zenon DEF Bytewise
  <2> QED BY <1>3, <2>1, <2>2, IdBreaks, Zenon
<1>4. CASE g.id = f.id /\ \E i \in 1..8 : \E b \in 0..255 :
                              b # f.data[i] /\ g.data = [f.data EXCEPT ![i] = b]
  BY <1>1, <1>4, Zenon
<1>5. CASE g.data = f.data /\ \E b \in 0..255 :
                              \/ b # Low(f.id) /\ g.id = f.id - Low(f.id) + b
                              \/ b # High(f.id) /\ g.id = Both(b, Low(f.id))
  BY <1>2, <1>3, <1>5, Zenon
<1> QED BY <1>4, <1>5, Zenon DEF OtherByte

-----------------------------------------------------------------------------
(* Fields and their places.                                                  *)

FieldKinds == {"u8", "u16", "u32", "i16", "sat"}
KindAt(t, i) == Packed[t][i][1]
At(t, i) == Packed[t][i][2]
ReadAs(kind) == IF kind = "sat" THEN "u16" ELSE kind

\* The n fields of a type are read where they were put, and do not overlap.
Laid(t, n) ==
  /\ DOMAIN Packed[t] = 1..n /\ DOMAIN Unpacked[t] = 1..n
  /\ \A i \in 1..n : /\ KindAt(t, i) \in FieldKinds
                     /\ At(t, i) \in 0..5 /\ At(t, i) + Size(KindAt(t, i)) <= 6
                     /\ Unpacked[t][i][1] = ReadAs(KindAt(t, i))
                     /\ Unpacked[t][i][2] = At(t, i)
  /\ \A i, j \in 1..n : i < j => At(t, i) + Size(KindAt(t, i)) <= At(t, j)

LEMMA SizeIs ==
  /\ Size("u8") = 1 /\ Size("u16") = 2 /\ Size("u32") = 4 /\ Size("i16") = 2 /\ Size("sat") = 2
  /\ \A kind \in FieldKinds : Size(kind) \in {1, 2, 4}
BY DEF Size, FieldKinds

\* The table of the payloads, a type at a time.
LEMMA SpeedsLaid ==
  ASSUME NEW t, Packed[t] = Speeds, Unpacked[t] = Velocities
  PROVE  Laid(t, 3)
<1>1. DOMAIN Packed[t] = 1..3 /\ DOMAIN Unpacked[t] = 1..3
  BY DEF Speeds, Velocities
<1>2. /\ KindAt(t, 1) = "i16" /\ At(t, 1) = 0
      /\ KindAt(t, 2) = "i16" /\ At(t, 2) = 2
      /\ KindAt(t, 3) = "i16" /\ At(t, 3) = 4
  BY DEF Speeds, KindAt, At
<1>3. /\ Unpacked[t][1][1] = "i16" /\ Unpacked[t][1][2] = 0
      /\ Unpacked[t][2][1] = "i16" /\ Unpacked[t][2][2] = 2
      /\ Unpacked[t][3][1] = "i16" /\ Unpacked[t][3][2] = 4
  BY DEF Velocities
<1>4. \A i \in 1..3 : i = 1 \/ i = 2 \/ i = 3
  OBVIOUS
<1> QED BY <1>1, <1>2, <1>3, <1>4, SizeIs DEF Laid, FieldKinds, ReadAs

LEMMA ByteLaid ==
  ASSUME NEW t, Packed[t] = <<<<"u8", 0>>>>, Unpacked[t] = <<<<"u8", 0>>>>
  PROVE  Laid(t, 1)
<1>1. DOMAIN Packed[t] = 1..1 /\ DOMAIN Unpacked[t] = 1..1
  OBVIOUS
<1>2. KindAt(t, 1) = "u8" /\ At(t, 1) = 0 /\ Unpacked[t][1][1] = "u8" /\ Unpacked[t][1][2] = 0
  BY DEF KindAt, At
<1> QED BY <1>1, <1>2, SizeIs DEF Laid, FieldKinds, ReadAs

LEMMA EstopLaid == Laid("estop", 2)
<1>1. DOMAIN Packed["estop"] = 1..2 /\ DOMAIN Unpacked["estop"] = 1..2
  BY DEF Packed, Unpacked
<1>2. /\ KindAt("estop", 1) = "u8" /\ At("estop", 1) = 0
      /\ KindAt("estop", 2) = "u16" /\ At("estop", 2) = 1
  BY DEF Packed, KindAt, At
<1>3. /\ Unpacked["estop"][1][1] = "u8" /\ Unpacked["estop"][1][2] = 0
      /\ Unpacked["estop"][2][1] = "u16" /\ Unpacked["estop"][2][2] = 1
  BY DEF Unpacked
<1>4. \A i \in 1..2 : i = 1 \/ i = 2
  OBVIOUS
<1> QED BY <1>1, <1>2, <1>3, <1>4, SizeIs DEF Laid, FieldKinds, ReadAs

LEMMA StatusLaid == Laid("status", 4)
<1>1. DOMAIN Packed["status"] = 1..4 /\ DOMAIN Unpacked["status"] = 1..4
  BY DEF Packed, Unpacked
<1>2. /\ KindAt("status", 1) = "u8" /\ At("status", 1) = 0
      /\ KindAt("status", 2) = "u8" /\ At("status", 2) = 1
      /\ KindAt("status", 3) = "u8" /\ At("status", 3) = 2
      /\ KindAt("status", 4) = "u16" /\ At("status", 4) = 3
  BY DEF Packed, KindAt, At
<1>3. /\ Unpacked["status"][1][1] = "u8" /\ Unpacked["status"][1][2] = 0
      /\ Unpacked["status"][2][1] = "u8" /\ Unpacked["status"][2][2] = 1
      /\ Unpacked["status"][3][1] = "u8" /\ Unpacked["status"][3][2] = 2
      /\ Unpacked["status"][4][1] = "u16" /\ Unpacked["status"][4][2] = 3
  BY DEF Unpacked
<1>4. \A i \in 1..4 : i = 1 \/ i = 2 \/ i = 3 \/ i = 4
  OBVIOUS
<1> QED BY <1>1, <1>2, <1>3, <1>4, SizeIs DEF Laid, FieldKinds, ReadAs

LEMMA CapabilitiesLaid == Laid("capabilities", 6)
<1>1. DOMAIN Packed["capabilities"] = 1..6 /\ DOMAIN Unpacked["capabilities"] = 1..6
  BY DEF Packed, Unpacked
<1>2. \A i \in 1..6 : KindAt("capabilities", i) = "u8" /\ At("capabilities", i) = i - 1
  BY DEF Packed, KindAt, At
<1>3. \A i \in 1..6 : /\ Unpacked["capabilities"][i][1] = "u8"
                      /\ Unpacked["capabilities"][i][2] = i - 1
  BY DEF Unpacked
<1> QED BY <1>1, <1>2, <1>3, SizeIs DEF Laid, FieldKinds, ReadAs

LEMMA BatteryLaid == Laid("battery", 3)
<1>1. DOMAIN Packed["battery"] = 1..3 /\ DOMAIN Unpacked["battery"] = 1..3
  BY DEF Packed, Unpacked
<1>2. /\ KindAt("battery", 1) = "sat" /\ At("battery", 1) = 0
      /\ KindAt("battery", 2) = "i16" /\ At("battery", 2) = 2
      /\ KindAt("battery", 3) = "u8" /\ At("battery", 3) = 4
  BY DEF Packed, KindAt, At
<1>3. /\ Unpacked["battery"][1][1] = "u16" /\ Unpacked["battery"][1][2] = 0
      /\ Unpacked["battery"][2][1] = "i16" /\ Unpacked["battery"][2][2] = 2
      /\ Unpacked["battery"][3][1] = "u8" /\ Unpacked["battery"][3][2] = 4
  BY DEF Unpacked
<1>4. \A i \in 1..3 : i = 1 \/ i = 2 \/ i = 3
  OBVIOUS
<1> QED BY <1>1, <1>2, <1>3, <1>4, SizeIs DEF Laid, FieldKinds, ReadAs

LEMMA FaultsLaid == Laid("faults", 2)
<1>1. DOMAIN Packed["faults"] = 1..2 /\ DOMAIN Unpacked["faults"] = 1..2
  BY DEF Packed, Unpacked
<1>2. /\ KindAt("faults", 1) = "u32" /\ At("faults", 1) = 0
      /\ KindAt("faults", 2) = "u8" /\ At("faults", 2) = 4
  BY DEF Packed, KindAt, At
<1>3. /\ Unpacked["faults"][1][1] = "u32" /\ Unpacked["faults"][1][2] = 0
      /\ Unpacked["faults"][2][1] = "u8" /\ Unpacked["faults"][2][2] = 4
  BY DEF Unpacked
<1>4. \A i \in 1..2 : i = 1 \/ i = 2
  OBVIOUS
<1> QED BY <1>1, <1>2, <1>3, <1>4, SizeIs DEF Laid, FieldKinds, ReadAs

LEMMA ModuleLaid == Laid("module", 3)
<1>1. DOMAIN Packed["module"] = 1..3 /\ DOMAIN Unpacked["module"] = 1..3
  BY DEF Packed, Unpacked
<1>2. /\ KindAt("module", 1) = "i16" /\ At("module", 1) = 0
      /\ KindAt("module", 2) = "i16" /\ At("module", 2) = 2
      /\ KindAt("module", 3) = "u8" /\ At("module", 3) = 4
  BY DEF Packed, KindAt, At
<1>3. /\ Unpacked["module"][1][1] = "i16" /\ Unpacked["module"][1][2] = 0
      /\ Unpacked["module"][2][1] = "i16" /\ Unpacked["module"][2][2] = 2
      /\ Unpacked["module"][3][1] = "u8" /\ Unpacked["module"][3][2] = 4
  BY DEF Unpacked
<1>4. \A i \in 1..3 : i = 1 \/ i = 2 \/ i = 3
  OBVIOUS
<1> QED BY <1>1, <1>2, <1>3, <1>4, SizeIs DEF Laid, FieldKinds, ReadAs

LEMMA AllLaid ==
  ASSUME NEW t \in Types
  PROVE  \E n \in 1..6 : Laid(t, n)
<1>1. CASE t \in {"twist", "odom_twist", "odom_pose", "limits"}
  <2>1. Packed[t] = Speeds /\ Unpacked[t] = Velocities
    BY <1>1 DEF Packed, Unpacked
  <2> QED BY <2>1, SpeedsLaid
<1>2. CASE t \in {"mode", "heartbeat"}
  <2>1. Packed[t] = <<<<"u8", 0>>>> /\ Unpacked[t] = <<<<"u8", 0>>>>
    BY <1>2 DEF Packed, Unpacked
  <2> QED BY <2>1, ByteLaid
<1>3. t \in {"twist", "odom_twist", "odom_pose", "limits", "mode", "heartbeat", "estop", "status",
            "capabilities", "battery", "faults", "module"}
  BY DEF Types, Packed
<1>4. CASE t \in {"estop", "status", "capabilities", "battery", "faults", "module"}
  BY <1>4, EstopLaid, StatusLaid, CapabilitiesLaid, BatteryLaid, FaultsLaid, ModuleLaid
<1> QED BY <1>1, <1>2, <1>3, <1>4

-----------------------------------------------------------------------------
(* What a field holds, its bytes, and what is read from them.                *)

Scaled(v) == v \in {NaN, PlusInf, MinusInf} \/ \E x \in Int : v = <<x>>
Fits(kind, v) ==
  \/ kind \in {"i16", "sat"} /\ Scaled(v)
  \/ kind = "u8" /\ \E x \in 0..255 : v = <<x>>
  \/ kind = "u16" /\ \E x \in Nat : x < 256 * 256 /\ v = <<x>>
  \/ kind = "u32" /\ \E x \in Nat : x < 256 * 256 * 256 * 256 /\ v = <<x>>

Part(r, b) == (r \div 256^b) % 256
Below(r, size) ==
  /\ r \in Nat
  /\ \/ size = 1 /\ r < 256
     \/ size = 2 /\ r < 256 * 256
     \/ size = 4 /\ r < 256 * 256 * 256 * 256
\* The number whose low bytes are part(0), part(1)...
Made(part, size) ==
  IF size = 1 THEN part[0]
  ELSE IF size = 2 THEN 256 * part[1] + part[0]
  ELSE 256 * (256 * (256 * part[3] + part[2]) + part[1]) + part[0]
ReadBack(kind, w) == IF kind = "i16" /\ w > 32767 THEN w - 65536 ELSE w

LEMMA NaNIs ==
  /\ \A x : <<x>> # NaN /\ <<x>> # PlusInf /\ <<x>> # MinusInf /\ <<x>>[1] = x
  /\ PlusInf # NaN /\ MinusInf # NaN /\ PlusInf # MinusInf
BY DEF NaN, PlusInf, MinusInf

\* Saturation is the nearest value of the word.
LEMMA SatI16Is ==
  ASSUME NEW v, Scaled(v)
  PROVE  /\ SatI16(v) \in Int /\ -32768 <= SatI16(v) /\ SatI16(v) <= 32767
         /\ Nearest("i16", v) = SatI16(v)
<1>1. CASE v = NaN
  BY <1>1 DEF SatI16, Nearest
<1>2. CASE v = PlusInf
  <2>1. v # NaN /\ v # MinusInf
    BY <1>2, NaNIs
  <2>2. SatI16(v) = 32767 /\ Nearest("i16", v) = 32767
    BY <1>2, <2>1 DEF SatI16, Nearest, Under, Over
  <2> QED BY <2>2
<1>3. CASE v = MinusInf
  <2>1. v # NaN /\ v # PlusInf
    BY <1>3, NaNIs
  <2>2. SatI16(v) = -32768 /\ Nearest("i16", v) = -32768
    BY <1>3, <2>1 DEF SatI16, Nearest, Under, Over
  <2> QED BY <2>2
<1>4. ASSUME NEW x \in Int, v = <<x>>
      PROVE  /\ SatI16(v) \in Int /\ -32768 <= SatI16(v) /\ SatI16(v) <= 32767
             /\ Nearest("i16", v) = SatI16(v)
  <2>1. v # NaN /\ v # PlusInf /\ v # MinusInf /\ v[1] = x
    BY <1>4, NaNIs
  <2>2. SatI16(v) = IF x < -32768 THEN -32768 ELSE IF x > 32767 THEN 32767 ELSE x
    BY <2>1 DEF SatI16, Under, Over
  <2>3. Nearest("i16", v) = IF x >= -32768 /\ x <= 32767 THEN x ELSE IF x < -32768 THEN -32768 ELSE 32767
    BY <2>1 DEF Nearest
  <2> QED BY <2>2, <2>3
<1> QED BY <1>1, <1>2, <1>3, <1>4 DEF Scaled

LEMMA SatU16Is ==
  ASSUME NEW v, Scaled(v)
  PROVE  /\ SatU16(v) \in Nat /\ SatU16(v) < 256 * 256
         /\ Nearest("sat", v) = SatU16(v)
<1>1. CASE v = NaN
  BY <1>1 DEF SatU16, Nearest
<1>2. CASE v = PlusInf
  <2>1. v # NaN /\ v # MinusInf
    BY <1>2, NaNIs
  <2>2. SatU16(v) = 65535 /\ Nearest("sat", v) = 65535
    BY <1>2, <2>1 DEF SatU16, Nearest, Under, Over
  <2> QED BY <2>2
<1>3. CASE v = MinusInf
  <2>1. v # NaN /\ v # PlusInf
    BY <1>3, NaNIs
  <2>2. SatU16(v) = 0 /\ Nearest("sat", v) = 0
    BY <1>3, <2>1 DEF SatU16, Nearest, Under, Over
  <2> QED BY <2>2
<1>4. ASSUME NEW x \in Int, v = <<x>>
      PROVE  /\ SatU16(v) \in Nat /\ SatU16(v) < 256 * 256
             /\ Nearest("sat", v) = SatU16(v)
  <2>1. v # NaN /\ v # PlusInf /\ v # MinusInf /\ v[1] = x
    BY <1>4, NaNIs
  <2>2. SatU16(v) = IF x < 0 THEN 0 ELSE IF x > 65535 THEN 65535 ELSE x
    BY <2>1 DEF SatU16, Under, Over
  <2>3. Nearest("sat", v) = IF x >= 0 /\ x <= 65535 THEN x ELSE IF x < 0 THEN 0 ELSE 65535
    BY <2>1 DEF Nearest
  <2> QED BY <2>2, <2>3
<1> QED BY <1>1, <1>2, <1>3, <1>4 DEF Scaled

\* A signed word, written modulo 65536 and read back.
LEMMA TwosComplement ==
  ASSUME NEW s \in Int, -32768 <= s, s <= 32767
  PROVE  /\ s % 65536 \in Nat /\ s % 65536 < 256 * 256
         /\ ReadBack("i16", s % 65536) = s
BY DEF ReadBack

\* The raw value of a field that fits needs no more than its bytes.
LEMMA RawIs ==
  ASSUME NEW kind, NEW v, Fits(kind, v)
  PROVE  /\ Below(Raw(kind, v), Size(kind))
         /\ ReadBack(kind, Raw(kind, v)) = Nearest(kind, v)
<1>1. CASE kind = "i16"
  <2>1. Scaled(v)
    BY <1>1 DEF Fits
  <2>2. PICK s \in Int : s = SatI16(v) /\ -32768 <= s /\ s <= 32767 /\ Nearest("i16", v) = s
    BY <2>1, SatI16Is
  <2>3. Raw("i16", v) = s % 65536
    BY <2>2 DEF Raw
  <2>4. s % 65536 \in Nat /\ s % 65536 < 256 * 256 /\ ReadBack("i16", s % 65536) = s
    BY <2>2, TwosComplement
  <2> QED BY <1>1, <2>2, <2>3, <2>4, SizeIs DEF Below
<1>2. CASE kind = "sat"
  <2>1. Scaled(v)
    BY <1>2 DEF Fits
  <2>2. PICK s \in Nat : s = SatU16(v) /\ s < 256 * 256 /\ Nearest("sat", v) = s
    BY <2>1, SatU16Is
  <2>3. Raw("sat", v) = s
    BY <2>2 DEF Raw
  <2> QED BY <1>2, <2>2, <2>3, SizeIs DEF Below, ReadBack
<1>3. ASSUME NEW x \in Nat, v = <<x>>, kind \in {"u8", "u16", "u32"},
             kind = "u8" => x < 256, kind = "u16" => x < 256 * 256,
             kind = "u32" => x < 256 * 256 * 256 * 256
      PROVE  /\ Below(Raw(kind, v), Size(kind))
             /\ ReadBack(kind, Raw(kind, v)) = Nearest(kind, v)
  <2>1. v # NaN /\ v # PlusInf /\ v # MinusInf /\ v[1] = x
    BY <1>3, NaNIs
  <2>2. Raw(kind, v) = x
    BY <1>3, <2>1 DEF Raw
  <2>3. Nearest(kind, v) = x
    <3>1. CASE kind = "u8"
      BY <1>3, <2>1, <3>1 DEF Nearest
    <3>2. CASE kind = "u16"
      BY <1>3, <2>1, <3>2 DEF Nearest
    <3>3. CASE kind = "u32"
      BY <1>3, <2>1, <3>3 DEF Nearest
    <3> QED BY <1>3, <3>1, <3>2, <3>3
  <2>4. Below(x, Size(kind))
    BY <1>3, SizeIs DEF Below
  <2> QED BY <1>3, <2>2, <2>3, <2>4 DEF ReadBack
<1> QED BY <1>1, <1>2, <1>3 DEF Fits

\* A number of so many bytes is made of its parts.
LEMMA PartsMake ==
  ASSUME NEW size, NEW r, Below(r, size)
  PROVE  r = Made([b \in 0..3 |-> Part(r, b)], size)
<1>1. r \in Nat
  BY DEF Below
<1>2. 256^0 = 1 /\ 256^1 = 256 /\ 256^2 = 256 * 256 /\ 256^3 = 256 * 256 * 256
  OBVIOUS
<1>3. /\ Part(r, 0) = r % 256 /\ Part(r, 1) = (r \div 256) % 256
      /\ Part(r, 2) = (r \div (256 * 256)) % 256
      /\ Part(r, 3) = (r \div (256 * 256 * 256)) % 256
  BY <1>1, <1>2 DEF Part
<1>4. CASE size = 1
  <2>1. r < 256
    BY <1>4 DEF Below
  <2> QED BY <1>1, <1>3, <1>4, <2>1 DEF Made
<1>5. CASE size = 2
  <2>1. r < 256 * 256
    BY <1>5 DEF Below
  <2>2. r = 256 * ((r \div 256) % 256) + (r % 256)
    BY <1>1, <2>1
  <2> QED BY <1>3, <1>5, <2>2 DEF Made
<1>6. CASE size = 4
  <2>1. r < 256 * 256 * 256 * 256
    BY <1>6 DEF Below
  <2>2. r = 256 * (256 * (256 * ((r \div (256 * 256 * 256)) % 256) + ((r \div (256 * 256)) % 256))
                   + ((r \div 256) % 256)) + (r % 256)
    BY <1>1, <2>1
  <2> QED BY <1>3, <1>6, <2>2 DEF Made
<1> QED BY <1>4, <1>5, <1>6 DEF Below

LEMMA PartTyped ==
  ASSUME NEW r \in Nat, NEW b \in 0..3
  PROVE  Part(r, b) \in 0..255
<1>1. 256^0 = 1 /\ 256^1 = 256 /\ 256^2 = 256 * 256 /\ 256^3 = 256 * 256 * 256
  OBVIOUS
<1>2. PICK w \in Nat : w = 256^b /\ w > 0
  <2>1. CASE b = 0
    BY <1>1, <2>1
  <2>2. CASE b = 1
    BY <1>1, <2>2
  <2>3. CASE b = 2
    BY <1>1, <2>3
  <2>4. CASE b = 3
    BY <1>1, <2>4
  <2> QED BY <2>1, <2>2, <2>3, <2>4
<1>3. PICK q \in Int : q = r \div w
  BY <1>2, ModDiv
<1>4. q % 256 \in 0..255
  OBVIOUS
<1> QED BY <1>2, <1>3, <1>4 DEF Part

Inside(kind, at, j) == j - 1 - at \in 0..(Size(kind) - 1)

\* Put stores the parts at their place and leaves the other bytes alone.
LEMMA PutIs ==
  ASSUME NEW data \in [1..8 -> 0..255], NEW kind \in FieldKinds, NEW at \in 0..5,
         NEW v, Raw(kind, v) \in Nat
  PROVE  /\ Put(data, kind, at, v) \in [1..8 -> 0..255]
         /\ \A j \in 1..8 : Put(data, kind, at, v)[j] =
                IF Inside(kind, at, j) THEN Part(Raw(kind, v), j - 1 - at) ELSE data[j]
<1>1. DOMAIN data = 1..8
  OBVIOUS
<1>2. Put(data, kind, at, v) =
        [j \in 1..8 |-> IF Inside(kind, at, j) THEN Part(Raw(kind, v), j - 1 - at) ELSE data[j]]
  BY <1>1 DEF Put, Inside, Part
<1>3. ASSUME NEW j \in 1..8, Inside(kind, at, j) PROVE Part(Raw(kind, v), j - 1 - at) \in 0..255
  <2>1. Size(kind) \in {1, 2, 4}
    BY SizeIs
  <2>2. j - 1 - at \in 0..3
    BY <1>3, <2>1 DEF Inside
  <2> QED BY <2>2, PartTyped
<1> QED BY <1>2, <1>3

\* The low byte first.
LEMMA WordIs ==
  ASSUME NEW data \in [1..8 -> 0..255], NEW at \in 0..5, NEW n \in {1, 2, 4}, at + n <= 6
  PROVE  Word(data, at, n) = Made([b \in 0..3 |-> data[at + 1 + b]], n)
<1> DEFINE sub == SubSeq(data, at + 1, at + n)
           s == Reverse(sub)
<1>1. n \in Nat /\ n >= 1
  OBVIOUS
<1>2. \A i \in (at + 1)..(at + n) : data[i] \in 0..255
  BY <1>1
<1>3. /\ sub \in Seq(0..255) /\ Len(sub) = n
      /\ \A i \in 1..n : sub[i] = data[at + i]
  <2>1. /\ sub \in Seq(0..255)
        /\ Len(sub) = IF at + 1 <= at + n THEN (at + n) - (at + 1) + 1 ELSE 0
        /\ \A i \in 1..((at + n) - (at + 1) + 1) : sub[i] = data[(at + 1) + i - 1]
    BY <1>1, <1>2, SubSeqProperties
  <2>2. (at + n) - (at + 1) + 1 = n /\ at + 1 <= at + n
    BY <1>1
  <2>3. \A i \in 1..n : (at + 1) + i - 1 = at + i
    BY <1>1
  <2> QED BY <2>1, <2>2, <2>3
<1> HIDE DEF sub
<1>4. s = [i \in 1..n |-> sub[(n - i) + 1]]
  BY <1>3 DEF Reverse
<1>5. s = [i \in 1..n |-> data[at + ((n - i) + 1)]]
  <2>1. \A i \in 1..n : (n - i) + 1 \in 1..n
    BY <1>1
  <2> QED BY <1>3, <1>4, <2>1
<1>6. s \in [1..n -> 0..255]
  <2>1. \A i \in 1..n : at + ((n - i) + 1) \in 1..8
    BY <1>1
  <2>2. \A i \in 1..n : data[at + ((n - i) + 1)] \in 0..255
    BY <2>1
  <2> QED BY <1>5, <2>2
<1>7. Word(data, at, n) = Unsigned(s)
  BY DEF Word, sub
<1> HIDE DEF s
<1>8. PICK h : /\ h \in [0..n -> Int] /\ h[0] = 0
               /\ \A k \in 1..n : h[k] = 256 * h[k - 1] + s[k]
               /\ Unsigned(s) = h[n]
  <2>1. 0 \in Int
    OBVIOUS
  <2>2. PICK h : Joins(h, 0, s, n)
    BY <1>1, <1>6, <2>1, JoinedFold, Zenon
  <2> QED BY <2>2, Zenon DEF Joins, Unsigned
<1>9. CASE n = 1
  <2>1. h[1] = 256 * h[0] + s[1] /\ s[1] = data[at + 1] /\ data[at + 1] \in 0..255
    BY <1>5, <1>8, <1>9
  <2>2. Made([b \in 0..3 |-> data[at + 1 + b]], 1) = data[at + 1]
    BY DEF Made
  <2> QED BY <1>7, <1>8, <1>9, <2>1, <2>2
<1>10. CASE n = 2
  <2>1. PICK x \in 0..255, y \in 0..255 : x = data[at + 2] /\ y = data[at + 1]
    <3>1. at + 2 \in 1..8 /\ at + 1 \in 1..8
      BY <1>10
    <3>2. data[at + 2] \in 0..255 /\ data[at + 1] \in 0..255
      BY <3>1
    <3> QED BY <3>2, Zenon
  <2>2. h[1] = 256 * h[0] + s[1] /\ h[2] = 256 * h[1] + s[2]
    BY <1>8, <1>10
  <2>3. s[1] = x /\ s[2] = y
    BY <1>5, <1>10, <2>1
  <2>4. Made([b \in 0..3 |-> data[at + 1 + b]], 2) = 256 * x + y
    BY <2>1 DEF Made
  <2> QED BY <1>7, <1>8, <1>10, <2>2, <2>3, <2>4
<1>11. CASE n = 4
  <2>1. PICK x \in 0..255, y \in 0..255, z \in 0..255, u \in 0..255 :
          x = data[at + 4] /\ y = data[at + 3] /\ z = data[at + 2] /\ u = data[at + 1]
    <3>1. at + 4 \in 1..8 /\ at + 3 \in 1..8 /\ at + 2 \in 1..8 /\ at + 1 \in 1..8
      BY <1>11
    <3>2. /\ data[at + 4] \in 0..255 /\ data[at + 3] \in 0..255
          /\ data[at + 2] \in 0..255 /\ data[at + 1] \in 0..255
      BY <3>1
    <3> QED BY <3>2, Zenon
  <2>2. /\ h[1] = 256 * h[0] + s[1] /\ h[2] = 256 * h[1] + s[2]
        /\ h[3] = 256 * h[2] + s[3] /\ h[4] = 256 * h[3] + s[4]
    <3>1. \A k \in 1..4 : h[k] = 256 * h[k - 1] + s[k]
      BY <1>8, <1>11
    <3> QED BY <3>1
  <2>3. s[1] = x /\ s[2] = y /\ s[3] = z /\ s[4] = u
    <3>1. \A i \in 1..4 : s[i] = data[at + ((4 - i) + 1)]
      BY <1>5, <1>11
    <3> QED BY <2>1, <3>1
  <2>4. Made([b \in 0..3 |-> data[at + 1 + b]], 4) = 256 * (256 * (256 * x + y) + z) + u
    BY <2>1 DEF Made
  <2>5. h[4] = 256 * (256 * (256 * x + y) + z) + u
    BY <1>8, <2>2, <2>3
  <2> QED BY <1>7, <1>8, <1>11, <2>4, <2>5
<1> QED BY <1>9, <1>10, <1>11

\* A field whose bytes are in the frame is read as the nearest value that fits.
LEMMA GetIs ==
  ASSUME NEW data \in [1..8 -> 0..255], NEW kind \in FieldKinds, NEW at \in 0..5,
         at + Size(kind) <= 6, NEW v, Fits(kind, v),
         \A b \in 0..(Size(kind) - 1) : data[at + 1 + b] = Part(Raw(kind, v), b)
  PROVE  Get(data, ReadAs(kind), at) = Nearest(kind, v)
<1>1. PICK r \in Nat : r = Raw(kind, v) /\ Below(r, Size(kind)) /\ ReadBack(kind, r) = Nearest(kind, v)
  BY RawIs DEF Below
<1>2. PICK n \in {1, 2, 4} : n = Size(kind) /\ at + n <= 6
  BY SizeIs
<1>3. Size(ReadAs(kind)) = n
  BY <1>2, SizeIs DEF ReadAs
<1>4. \A b \in 0..(n - 1) : data[at + 1 + b] = Part(r, b)
  BY <1>1, <1>2
<1>5. Word(data, at, n) = Made([b \in 0..3 |-> data[at + 1 + b]], n)
  BY <1>2, WordIs
<1>6. r = Made([b \in 0..3 |-> Part(r, b)], n)
  BY <1>1, <1>2, PartsMake
<1>7. Made([b \in 0..3 |-> data[at + 1 + b]], n) = Made([b \in 0..3 |-> Part(r, b)], n)
  <2>1. CASE n = 1
    BY <1>4, <2>1 DEF Made
  <2>2. CASE n = 2
    BY <1>4, <2>2 DEF Made
  <2>3. CASE n = 4
    BY <1>4, <2>3 DEF Made
  <2> QED BY <2>1, <2>2, <2>3
<1>8. Word(data, at, n) = r
  BY <1>5, <1>6, <1>7, Zenon
<1>9. ReadAs(kind) = "i16" <=> kind = "i16"
  BY DEF ReadAs
<1>10. Get(data, ReadAs(kind), at) = ReadBack(kind, r)
  BY <1>3, <1>8, <1>9 DEF Get, ReadBack
<1> QED BY <1>1, <1>10

-----------------------------------------------------------------------------
(* A frame as it is encoded.                                                 *)

FrameId(m) == IdOf(m.type) + (m.index % 4)
Filled(m, data) == [id |-> FrameId(m), data |-> [data EXCEPT ![7] = m.counter]]
WithCrc(f, b) == [f EXCEPT !.data[8] = b]
\* One field after the other is put in.
Filling(h, m, n) ==
  /\ h \in [0..n -> [1..8 -> 0..255]]
  /\ \A k \in 1..n : h[k] = Put(h[k - 1], KindAt(m.type, k), At(m.type, k), m.fields[k])
  /\ Encode(m) = WithCrc(Filled(m, h[n]), ComputeCrc(Filled(m, h[n])))

\* The fold of Encode, field by field.
LEMMA EncodeFold ==
  ASSUME NEW m, NEW n \in 1..6, Laid(m.type, n), Len(m.fields) = n,
         \A i \in 1..n : Fits(KindAt(m.type, i), m.fields[i])
  PROVE  \E h : Filling(h, m, n)
<1> DEFINE D == [1..8 -> 0..255]
           S == [id : {FrameId(m)}, data : D]
           base == [id |-> FrameId(m), data |-> [i \in 1..8 |-> 0]]
           seq == [i \in 1..Len(m.fields) |-> i]
           put(d, i) == Put(d, KindAt(m.type, i), At(m.type, i), m.fields[i])
           pack(f, i) == [f EXCEPT !.data = put(f.data, i)]
           step == [p \in S \X (1..n) |-> pack(p[1], p[2])]
           It(f) == f = [u \in SUBSET (1..n) |->
                          IF u = {} THEN base ELSE pack(f[u \ {Max(u)}], seq[Max(u)])]
           iter == CHOOSE f : It(f)
<1>0. ASSUME NEW d \in D, NEW i \in 1..n PROVE put(d, i) \in D
  <2>1. KindAt(m.type, i) \in FieldKinds /\ At(m.type, i) \in 0..5
    BY DEF Laid
  <2>2. Raw(KindAt(m.type, i), m.fields[i]) \in Nat
    BY RawIs DEF Below
  <2> QED BY <2>1, <2>2, PutIs, Zenon
<1>n. n \in Nat
  OBVIOUS
<1>s. \A i \in 1..n : seq[i] = i
  OBVIOUS
<1> HIDE DEF put
<1>1. step \in [S \X (1..n) -> S] /\ base \in S
  <2>1. ASSUME NEW p \in S \X (1..n) PROVE pack(p[1], p[2]) \in S
    <3>1. PICK f \in S, k \in 1..n : p[1] = f /\ p[2] = k
      OBVIOUS
    <3>2. f.data \in D
      OBVIOUS
    <3>3. put(f.data, k) \in D
      BY <1>0, <3>2, Zenon
    <3> QED BY <3>1, <3>3, Zenon
  <2>2. base \in S
    OBVIOUS
  <2> HIDE DEF pack, S, base
  <2> QED BY <2>1, <2>2
<1>2. PICK g : FoldsTo(g, S, base, step, n)
  <2> HIDE DEF step, S, base
  <2> QED BY <1>1, <1>n, FoldExists
<1>3. It(g)
  <2> HIDE DEF pack, seq, base, S
  <2>1. ASSUME NEW u \in SUBSET (1..n)
        PROVE  g[u] = IF u = {} THEN base ELSE pack(g[u \ {Max(u)}], seq[Max(u)])
    <3>1. CASE u = {}
      BY <1>2, <3>1 DEF FoldsTo
    <3>2. CASE u # {}
      <4>1. Max(u) \in 1..n
        BY <1>n, <3>2, MaxIs
      <4>2. g[u \ {Max(u)}] \in S
        BY <1>2 DEF FoldsTo
      <4>3. step[<<g[u \ {Max(u)}], Max(u)>>] = pack(g[u \ {Max(u)}], Max(u))
        BY <4>1, <4>2
      <4>4. g[u] = step[<<g[u \ {Max(u)}], Max(u)>>]
        BY <1>2, <3>2 DEF FoldsTo
      <4> QED BY <1>s, <3>2, <4>1, <4>3, <4>4
    <3> QED BY <3>1, <3>2
  <2>2. g = [u \in SUBSET (1..n) |-> g[u]]
    BY <1>2 DEF FoldsTo
  <2> QED BY <2>1, <2>2
<1>4. It(iter)
  <2> HIDE DEF It
  <2> QED BY <1>3
<1>5. Encode(m) = LET full == [iter[1..n] EXCEPT !.data[7] = m.counter]
                  IN  [full EXCEPT !.data[8] = ComputeCrc(full)]
  <2>1. DOMAIN seq = 1..n
    OBVIOUS
  <2> QED BY <2>1, Zenon DEF Encode, FoldLeft, MapThenFoldSet, FrameId, KindAt, At, put
<1> HIDE DEF iter, pack, seq, base, S
<1>6. iter[{}] = base
  BY <1>4
<1>7. \A u \in SUBSET (1..n) : u # {} /\ iter[u \ {Max(u)}] \in S =>
                               iter[u] = step[<<iter[u \ {Max(u)}], Max(u)>>]
  <2> SUFFICES ASSUME NEW u \in SUBSET (1..n), u # {}, iter[u \ {Max(u)}] \in S
               PROVE  iter[u] = step[<<iter[u \ {Max(u)}], Max(u)>>]
    OBVIOUS
  <2>1. Max(u) \in 1..n
    BY <1>n, MaxIs
  <2>2. iter[u] = pack(iter[u \ {Max(u)}], seq[Max(u)])
    BY <1>4
  <2> QED BY <1>s, <2>1, <2>2
<1> HIDE DEF It
<1>8. Folding(iter, S, base, step, n)
  BY <1>6, <1>7 DEF Folding
<1>9. PICK fs : FoldTurns(fs, iter, S, base, step, n)
  <2> HIDE DEF step
  <2> QED BY <1>1, <1>8, <1>n, FoldSteps
<1> DEFINE h == [k \in 0..n |-> fs[k].data]
<1>10. \A k \in 0..n : fs[k] \in S /\ fs[k].data \in D /\ fs[k].id = FrameId(m)
  BY <1>9, Zenon DEF FoldTurns, S
<1>11. h \in [0..n -> D]
  BY <1>10, Zenon
<1>12. \A k \in 1..n : h[k] = put(h[k - 1], k)
  <2> TAKE k \in 1..n
  <2>1. k - 1 \in 0..n /\ k \in 0..n
    OBVIOUS
  <2>2. PICK f \in S : f = fs[k - 1]
    BY <1>10, <2>1
  <2>3. fs[k] = pack(f, k)
    <3>1. step[<<f, k>>] = pack(f, k)
      OBVIOUS
    <3> QED BY <1>9, <2>2, <3>1 DEF FoldTurns
  <2>4. pack(f, k).data = put(f.data, k)
    BY DEF pack, S
  <2> QED BY <2>1, <2>2, <2>3, <2>4
<1>13. [iter[1..n] EXCEPT !.data[7] = m.counter] = Filled(m, h[n])
  <2>1. n \in 0..n /\ iter[1..n] = fs[n]
    BY <1>9 DEF FoldTurns
  <2>2. PICK f \in S : f = fs[n] /\ f.id = FrameId(m) /\ f.data = h[n]
    BY <1>10, <2>1
  <2>3. f = [id |-> f.id, data |-> f.data]
    BY DEF S
  <2> QED BY <2>1, <2>2, <2>3 DEF Filled
<1>14. Encode(m) = WithCrc(Filled(m, h[n]), ComputeCrc(Filled(m, h[n])))
  BY <1>5, <1>13 DEF WithCrc
<1> HIDE DEF h
<1> QED BY <1>11, <1>12, <1>14, Zenon DEF Filling, put

\* The bytes of field i are where the layout says.
Stored(data, m, i) ==
  \A b \in 0..(Size(KindAt(m.type, i)) - 1) :
    data[At(m.type, i) + 1 + b] = Part(Raw(KindAt(m.type, i), m.fields[i]), b)

LEMMA PutStores ==
  ASSUME NEW data \in [1..8 -> 0..255], NEW kind \in FieldKinds, NEW at \in 0..5,
         at + Size(kind) <= 6, NEW v, Raw(kind, v) \in Nat
  PROVE  /\ \A b \in 0..(Size(kind) - 1) : Put(data, kind, at, v)[at + 1 + b] = Part(Raw(kind, v), b)
         /\ \A j \in 1..at : Put(data, kind, at, v)[j] = data[j]
<1>1. PICK size \in {1, 2, 4} : size = Size(kind)
  BY SizeIs
<1>2. ASSUME NEW j \in 1..8
      PROVE  Put(data, kind, at, v)[j] =
                IF Inside(kind, at, j) THEN Part(Raw(kind, v), j - 1 - at) ELSE data[j]
  BY DEF Put, Inside, Part
<1>3. ASSUME NEW b \in 0..(size - 1)
      PROVE  Put(data, kind, at, v)[at + 1 + b] = Part(Raw(kind, v), b)
  <2>1. at + 1 + b \in 1..8 /\ (at + 1 + b) - 1 - at = b
    BY <1>1
  <2>2. Inside(kind, at, at + 1 + b)
    BY <1>1, <2>1 DEF Inside
  <2> QED BY <1>2, <2>1, <2>2
<1>4. ASSUME NEW j \in 1..at PROVE Put(data, kind, at, v)[j] = data[j]
  <2>1. j \in 1..8 /\ ~(j - 1 - at \in 0..(size - 1))
    OBVIOUS
  <2> QED BY <1>1, <1>2, <2>1 DEF Inside
<1> QED BY <1>1, <1>3, <1>4

\* The field put in last is stored, and those before it stay, as they lie lower.
LEMMA LastStored ==
  ASSUME NEW m, NEW n \in 1..6, Laid(m.type, n), \A i \in 1..n : Fits(KindAt(m.type, i), m.fields[i]),
         NEW data \in [1..8 -> 0..255], NEW i \in 1..n, NEW new,
         new = Put(data, KindAt(m.type, i), At(m.type, i), m.fields[i])
  PROVE  /\ Stored(new, m, i)
         /\ \A j \in 1..n : j < i /\ Stored(data, m, j) => Stored(new, m, j)
<1>1. /\ KindAt(m.type, i) \in FieldKinds /\ At(m.type, i) \in 0..5
      /\ At(m.type, i) + Size(KindAt(m.type, i)) <= 6
      /\ Raw(KindAt(m.type, i), m.fields[i]) \in Nat
  BY RawIs, Zenon DEF Laid, Below
<1>2. /\ \A b \in 0..(Size(KindAt(m.type, i)) - 1) :
           new[At(m.type, i) + 1 + b] = Part(Raw(KindAt(m.type, i), m.fields[i]), b)
      /\ \A j \in 1..At(m.type, i) : new[j] = data[j]
  <2>1. PICK kind \in FieldKinds, at \in 0..5, v \in {m.fields[i]} :
          kind = KindAt(m.type, i) /\ at = At(m.type, i) /\ v = m.fields[i]
    BY <1>1
  <2>2. at + Size(kind) <= 6 /\ Raw(kind, v) \in Nat /\ new = Put(data, kind, at, v)
    BY <1>1, <2>1
  <2>3. /\ \A b \in 0..(Size(kind) - 1) : Put(data, kind, at, v)[at + 1 + b] = Part(Raw(kind, v), b)
        /\ \A j \in 1..at : Put(data, kind, at, v)[j] = data[j]
    BY <2>2, PutStores
  <2> QED BY <2>1, <2>2, <2>3
<1>3. Stored(new, m, i)
  BY <1>2 DEF Stored
<1>4. ASSUME NEW j \in 1..n, j < i, Stored(data, m, j)
      PROVE  Stored(new, m, j)
  <2>1. PICK at \in 0..5, at1 \in 0..5, size1 \in {1, 2, 4} :
          /\ at = At(m.type, i) /\ at1 = At(m.type, j) /\ size1 = Size(KindAt(m.type, j))
          /\ at1 + size1 <= at
    <3>1. At(m.type, j) \in 0..5 /\ KindAt(m.type, j) \in FieldKinds
          /\ At(m.type, j) + Size(KindAt(m.type, j)) <= At(m.type, i)
      BY <1>4 DEF Laid
    <3> QED BY <1>1, <3>1, SizeIs
  <2> SUFFICES ASSUME NEW b \in 0..(size1 - 1)
               PROVE  new[at1 + 1 + b] = Part(Raw(KindAt(m.type, j), m.fields[j]), b)
    BY <2>1 DEF Stored
  <2>2. at1 + 1 + b \in 1..at
    BY <2>1
  <2>3. new[at1 + 1 + b] = data[at1 + 1 + b]
    BY <1>2, <2>1, <2>2
  <2> QED BY <1>4, <2>1, <2>3 DEF Stored
<1> QED BY <1>3, <1>4

\* A frame of this id whose first n bytes are those of data.
Payload == [1..8 -> 0..255]
Counted(m) == m.counter \in 0..255
Holding(f, id, data, n) ==
  /\ \E d \in Payload : f = [id |-> id, data |-> d] /\ \A j \in 1..n : d[j] = data[j]

LEMMA HoldingIs ==
  ASSUME NEW f, NEW id, NEW data, NEW n, Holding(f, id, data, n)
  PROVE  /\ f.id = id /\ f.data \in Payload /\ \A j \in 1..n : f.data[j] = data[j]
         /\ f = [id |-> id, data |-> f.data]
<1>1. PICK d \in Payload : f = [id |-> id, data |-> d] /\ \A j \in 1..n : d[j] = data[j]
  BY DEF Holding
<1>2. f.id = id /\ f.data = d
  BY <1>1
<1> QED BY <1>1, <1>2

LEMMA FilledIs ==
  ASSUME NEW data \in Payload, NEW m, Counted(m)
  PROVE  Holding(Filled(m, data), FrameId(m), data, 6)
<1>1. PICK i \in 1..8, c \in 0..255 : i = 7 /\ c = m.counter
  BY DEF Counted
<1>2. PICK d : d = [data EXCEPT ![i] = c]
  OBVIOUS
<1>3. d \in Payload
  BY <1>2 DEF Payload
<1>4. \A j \in 1..8 : j # i => d[j] = data[j]
  BY <1>2 DEF Payload
<1>5. Filled(m, data) = [id |-> FrameId(m), data |-> d]
  BY <1>1, <1>2 DEF Filled
<1>6. \A j \in 1..6 : d[j] = data[j]
  BY <1>1, <1>4
<1> QED BY <1>3, <1>5, <1>6 DEF Holding

LEMMA WithCrcIs ==
  ASSUME NEW f, NEW id, NEW data \in Payload, NEW b \in 0..255,
         f = [id |-> id, data |-> data]
  PROVE  Holding(WithCrc(f, b), id, data, 7) /\ WithCrc(f, b).data[8] = b
<1>1. PICK i \in 1..8 : i = 8
  OBVIOUS
<1>2. PICK d : d = [data EXCEPT ![i] = b]
  OBVIOUS
<1>3. d \in Payload /\ d[i] = b
  BY <1>2 DEF Payload
<1>4. \A j \in 1..8 : j # i => d[j] = data[j]
  BY <1>2 DEF Payload
<1>5. WithCrc(f, b) = [id |-> id, data |-> d]
  BY <1>1, <1>2 DEF WithCrc
<1>6. \A j \in 1..7 : d[j] = data[j]
  BY <1>1, <1>4
<1>7. Holding(WithCrc(f, b), id, data, 7)
  BY <1>3, <1>5, <1>6 DEF Holding
<1> QED BY <1>1, <1>3, <1>5, <1>7

\* So in the end they all are.
LEMMA AllStored ==
  ASSUME NEW m, NEW n \in 1..6, Laid(m.type, n), \A i \in 1..n : Fits(KindAt(m.type, i), m.fields[i]),
         NEW h, Filling(h, m, n)
  PROVE  \A i \in 1..n : Stored(h[n], m, i)
<1> DEFINE T == {k \in Nat : k <= n => \A i \in 1..n : i <= k => Stored(h[k], m, i)}
<1>1. 0 \in T
  OBVIOUS
<1>2. ASSUME NEW k \in Nat, k \in T PROVE k + 1 \in T
  <2> SUFFICES ASSUME k + 1 <= n, NEW i \in 1..n, i <= k + 1
               PROVE  Stored(h[k + 1], m, i)
    OBVIOUS
  <2>1. k \in 0..n /\ k + 1 \in 1..n /\ (k + 1) - 1 = k
    OBVIOUS
  <2>2. PICK data \in [1..8 -> 0..255] : data = h[k]
    BY <2>1 DEF Filling
  <2>3. h[k + 1] = Put(data, KindAt(m.type, k + 1), At(m.type, k + 1), m.fields[k + 1])
    BY <2>1, <2>2 DEF Filling
  <2>4. PICK new : new = h[k + 1]
    OBVIOUS
  <2>5. /\ Stored(new, m, k + 1)
        /\ \A j \in 1..n : j < k + 1 /\ Stored(data, m, j) => Stored(new, m, j)
    <3>1. PICK fresh \in 1..n : fresh = k + 1
      BY <2>1
    <3>2. new = Put(data, KindAt(m.type, fresh), At(m.type, fresh), m.fields[fresh])
      BY <2>3, <2>4, <3>1
    <3>3. /\ Stored(new, m, fresh)
          /\ \A j \in 1..n : j < fresh /\ Stored(data, m, j) => Stored(new, m, j)
      BY <3>2, LastStored, Zenon
    <3> QED BY <3>1, <3>3
  <2>6. i <= k => Stored(data, m, i)
    BY <1>2, <2>2
  <2> QED BY <2>4, <2>5, <2>6
<1>3. T = Nat
  <2>1. T \subseteq Nat
    OBVIOUS
  <2> HIDE DEF T
  <2> QED BY <1>1, <1>2, <2>1, Induct
<1>4. n \in T
  BY <1>3
<1> QED BY <1>4

\* What the CRC covers has no trailer.
LEMMA CrcTyped ==
  ASSUME NEW f, Bytewise(f)
  PROVE  ComputeCrc(f) \in 0..255
<1>1. PICK c : Covering(c, f) /\ ComputeCrc(f) = Crc8Autosar(c)
  BY CoveredIs, Zenon
<1>2. c \in [1..9 -> 0..255]
  BY <1>1, Zenon DEF Covering
<1>3. DOMAIN c = 1..9 /\ 9 \in Nat
  BY <1>2
<1> QED BY <1>1, <1>3, AutosarTyped, Zenon

\* No two types share an id, and a swerve module's is above the others.
LEMMA IdIs ==
  ASSUME NEW t \in Types
  PROVE  /\ IdOf(t) \in 256..544
         /\ \A s \in Types : s # t => IdOf(s) # IdOf(t)
         /\ t # "module" => IdOf(t) <= 518
         /\ IdOf("module") = 544
         /\ t \in States => IdOf(t) \in 512..518
<1>1. \A s \in Types : s \in {"twist", "odom_twist", "odom_pose", "limits", "mode", "heartbeat",
                              "estop", "status", "capabilities", "battery", "faults", "module"}
  BY DEF Types, Packed
<1>2. /\ IdOf("twist") = 256 /\ IdOf("mode") = 257 /\ IdOf("estop") = 258 /\ IdOf("heartbeat") = 259
      /\ IdOf("status") = 512 /\ IdOf("odom_twist") = 513 /\ IdOf("odom_pose") = 514
      /\ IdOf("capabilities") = 515 /\ IdOf("limits") = 516 /\ IdOf("battery") = 517
      /\ IdOf("faults") = 518 /\ IdOf("module") = 544
  BY DEF IdOf
<1> QED BY <1>1, <1>2 DEF States

\* A frame with its checksum.
Shaped(f) == \E id, data : f = [id |-> id, data |-> data]
Whole(g, id, data) ==
  Bytewise(g) /\ Sealed(g) /\ Shaped(g) /\ g.id = id /\ \A j \in 1..6 : g.data[j] = data[j]

LEMMA HoldingShaped ==
  ASSUME NEW f, NEW id, NEW data, NEW n, Holding(f, id, data, n)
  PROVE  Shaped(f)
BY DEF Holding, Shaped

\* The counter and the CRC go behind the fields.
LEMMA FrameSealed ==
  ASSUME NEW data \in Payload, NEW m, Counted(m),
         FrameId(m) \in Nat, FrameId(m) < 256 * 256
  PROVE  Whole(WithCrc(Filled(m, data), ComputeCrc(Filled(m, data))), FrameId(m), data)
<1>1. PICK id \in Nat : id = FrameId(m) /\ id < 256 * 256
  OBVIOUS
<1>2. PICK f : f = Filled(m, data)
  OBVIOUS
<1>3. Holding(f, id, data, 6)
  BY <1>1, <1>2, FilledIs
<1>4. /\ f.id = id /\ f.data \in Payload /\ \A j \in 1..6 : f.data[j] = data[j]
      /\ f = [id |-> id, data |-> f.data]
  BY <1>3, HoldingIs
<1>5. PICK d \in Payload : d = f.data
  BY <1>4
<1>6. Bytewise(f)
  BY <1>1, <1>4 DEF Bytewise, Word16, Payload
<1>7. PICK b \in 0..255 : b = ComputeCrc(f)
  BY <1>6, CrcTyped
<1>8. PICK g : g = WithCrc(f, b)
  OBVIOUS
<1>9. Holding(g, id, d, 7) /\ g.data[8] = b
  BY <1>4, <1>5, <1>8, WithCrcIs, Zenon
<1>10. g.id = id /\ g.data \in Payload /\ \A j \in 1..7 : g.data[j] = d[j]
  BY <1>9, HoldingIs
<1>11. Bytewise(g)
  BY <1>1, <1>10 DEF Bytewise, Word16, Payload
<1>12. Sealed(g)
  <2>1. g.id = f.id /\ \A i \in 1..7 : g.data[i] = f.data[i]
    BY <1>4, <1>5, <1>10
  <2>2. ComputeCrc(g) = ComputeCrc(f)
    BY <1>6, <1>11, <2>1, SealedSame
  <2> QED BY <1>7, <1>9, <2>2 DEF Sealed
<1>13. \A j \in 1..6 : g.data[j] = data[j]
  <2>1. \A j \in 1..6 : j \in 1..7
    OBVIOUS
  <2> QED BY <1>4, <1>5, <1>10, <2>1
<1>14. Shaped(g)
  BY <1>9, HoldingShaped
<1>15. Whole(g, id, data)
  BY <1>10, <1>11, <1>12, <1>13, <1>14 DEF Whole
<1> QED BY <1>1, <1>2, <1>7, <1>8, <1>15

LEMMA FrameIdIs ==
  ASSUME NEW m, m.type \in Types, m.index \in 0..3
  PROVE  /\ FrameId(m) = IdOf(m.type) + m.index
         /\ FrameId(m) \in Nat /\ FrameId(m) < 256 * 256
<1>1. PICK t \in Types, k \in 0..3 : t = m.type /\ k = m.index
  OBVIOUS
<1>2. IdOf(t) \in 256..544
  BY IdIs
<1>3. PICK id \in Nat : id = IdOf(t) /\ id <= 544
  BY <1>2
<1>4. k % 4 = k
  OBVIOUS
<1>5. FrameId(m) = id + k
  BY <1>1, <1>3, <1>4 DEF FrameId
<1> QED BY <1>1, <1>3, <1>5

LEMMA StoredSame ==
  ASSUME NEW m, NEW n \in 1..6, Laid(m.type, n), NEW i \in 1..n,
         NEW data, Stored(data, m, i), NEW new, \A j \in 1..6 : new[j] = data[j]
  PROVE  Stored(new, m, i)
<1>1. PICK at \in 0..5, size \in {1, 2, 4} :
        at = At(m.type, i) /\ size = Size(KindAt(m.type, i)) /\ at + size <= 6
  <2>1. KindAt(m.type, i) \in FieldKinds /\ At(m.type, i) \in 0..5
        /\ At(m.type, i) + Size(KindAt(m.type, i)) <= 6
    BY DEF Laid
  <2> QED BY <2>1, SizeIs
<1>2. \A b \in 0..(size - 1) : at + 1 + b \in 1..6
  BY <1>1
<1>3. \A b \in 0..(size - 1) : new[at + 1 + b] = data[at + 1 + b]
  BY <1>2
<1> QED BY <1>1, <1>3 DEF Stored

\* What Encode makes: a whole frame of this id that holds the fields.
LEMMA EncodeHolds ==
  ASSUME NEW m, NEW n \in 1..6, m.type \in Types, Laid(m.type, n), Len(m.fields) = n,
         \A i \in 1..n : Fits(KindAt(m.type, i), m.fields[i]),
         m.counter \in 0..255, m.index \in 0..3
  PROVE  /\ Bytewise(Encode(m)) /\ Sealed(Encode(m)) /\ Shaped(Encode(m))
         /\ Encode(m).id = IdOf(m.type) + m.index
         /\ \A i \in 1..n : Stored(Encode(m).data, m, i)
<1>1. PICK h : Filling(h, m, n)
  BY EncodeFold
<1>2. PICK data \in [1..8 -> 0..255] : data = h[n]
  <2>1. n \in 0..n
    OBVIOUS
  <2> QED BY <1>1, <2>1 DEF Filling
<1>4. PICK id \in Nat : id < 256 * 256 /\ id = FrameId(m) /\ id = IdOf(m.type) + m.index
  BY FrameIdIs
<1>5. PICK g : g = Encode(m)
  OBVIOUS
<1>6. g = WithCrc(Filled(m, data), ComputeCrc(Filled(m, data)))
  BY <1>1, <1>2, <1>5 DEF Filling
<1>7. /\ Bytewise(g) /\ Sealed(g) /\ Shaped(g) /\ g.id = id
      /\ \A j \in 1..6 : g.data[j] = data[j]
  <2>1. data \in Payload /\ Counted(m)
    BY DEF Payload, Counted
  <2>2. Whole(g, FrameId(m), data)
    BY <1>4, <1>6, <2>1, FrameSealed
  <2> QED BY <1>4, <2>2 DEF Whole
<1>8. ASSUME NEW i \in 1..n PROVE Stored(g.data, m, i)
  <2>1. Stored(data, m, i)
    BY <1>1, <1>2, AllStored
  <2>2. PICK new : new = g.data
    OBVIOUS
  <2>3. \A j \in 1..6 : new[j] = data[j]
    BY <1>7, <2>2
  <2>4. Stored(new, m, i)
    BY <2>1, <2>3, StoredSame, Zenon
  <2> QED BY <2>2, <2>4
<1> QED BY <1>4, <1>5, <1>7, <1>8

-----------------------------------------------------------------------------
(* What is made of a frame.                                                  *)

\* A message with n fields, as the senders make them.
Sound(m, n) ==
  /\ m.type \in Types /\ n \in 1..6 /\ Laid(m.type, n)
  /\ DOMAIN m.fields = 1..n /\ Len(m.fields) = n
  /\ \A i \in 1..n : Fits(KindAt(m.type, i), m.fields[i])
  /\ Counted(m) /\ m.index \in 0..3 /\ (m.type # "module" => m.index = 0)
Expects(m) == [i \in DOMAIN m.fields |-> Nearest(Packed[m.type][i][1], m.fields[i])]

\* The values the senders may pick, of any Numbers, Bytes and Counts.
LEMMA ValueFits ==
  ASSUME NEW kind \in FieldKinds, NEW v \in FieldValues(kind)
  PROVE  Fits(kind, v)
<1>1. CASE kind = "u8"
  <2>1. PICK b \in Bytes : v = <<b>>
    BY <1>1 DEF FieldValues
  <2>2. b \in 0..255
    BY BaseCodecAssumption
  <2> QED BY <1>1, <2>1, <2>2 DEF Fits
<1>2. CASE kind = "u16"
  <2>1. v = <<0>> \/ v = <<Key>>
    BY <1>2 DEF FieldValues
  <2>2. Key \in Nat /\ Key < 256 * 256 /\ 0 \in Nat /\ 0 < 256 * 256
    BY DEF Key
  <2> HIDE DEF Key
  <2> QED BY <1>2, <2>1, <2>2 DEF Fits
<1>3. CASE kind = "u32"
  <2>1. PICK x \in Nat : x < 256 * 256 * 256 * 256 /\ v = <<x>>
    <3>1. v = <<0>> \/ v = <<305419896>>
      BY <1>3 DEF FieldValues
    <3> QED BY <3>1
  <2> QED BY <1>3, <2>1 DEF Fits
<1>4. CASE kind \in {"i16", "sat"}
  <2>1. v \in {NaN, PlusInf, MinusInf} \/ \E x \in Numbers : v = <<x>>
    BY <1>4 DEF FieldValues
  <2>2. Numbers \subseteq Int
    BY BaseCodecAssumption
  <2> QED BY <1>4, <2>1, <2>2 DEF Fits, Scaled
<1> QED BY <1>1, <1>2, <1>3, <1>4 DEF FieldKinds

LEMMA SampleFits ==
  ASSUME NEW t \in Types, NEW n \in 1..6, Laid(t, n), NEW v \in Samples(t)
  PROVE  DOMAIN v = 1..n /\ Len(v) = n /\ \A i \in 1..n : Fits(KindAt(t, i), v[i])
<1>1. PICK X : v \in [1..n -> X]
  BY DEF Samples, Laid
<1>2. DOMAIN v = 1..n /\ Len(v) = n
  <2>1. v \in Seq(X)
    BY <1>1, SeqDef
  <2>2. DOMAIN v = 1..Len(v) /\ Len(v) \in Nat
    BY <2>1, LenProperties
  <2>3. DOMAIN v = 1..n
    BY <1>1
  <2>4. PICK k \in Nat : k = Len(v)
    BY <2>2, Zenon
  <2>5. 1..k = 1..n
    BY <2>2, <2>3, <2>4, Zenon
  <2>6. k = n
    BY <2>5
  <2> QED BY <2>3, <2>4, <2>6
<1>3. ASSUME NEW i \in 1..n PROVE Fits(KindAt(t, i), v[i])
  <2>1. DOMAIN Packed[t] = 1..n /\ KindAt(t, i) \in FieldKinds
    BY DEF Laid
  <2>2. v[i] \in FieldValues(KindAt(t, i)) \/ (KindAt(t, i) = "u8" /\ v[i] = <<i>>)
    BY <1>2, <2>1 DEF Samples, KindAt
  <2>3. CASE KindAt(t, i) = "u8" /\ v[i] = <<i>>
    <3>1. i \in 0..255
      OBVIOUS
    <3> QED BY <2>3, <3>1 DEF Fits
  <2> QED BY <2>1, <2>2, <2>3, ValueFits
<1> QED BY <1>2, <1>3

LEMMA MessageSound ==
  ASSUME NEW t \in Types, NEW v \in Samples(t), NEW c \in Counts,
         NEW k \in IF t = "module" THEN 0..3 ELSE {0},
         NEW m, m = [type |-> t, fields |-> v, counter |-> c, index |-> k]
  PROVE  \E n \in 1..6 : Sound(m, n)
<1>1. PICK n \in 1..6 : Laid(t, n)
  BY AllLaid
<1>2. DOMAIN v = 1..n /\ Len(v) = n /\ \A i \in 1..n : Fits(KindAt(t, i), v[i])
  BY <1>1, SampleFits
<1>3. m.type = t /\ m.fields = v /\ m.counter = c /\ m.index = k
  OBVIOUS
<1>4. c \in 0..255
  BY BaseCodecAssumption
<1>5. k \in 0..3 /\ (t # "module" => k = 0)
  OBVIOUS
<1>6. Sound(m, n)
  BY <1>1, <1>2, <1>3, <1>4, <1>5 DEF Sound, Counted
<1> QED BY <1>6

LEMMA SoundEncoded ==
  ASSUME NEW m, NEW n, Sound(m, n), NEW f, f = Encode(m)
  PROVE  /\ Bytewise(f) /\ Sealed(f) /\ Shaped(f) /\ f.id = IdOf(m.type) + m.index
         /\ \A i \in 1..n : Stored(f.data, m, i)
<1>1. /\ n \in 1..6 /\ m.type \in Types /\ Laid(m.type, n) /\ Len(m.fields) = n
      /\ \A i \in 1..n : Fits(KindAt(m.type, i), m.fields[i])
      /\ m.counter \in 0..255 /\ m.index \in 0..3
  BY DEF Sound, Counted
<1> QED BY <1>1, EncodeHolds

\* Field by field, what is read is what was meant.
LEMMA RoundTrip ==
  ASSUME NEW m, NEW n, Sound(m, n), NEW f, f = Encode(m)
  PROVE  [i \in DOMAIN Unpacked[m.type] |->
            Get(f.data, Unpacked[m.type][i][1], Unpacked[m.type][i][2])] = Expects(m)
<1>1. n \in 1..6 /\ Laid(m.type, n) /\ DOMAIN m.fields = 1..n
      /\ \A i \in 1..n : Fits(KindAt(m.type, i), m.fields[i])
  BY DEF Sound
<1>2. DOMAIN Unpacked[m.type] = 1..n
  BY <1>1 DEF Laid
<1>3. PICK data \in [1..8 -> 0..255] : data = f.data
  BY SoundEncoded DEF Bytewise
<1>4. ASSUME NEW i \in 1..n
      PROVE  Get(data, Unpacked[m.type][i][1], Unpacked[m.type][i][2])
               = Nearest(Packed[m.type][i][1], m.fields[i])
  <2>1. PICK kind \in FieldKinds, at \in 0..5, v \in {m.fields[i]} :
          /\ kind = KindAt(m.type, i) /\ at = At(m.type, i) /\ v = m.fields[i]
          /\ at + Size(kind) <= 6
          /\ Unpacked[m.type][i][1] = ReadAs(kind) /\ Unpacked[m.type][i][2] = at
    BY <1>1, Zenon DEF Laid
  <2>2. Fits(kind, v)
    BY <1>1, <2>1
  <2>3. Stored(data, m, i)
    BY <1>3, SoundEncoded
  <2>4. \A b \in 0..(Size(kind) - 1) : data[at + 1 + b] = Part(Raw(kind, v), b)
    BY <2>1, <2>3 DEF Stored
  <2>5. Get(data, ReadAs(kind), at) = Nearest(kind, v)
    BY <2>1, <2>2, <2>4, GetIs
  <2> QED BY <2>1, <2>5 DEF KindAt
<1> QED BY <1>1, <1>2, <1>3, <1>4 DEF Expects

\* Its own decoder takes a whole frame; no other does; and none a broken one.
LEMMA DecodeOwn ==
  ASSUME NEW m, NEW n, Sound(m, n), NEW f, f = Encode(m)
  PROVE  Decode(f, m.type) = IF Admits(m.type, Expects(m)) THEN Expects(m) ELSE Nothing
<1>1. PICK v : v = [i \in DOMAIN Unpacked[m.type] |->
                      Get(f.data, Unpacked[m.type][i][1], Unpacked[m.type][i][2])]
  OBVIOUS
<1>2. v = Expects(m)
  BY <1>1, RoundTrip
<1>3. f.id \in IdsOf(m.type)
  <2>1. f.id = IdOf(m.type) + m.index
    BY SoundEncoded
  <2>2. m.type \in Types /\ m.index \in 0..3 /\ (m.type # "module" => m.index = 0)
    BY DEF Sound
  <2>3. IdOf(m.type) \in 256..544
    BY <2>2, IdIs
  <2> QED BY <2>1, <2>2, <2>3 DEF IdsOf
<1>4. Sealed(f)
  BY SoundEncoded
<1>5. DecodableAs(f, m.type)
  BY <1>3, <1>4 DEF DecodableAs, Sealed
<1>6. Decode(f, m.type) = IF DecodableAs(f, m.type) /\ Admits(m.type, v) THEN v ELSE Nothing
  BY <1>1 DEF Decode
<1> QED BY <1>2, <1>5, <1>6

LEMMA InNat == \A x : x \in 256..544 => x \in Nat
OBVIOUS

LEMMA DecodeOther ==
  ASSUME NEW m, NEW n, Sound(m, n), NEW f, f = Encode(m), NEW t \in Types, t # m.type
  PROVE  Decode(f, t) = Nothing
<1>1. PICK s \in Types, k \in 0..3 : s = m.type /\ k = m.index /\ (s # "module" => k = 0)
  BY DEF Sound
<1>2. f.id = IdOf(s) + k
  BY <1>1, SoundEncoded
<1>3. PICK a \in Nat, b \in Nat : a = IdOf(s) /\ b = IdOf(t) /\ a # b
  <2>1. IdOf(s) \in 256..544 /\ IdOf(t) \in 256..544 /\ IdOf(s) # IdOf(t)
    BY <1>1, IdIs
  <2>2. IdOf(s) \in Nat /\ IdOf(t) \in Nat
    BY <2>1, InNat, Zenon
  <2> QED BY <2>1, <2>2, Zenon
<1>4. (s = "module" => a = 544) /\ (s # "module" => a <= 518)
  BY <1>3, IdIs
<1>5. (t = "module" => b = 544) /\ (t # "module" => b <= 518)
  BY <1>3, IdIs
<1>6. f.id \notin IdsOf(t)
  BY <1>1, <1>2, <1>3, <1>4, <1>5 DEF IdsOf
<1> QED BY <1>6 DEF Decode, DecodableAs

LEMMA DecodeBroken ==
  ASSUME NEW f, ~Sealed(f), NEW t
  PROVE  Decode(f, t) = Nothing
BY DEF Decode, DecodableAs, Sealed

LEMMA ExpectsSome ==
  ASSUME NEW m, NEW n, Sound(m, n)
  PROVE  Expects(m) # Nothing
<1>1. DOMAIN Expects(m) = 1..n /\ n \in 1..6
  BY DEF Expects, Sound
<1>2. 1 \in DOMAIN Expects(m)
  BY <1>1
<1>3. DOMAIN Nothing = {}
  BY DEF Nothing
<1> QED BY <1>2, <1>3

\* The client stores it under its type, and passes a module's frame on.
LEMMA ClientStores ==
  ASSUME NEW m, NEW n, Sound(m, n), NEW f, f = Encode(m), m.type \in States,
         Admits(m.type, Expects(m))
  PROVE  ClientOnFrame(f) = <<m.type, Expects(m)>>
<1>1. PICK t \in Types : t = m.type /\ t \in States
  BY DEF Sound
<1>2. f.id = IdOf(t)
  <2>1. t # "module"
    BY <1>1 DEF States
  <2>2. m.index = 0
    BY <1>1, <2>1 DEF Sound
  <2>3. f.id = IdOf(t) + 0
    BY <1>1, <2>2, SoundEncoded
  <2>4. IdOf(t) \in 256..544
    BY IdIs
  <2> QED BY <2>3, <2>4
<1>3. ~IsModelId(f.id)
  <2>1. PICK id \in Nat : id = IdOf(t) /\ id >= 512 /\ id <= 518
    <3>1. IdOf(t) \in 512..518
      BY <1>1, IdIs
    <3> QED BY <3>1
  <2> QED BY <1>2, <2>1 DEF IsModelId
<1>4. Decode(f, t) = Expects(m) /\ Expects(m) # Nothing
  BY <1>1, DecodeOwn, ExpectsSome
<1>5. {s \in States : f.id = IdOf(s) /\ Decode(f, s) # Nothing} = {t}
  <2>1. \A s \in States : s \in Types
    BY DEF States, Types, Packed
  <2>2. \A s \in States : s # t => IdOf(s) # IdOf(t)
    BY <2>1, IdIs
  <2> QED BY <1>1, <1>2, <1>4, <2>2
<1>6. ClientOnFrame(f) = <<t, Decode(f, t)>>
  BY <1>3, <1>5 DEF ClientOnFrame
<1> QED BY <1>1, <1>4, <1>6

LEMMA ClientPasses ==
  ASSUME NEW m, NEW n, Sound(m, n), NEW f, f = Encode(m), m.type = "module"
  PROVE  ClientOnFrame(f)[1] = "model" /\ f.id - 544 = m.index
<1>1. PICK k \in 0..3 : k = m.index
  BY DEF Sound
<1>2. IdOf("module") = 544
  BY DEF IdOf
<1>3. f.id = 544 + k
  BY <1>1, <1>2, SoundEncoded
<1>4. IsModelId(f.id)
  BY <1>3 DEF IsModelId
<1>5. ClientOnFrame(f) = <<"model", f>>
  BY <1>4 DEF ClientOnFrame
<1> QED BY <1>1, <1>3, <1>5

-----------------------------------------------------------------------------
(* A frame on the bus.                                                       *)

\* Whole and as it was encoded, or with a CRC that does not fit.
CodecInv ==
  which = "codec" =>
    /\ spoilt \in BOOLEAN
    /\ \E n \in 1..6 : Sound(message, n)
    /\ IF spoilt THEN ~Sealed(frame) ELSE frame = Encode(message)

\* A damaged byte is another byte.
LEMMA DamagedDiffers ==
  ASSUME NEW b \in 0..255, NEW c \in Damaged(b, Flips)
  PROVE  c \in 0..255 /\ c # b
<1>1. Flips \subseteq (SUBSET Byte) \ {{}}
  BY BaseCodecAssumption
<1> QED BY <1>1, DamagedIs, Zenon

\* What Spoil makes of a frame.
Spoils(f, g) ==
  \/ \E i \in 1..8 : \E b \in Damaged(f.data[i], Flips) : g = [f EXCEPT !.data[i] = b]
  \/ \E b \in Damaged(f.id % 256, Flips) : g = [f EXCEPT !.id = @ - (@ % 256) + b]
  \/ \E b \in Damaged(f.id \div 256, Flips) : g = [f EXCEPT !.id = 256 * b + (@ % 256)]

LEMMA SpoiltByte ==
  ASSUME NEW f, Bytewise(f), Shaped(f), NEW g, Spoils(f, g)
  PROVE  OtherByte(f, g)
<1>1. PICK id, data : f = [id |-> id, data |-> data]
  BY Zenon DEF Shaped
<1>2. f.id = id /\ f.data = data
  BY <1>1
<1>3. Word16(f.id) /\ f.data \in [1..8 -> 0..255]
  BY Zenon DEF Bytewise
<1>4. ASSUME NEW i \in 1..8, NEW b \in Damaged(f.data[i], Flips), g = [f EXCEPT !.data[i] = b]
      PROVE  OtherByte(f, g)
  <2>1. f.data[i] \in 0..255
    BY <1>3
  <2>2. b \in 0..255 /\ b # f.data[i]
    BY <1>4, <2>1, DamagedDiffers, Zenon
  <2>3. g.id = f.id /\ g.data = [f.data EXCEPT ![i] = b]
    BY <1>1, <1>2, <1>4
  <2> QED BY <1>4, <2>2, <2>3, Zenon DEF OtherByte
<1>5. ASSUME NEW b \in Damaged(f.id % 256, Flips), g = [f EXCEPT !.id = @ - (@ % 256) + b]
      PROVE  OtherByte(f, g)
  <2>1. f.id % 256 = Low(f.id) /\ Low(f.id) \in 0..255
    BY <1>3, Halves, Zenon DEF Low
  <2>2. b \in 0..255 /\ b # Low(f.id)
    BY <1>5, <2>1, DamagedDiffers, Zenon
  <2>3. g.data = f.data /\ g.id = f.id - Low(f.id) + b
    BY <1>1, <1>2, <1>5 DEF Low
  <2> QED BY <2>2, <2>3, Zenon DEF OtherByte
<1>6. ASSUME NEW b \in Damaged(f.id \div 256, Flips), g = [f EXCEPT !.id = 256 * b + (@ % 256)]
      PROVE  OtherByte(f, g)
  <2>1. f.id \div 256 = High(f.id) /\ High(f.id) \in 0..255
    BY <1>3, Halves, Zenon DEF High
  <2>2. b \in 0..255 /\ b # High(f.id)
    BY <1>6, <2>1, DamagedDiffers, Zenon
  <2>3. g.data = f.data /\ g.id = Both(b, Low(f.id))
    BY <1>1, <1>2, <1>6 DEF Low, Both
  <2> QED BY <2>2, <2>3, Zenon DEF OtherByte
<1> QED BY <1>4, <1>5, <1>6, Zenon DEF Spoils

LEMMA OwnMeans ==
  ASSUME NEW m, NEW n, Sound(m, n), NEW f, f = Encode(m)
  PROVE  /\ \A t \in Types :
              Decode(f, t) = IF t = m.type /\ Admits(t, Expects(m)) THEN Expects(m) ELSE Nothing
         /\ m.type \in States /\ Admits(m.type, Expects(m)) => ClientOnFrame(f) = <<m.type, Expects(m)>>
         /\ m.type = "module" => ClientOnFrame(f)[1] = "model" /\ f.id - 544 = m.index
<1>1. ASSUME NEW t \in Types
      PROVE  Decode(f, t) = IF t = m.type /\ Admits(t, Expects(m)) THEN Expects(m) ELSE Nothing
  <2>1. CASE t = m.type
    BY <2>1, DecodeOwn
  <2>2. CASE t # m.type
    BY <2>2, DecodeOther
  <2> QED BY <2>1, <2>2
<1>2. ASSUME m.type \in States, Admits(m.type, Expects(m))
      PROVE  ClientOnFrame(f) = <<m.type, Expects(m)>>
  BY <1>2, ClientStores
<1>3. ASSUME m.type = "module" PROVE ClientOnFrame(f)[1] = "model" /\ f.id - 544 = m.index
  BY <1>3, ClientPasses
<1> QED BY <1>1, <1>2, <1>3

\* The emergency stop is cleared with the key alone.
LEMMA ClearsWithKey ==
  ASSUME NEW f, Decode(f, "estop") # Nothing, Decode(f, "estop")[1] = 2
  PROVE  Decode(f, "estop")[2] = Key
<1>1. PICK v : /\ v = [i \in DOMAIN Unpacked["estop"] |->
                         Get(f.data, Unpacked["estop"][i][1], Unpacked["estop"][i][2])]
               /\ Decode(f, "estop") = IF DecodableAs(f, "estop") /\ Admits("estop", v) THEN v ELSE Nothing
  BY DEF Decode
<1>2. Decode(f, "estop") = v /\ Admits("estop", v)
  BY <1>1
<1>3. Admits("estop", v) <=> (v[1] = 1 \/ (v[1] = 2 /\ v[2] = Key))
  BY DEF Admits
<1> QED BY <1>2, <1>3

LEMMA CodecMeans == CodecInv => FramesAgree
<1> SUFFICES ASSUME CodecInv, which = "codec" PROVE FramesMeanOneThing
  BY DEF FramesAgree
<1>1. PICK n \in 1..6 : Sound(message, n)
  BY DEF CodecInv
<1>2. Meant = Expects(message)
  BY DEF Meant, Expects
<1>3. message.type = "estop" /\ Decode(frame, "estop") # Nothing /\ Decode(frame, "estop")[1] = 2
        => Decode(frame, "estop")[2] = Key
  BY ClearsWithKey
<1>4. CASE spoilt
  <2>1. ~Sealed(frame)
    BY <1>4 DEF CodecInv
  <2>2. \A t \in Types : Decode(frame, t) = Nothing
    BY <2>1, DecodeBroken
  <2> QED BY <1>3, <1>4, <2>2 DEF FramesMeanOneThing
<1>5. CASE ~spoilt
  <2>1. frame = Encode(message)
    BY <1>5 DEF CodecInv
  <2>2. /\ \A t \in Types :
             Decode(frame, t) = IF t = message.type /\ Admits(t, Expects(message))
                                THEN Expects(message) ELSE Nothing
        /\ message.type \in States /\ Admits(message.type, Expects(message))
             => ClientOnFrame(frame) = <<message.type, Expects(message)>>
        /\ message.type = "module"
             => ClientOnFrame(frame)[1] = "model" /\ frame.id - 544 = message.index
    BY <1>1, <2>1, OwnMeans
  <2> QED BY <1>2, <1>3, <1>5, <2>2 DEF FramesMeanOneThing
<1> QED BY <1>4, <1>5

LEMMA CodecStarts == MCInit => CodecInv
<1> SUFFICES ASSUME MCInit, which = "codec" PROVE CodecInv
  BY DEF CodecInv
<1>1. CodecInit
  BY DEF MCInit
<1>2. PICK t \in Types : \E v \in Samples(t), c \in Counts, k \in IF t = "module" THEN 0..3 ELSE {0} :
        message = [type |-> t, fields |-> v, counter |-> c, index |-> k]
  BY <1>1 DEF CodecInit
<1>3. \E n \in 1..6 : Sound(message, n)
  BY <1>2, MessageSound
<1> QED BY <1>1, <1>3 DEF CodecInit, CodecInv
LEMMA CodecSteps == CodecInv /\ [MCNext]_BaseVars => CodecInv'
<1> SUFFICES ASSUME CodecInv, [MCNext]_BaseVars, which = "codec" PROVE CodecInv'
  BY DEF CodecInv, MCNext, BaseVars
<1>1. CASE UNCHANGED codecVars
  <2>1. spoilt' = spoilt /\ message' = message /\ frame' = frame
    BY <1>1 DEF codecVars
  <2>2. PICK m, f : m = message /\ f = frame
    OBVIOUS
  <2>3. m = message' /\ f = frame'
    BY <2>1, <2>2
  <2>4. spoilt \in BOOLEAN /\ (\E n \in 1..6 : Sound(m, n))
        /\ IF spoilt THEN ~Sealed(f) ELSE f = Encode(m)
    BY <2>2 DEF CodecInv
  <2> QED BY <2>1, <2>3, <2>4 DEF CodecInv
<1>2. CASE Spoil
  <2>1. PICK m, f, g : m = message /\ f = frame /\ g = frame'
    OBVIOUS
  <2>2. PICK n \in 1..6 : Sound(m, n)
    BY <2>1 DEF CodecInv
  <2>3. ~spoilt /\ spoilt' = TRUE /\ m = message'
    BY <1>2, <2>1 DEF Spoil
  <2>4. f = Encode(m)
    BY <2>1, <2>3 DEF CodecInv
  <2>5. Bytewise(f) /\ Sealed(f) /\ Shaped(f)
    BY <2>2, <2>4, SoundEncoded
  <2>6. Spoils(f, g)
    BY <1>2, <2>1 DEF Spoil, Spoils
  <2>7. ~Sealed(g)
    BY <2>5, <2>6, SpoiltByte, SealBreaks, Zenon
  <2> QED BY <2>1, <2>2, <2>3, <2>7 DEF CodecInv
<1> QED BY <1>1, <1>2 DEF MCNext, BaseVars, CodecNext

(* What Encode and StampE2e make of any value of any field, the extremes and what
   is no number among them, Decode reads as the nearest value that fits, at its own
   id only; and DecodableAs refuses a frame of which any one byte came out
   different, however many of its bits.                                      *)
THEOREM FramesMean == MCSpec => []FramesAgree
<1> QED BY CodecStarts, CodecSteps, CodecMeans, PTL DEF MCSpec, BaseVars
=============================================================================
