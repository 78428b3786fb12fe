------------------------ MODULE WireFormatDataProofs ------------------------
(***************************************************************************)
(* The data of the interpreter, for every accepted table, every string and *)
(* every input: indexes stay in their arrays, the windows of nested rows   *)
(* inside the caller's buffers, captured slices inside the input; an       *)
(* overrun ends the whole parse and no fault is forgotten.                 *)
(*                                                                         *)
(* Evolves says what every handler keeps of a machine, one lemma for each  *)
(* helper the handlers are made of.  DataInv puts the machines of the      *)
(* nested contexts, their rows and the caller's lists together.            *)
(***************************************************************************)
EXTENDS WireFormatProofs

\* The fields of a wi_vars_t, with h record lists to point to.
MachineRec(h) ==
  [encode : BOOLEAN, fstack : Seq(Word), params : [Slots -> Word], vars : [Vars -> Word],
   slices : [Slots -> Slice], lists : [Slots -> 0..h], out : Seq(Byte), out_size : Nat,
   in : Nat, in_size : Nat, in_pos : Nat, bit_acc : Byte, in_acc : Byte,
   in_loaded : BOOLEAN, faults : SUBSET FaultBits, overrun : BOOLEAN]

\* A slice of a context whose cursor is at end.
SliceOK(j, s, end) ==
  IF j.encode THEN InMemory(s, j.mem)
              ELSE s.data = NULL \/ (j.in <= s.data /\ s.data + s.length <= end)

SlicesOK(j, f, end) == \A x \in Slots : SliceOK(j, f[x], end)

Sound(j, w) ==
  /\ w \in MachineRec(Len(j.heap))
  /\ w.encode = j.encode
  /\ Len(w.fstack) <= STACK_DEPTH /\ Len(w.out) <= w.out_size /\ w.in_pos <= w.in_size
  /\ j.in \in Nat /\ j.in_size \in Nat
  /\ j.in <= w.in /\ w.in + w.in_size = j.in + j.in_size
  /\ ~j.encode => w.out_size = 0
  /\ SlicesOK(j, w.slices, w.in + w.in_pos)

\* What a handler may do to a machine.
Evolves(j, w, v) ==
  /\ Sound(j, v)
  /\ v.out_size = w.out_size /\ v.in = w.in /\ w.in_pos <= v.in_pos
  /\ w.faults \subseteq v.faults /\ (w.overrun => v.overrun)

-----------------------------------------------------------------------------
(* Numbers                                                                   *)

LEMMA Powers ==
  /\ WordBits \in Nat /\ WordBits >= 8 /\ IntBits \in Nat /\ BYTE_BITS \in 2..WordBits
  /\ Base \in Nat \ {0} /\ Group \in Nat \ {0} /\ Base = 2 * Group
  /\ Modulus \in Nat \ {0} /\ 2^(WordBits - 1) \in Nat \ {0} /\ 2^(WordBits - 1) >= 2
<1>1. WORD_BYTES \in Nat \ {0} /\ WORD_BYTES >= 4 /\ BYTE_BITS \in Nat /\ BYTE_BITS >= 2
  BY WordBytesAssumption, ByteBitsAssumption, QuartersAssumption
<1>2. WordBits \in Nat /\ WordBits >= 8 /\ WordBits >= BYTE_BITS
  <2>1. \A a, b \in Nat : a >= 4 /\ b >= 2 => a * b >= 8 /\ a * b >= b
    OBVIOUS
  <2> QED BY <1>1, <2>1 DEF WordBits
<1>3. IntBits \in Nat
  BY <1>2 DEF IntBits
<1>4. \A b \in 0..WordBits : 2^b \in Nat \ {0} /\ 2^(b + 1) = 2 * 2^b
  <2>1. \A b \in 0..WordBits : b \in 0..WordBits + BYTE_BITS
    BY <1>1, <1>2
  <2> QED BY <2>1, PowersAssumption
<1>5. BYTE_BITS \in 0..WordBits /\ BYTE_BITS - 1 \in 0..WordBits /\ (BYTE_BITS - 1) + 1 = BYTE_BITS
  BY <1>1, <1>2
<1>6. /\ WordBits \in 0..WordBits /\ WordBits - 1 \in 0..WordBits /\ WordBits - 2 \in 0..WordBits
      /\ (WordBits - 2) + 1 = WordBits - 1
  BY <1>2
<1>7. Base \in Nat \ {0} /\ Group \in Nat \ {0}
  BY <1>4, <1>5 DEF Base, Group
<1>8. Base = 2 * Group
  BY <1>4, <1>5 DEF Base, Group
<1>9. 2^(WordBits - 1) \in Nat \ {0} /\ Modulus \in Nat \ {0}
  BY <1>4, <1>6 DEF Modulus
<1>10. 2^(WordBits - 2) \in Nat \ {0} /\ 2^(WordBits - 1) = 2 * 2^(WordBits - 2)
  BY <1>4, <1>6
<1>11. 2^(WordBits - 1) >= 2
  BY <1>10
<1> QED BY <1>1, <1>2, <1>3, <1>5, <1>7, <1>8, <1>9, <1>11

\* A word holds zero, one, and every number between two words.
LEMMA Words_ ==
  /\ Word \subseteq Int /\ 0 \in Word /\ 1 \in Word
  /\ \A a \in Word : a > 0 => a - 1 \in Word
  /\ Byte \subseteq Int /\ 0 \in Byte
  /\ \A n : Int64(n) \in Word
<1>1. 2^(WordBits - 1) \in Nat \ {0} /\ 2^(WordBits - 1) >= 2 /\ Base \in Nat \ {0}
  BY Powers
<1>2. 0 \in Word
  BY <1>1 DEF Word
<1>3. \A n : Int64(n) \in Word
  BY <1>2 DEF Int64
<1> QED BY <1>1, <1>2, <1>3 DEF Word, Byte

-----------------------------------------------------------------------------
(* The helpers                                                               *)

\* What has to be looked at when a machine has changed.
LEMMA Evolved ==
  ASSUME NEW j, NEW w, NEW v, Sound(j, w), v \in MachineRec(Len(j.heap)),
         v.encode = w.encode, v.out_size = w.out_size, v.in = w.in, v.in_size = w.in_size,
         Len(v.fstack) <= STACK_DEPTH, Len(v.out) <= v.out_size,
         w.in_pos <= v.in_pos, v.in_pos <= v.in_size,
         w.faults \subseteq v.faults, w.overrun => v.overrun,
         SlicesOK(j, v.slices, v.in + v.in_pos)
  PROVE  Evolves(j, w, v)
<1>1. /\ w.encode = j.encode /\ j.in <= w.in /\ w.in + w.in_size = j.in + j.in_size
      /\ j.in \in Nat /\ j.in_size \in Nat /\ (~j.encode => w.out_size = 0)
  BY DEF Sound
<1>2. /\ v.encode = j.encode /\ j.in <= v.in /\ v.in + v.in_size = j.in + j.in_size
      /\ j.in \in Nat /\ j.in_size \in Nat /\ (~j.encode => v.out_size = 0)
  BY <1>1
<1>3. Sound(j, v)
  BY <1>2 DEF Sound
<1> QED BY <1>3 DEF Evolves

LEMMA EvolvesRefl ==
  ASSUME NEW j, NEW w, Sound(j, w)
  PROVE  Evolves(j, w, w)
<1>1. w.in_pos \in Nat
  BY DEF Sound, MachineRec
<1> QED BY <1>1 DEF Evolves

LEMMA EvolvesOn ==
  ASSUME NEW j, NEW u, NEW v, NEW w, Sound(j, u), Evolves(j, u, v), Evolves(j, v, w)
  PROVE  Evolves(j, u, w)
<1>1. Sound(j, v) /\ Sound(j, w)
  BY DEF Evolves
<1>2. u.in_pos \in Nat /\ v.in_pos \in Nat /\ w.in_pos \in Nat
  BY <1>1 DEF Sound, MachineRec
<1>3. /\ v.out_size = u.out_size /\ v.in = u.in /\ u.in_pos <= v.in_pos
      /\ u.faults \subseteq v.faults /\ (u.overrun => v.overrun)
  BY DEF Evolves
<1>4. /\ w.out_size = v.out_size /\ w.in = v.in /\ v.in_pos <= w.in_pos
      /\ v.faults \subseteq w.faults /\ (v.overrun => w.overrun)
  BY DEF Evolves
<1>5. u.in_pos <= w.in_pos
  BY <1>2, <1>3, <1>4
<1>6. /\ w.out_size = u.out_size /\ w.in = u.in
      /\ u.faults \subseteq w.faults /\ (u.overrun => w.overrun)
  BY <1>3, <1>4
<1> QED BY <1>1, <1>5, <1>6 DEF Evolves

\* One lemma for each field a handler may assign.
LEMMA SetStack ==
  ASSUME NEW j, NEW w, Sound(j, w), NEW s \in Seq(Word), Len(s) <= STACK_DEPTH,
         NEW v, v = [w EXCEPT !.fstack = s]
  PROVE  Evolves(j, w, v)
<1>1. w \in MachineRec(Len(j.heap))
  BY DEF Sound
<1>2. v \in MachineRec(Len(j.heap))
  BY <1>1 DEF MachineRec
<1>3. /\ v.encode = w.encode /\ v.slices = w.slices /\ v.lists = w.lists
      /\ v.out = w.out /\ v.out_size = w.out_size /\ v.in = w.in
      /\ v.in_size = w.in_size /\ v.in_pos = w.in_pos /\ v.faults = w.faults
      /\ v.overrun = w.overrun
      /\ v.fstack = s
  BY <1>1 DEF MachineRec
<1>4. w.in_pos \in Nat /\ Len(w.fstack) <= STACK_DEPTH /\ Len(w.out) <= w.out_size
      /\ w.in_pos <= w.in_size /\ SlicesOK(j, w.slices, w.in + w.in_pos)
  BY <1>1 DEF Sound, MachineRec
<1>5. /\ Len(v.fstack) <= STACK_DEPTH /\ Len(v.out) <= v.out_size
      /\ w.in_pos <= v.in_pos /\ v.in_pos <= v.in_size
      /\ w.faults \subseteq v.faults /\ (w.overrun => v.overrun)
  BY <1>3, <1>4
<1>6. SlicesOK(j, v.slices, v.in + v.in_pos)
  BY <1>3, <1>4
<1> QED BY <1>2, <1>3, <1>5, <1>6, Evolved

LEMMA SetOut ==
  ASSUME NEW j, NEW w, Sound(j, w), NEW s \in Seq(Byte), Len(s) <= w.out_size,
         NEW v, v = [w EXCEPT !.out = s]
  PROVE  Evolves(j, w, v)
<1>1. w \in MachineRec(Len(j.heap))
  BY DEF Sound
<1>2. v \in MachineRec(Len(j.heap))
  BY <1>1 DEF MachineRec
<1>3. /\ v.encode = w.encode /\ v.fstack = w.fstack /\ v.slices = w.slices
      /\ v.lists = w.lists /\ v.out_size = w.out_size /\ v.in = w.in
      /\ v.in_size = w.in_size /\ v.in_pos = w.in_pos /\ v.faults = w.faults
      /\ v.overrun = w.overrun
      /\ v.out = s
  BY <1>1 DEF MachineRec
<1>4. w.in_pos \in Nat /\ Len(w.fstack) <= STACK_DEPTH /\ Len(w.out) <= w.out_size
      /\ w.in_pos <= w.in_size /\ SlicesOK(j, w.slices, w.in + w.in_pos)
  BY <1>1 DEF Sound, MachineRec
<1>5. /\ Len(v.fstack) <= STACK_DEPTH /\ Len(v.out) <= v.out_size
      /\ w.in_pos <= v.in_pos /\ v.in_pos <= v.in_size
      /\ w.faults \subseteq v.faults /\ (w.overrun => v.overrun)
  BY <1>3, <1>4
<1>6. SlicesOK(j, v.slices, v.in + v.in_pos)
  BY <1>3, <1>4
<1> QED BY <1>2, <1>3, <1>5, <1>6, Evolved

LEMMA SetOverrun ==
  ASSUME NEW j, NEW w, Sound(j, w), NEW v, v = [w EXCEPT !.overrun = TRUE]
  PROVE  Evolves(j, w, v)
<1>1. w \in MachineRec(Len(j.heap))
  BY DEF Sound
<1>2. v \in MachineRec(Len(j.heap))
  BY <1>1 DEF MachineRec
<1>3. /\ v.encode = w.encode /\ v.fstack = w.fstack /\ v.slices = w.slices
      /\ v.lists = w.lists /\ v.out = w.out /\ v.out_size = w.out_size
      /\ v.in = w.in /\ v.in_size = w.in_size /\ v.in_pos = w.in_pos
      /\ v.faults = w.faults
      /\ v.overrun = TRUE
  BY <1>1 DEF MachineRec
<1>4. w.in_pos \in Nat /\ Len(w.fstack) <= STACK_DEPTH /\ Len(w.out) <= w.out_size
      /\ w.in_pos <= w.in_size /\ SlicesOK(j, w.slices, w.in + w.in_pos)
  BY <1>1 DEF Sound, MachineRec
<1>5. /\ Len(v.fstack) <= STACK_DEPTH /\ Len(v.out) <= v.out_size
      /\ w.in_pos <= v.in_pos /\ v.in_pos <= v.in_size
      /\ w.faults \subseteq v.faults /\ (w.overrun => v.overrun)
  BY <1>3, <1>4
<1>6. SlicesOK(j, v.slices, v.in + v.in_pos)
  BY <1>3, <1>4
<1> QED BY <1>2, <1>3, <1>5, <1>6, Evolved

LEMMA SetVar ==
  ASSUME NEW j, NEW w, Sound(j, w), NEW f \in [Vars -> Word], NEW v, v = [w EXCEPT !.vars = f]
  PROVE  Evolves(j, w, v)
<1>1. w \in MachineRec(Len(j.heap))
  BY DEF Sound
<1>2. v \in MachineRec(Len(j.heap))
  BY <1>1 DEF MachineRec
<1>3. /\ v.encode = w.encode /\ v.fstack = w.fstack /\ v.slices = w.slices
      /\ v.lists = w.lists /\ v.out = w.out /\ v.out_size = w.out_size
      /\ v.in = w.in /\ v.in_size = w.in_size /\ v.in_pos = w.in_pos
      /\ v.faults = w.faults /\ v.overrun = w.overrun
  BY <1>1 DEF MachineRec
<1>4. w.in_pos \in Nat /\ Len(w.fstack) <= STACK_DEPTH /\ Len(w.out) <= w.out_size
      /\ w.in_pos <= w.in_size /\ SlicesOK(j, w.slices, w.in + w.in_pos)
  BY <1>1 DEF Sound, MachineRec
<1>5. /\ Len(v.fstack) <= STACK_DEPTH /\ Len(v.out) <= v.out_size
      /\ w.in_pos <= v.in_pos /\ v.in_pos <= v.in_size
      /\ w.faults \subseteq v.faults /\ (w.overrun => v.overrun)
  BY <1>3, <1>4
<1>6. SlicesOK(j, v.slices, v.in + v.in_pos)
  BY <1>3, <1>4
<1> QED BY <1>2, <1>3, <1>5, <1>6, Evolved

LEMMA SetBits ==
  ASSUME NEW j, NEW w, Sound(j, w), NEW b \in Byte, NEW v, v = [w EXCEPT !.bit_acc = b]
  PROVE  Evolves(j, w, v)
<1>1. w \in MachineRec(Len(j.heap))
  BY DEF Sound
<1>2. v \in MachineRec(Len(j.heap))
  BY <1>1 DEF MachineRec
<1>3. /\ v.encode = w.encode /\ v.fstack = w.fstack /\ v.slices = w.slices
      /\ v.lists = w.lists /\ v.out = w.out /\ v.out_size = w.out_size
      /\ v.in = w.in /\ v.in_size = w.in_size /\ v.in_pos = w.in_pos
      /\ v.faults = w.faults /\ v.overrun = w.overrun
  BY <1>1 DEF MachineRec
<1>4. w.in_pos \in Nat /\ Len(w.fstack) <= STACK_DEPTH /\ Len(w.out) <= w.out_size
      /\ w.in_pos <= w.in_size /\ SlicesOK(j, w.slices, w.in + w.in_pos)
  BY <1>1 DEF Sound, MachineRec
<1>5. /\ Len(v.fstack) <= STACK_DEPTH /\ Len(v.out) <= v.out_size
      /\ w.in_pos <= v.in_pos /\ v.in_pos <= v.in_size
      /\ w.faults \subseteq v.faults /\ (w.overrun => v.overrun)
  BY <1>3, <1>4
<1>6. SlicesOK(j, v.slices, v.in + v.in_pos)
  BY <1>3, <1>4
<1> QED BY <1>2, <1>3, <1>5, <1>6, Evolved

LEMMA SetAhead ==
  ASSUME NEW j, NEW w, Sound(j, w), NEW b \in Byte, NEW v, v = [w EXCEPT !.in_acc = b]
  PROVE  Evolves(j, w, v)
<1>1. w \in MachineRec(Len(j.heap))
  BY DEF Sound
<1>2. v \in MachineRec(Len(j.heap))
  BY <1>1 DEF MachineRec
<1>3. /\ v.encode = w.encode /\ v.fstack = w.fstack /\ v.slices = w.slices
      /\ v.lists = w.lists /\ v.out = w.out /\ v.out_size = w.out_size
      /\ v.in = w.in /\ v.in_size = w.in_size /\ v.in_pos = w.in_pos
      /\ v.faults = w.faults /\ v.overrun = w.overrun
  BY <1>1 DEF MachineRec
<1>4. w.in_pos \in Nat /\ Len(w.fstack) <= STACK_DEPTH /\ Len(w.out) <= w.out_size
      /\ w.in_pos <= w.in_size /\ SlicesOK(j, w.slices, w.in + w.in_pos)
  BY <1>1 DEF Sound, MachineRec
<1>5. /\ Len(v.fstack) <= STACK_DEPTH /\ Len(v.out) <= v.out_size
      /\ w.in_pos <= v.in_pos /\ v.in_pos <= v.in_size
      /\ w.faults \subseteq v.faults /\ (w.overrun => v.overrun)
  BY <1>3, <1>4
<1>6. SlicesOK(j, v.slices, v.in + v.in_pos)
  BY <1>3, <1>4
<1> QED BY <1>2, <1>3, <1>5, <1>6, Evolved

LEMMA SetLoaded ==
  ASSUME NEW j, NEW w, Sound(j, w), NEW b \in BOOLEAN, NEW v, v = [w EXCEPT !.in_loaded = b]
  PROVE  Evolves(j, w, v)
<1>1. w \in MachineRec(Len(j.heap))
  BY DEF Sound
<1>2. v \in MachineRec(Len(j.heap))
  BY <1>1 DEF MachineRec
<1>3. /\ v.encode = w.encode /\ v.fstack = w.fstack /\ v.slices = w.slices
      /\ v.lists = w.lists /\ v.out = w.out /\ v.out_size = w.out_size
      /\ v.in = w.in /\ v.in_size = w.in_size /\ v.in_pos = w.in_pos
      /\ v.faults = w.faults /\ v.overrun = w.overrun
  BY <1>1 DEF MachineRec
<1>4. w.in_pos \in Nat /\ Len(w.fstack) <= STACK_DEPTH /\ Len(w.out) <= w.out_size
      /\ w.in_pos <= w.in_size /\ SlicesOK(j, w.slices, w.in + w.in_pos)
  BY <1>1 DEF Sound, MachineRec
<1>5. /\ Len(v.fstack) <= STACK_DEPTH /\ Len(v.out) <= v.out_size
      /\ w.in_pos <= v.in_pos /\ v.in_pos <= v.in_size
      /\ w.faults \subseteq v.faults /\ (w.overrun => v.overrun)
  BY <1>3, <1>4
<1>6. SlicesOK(j, v.slices, v.in + v.in_pos)
  BY <1>3, <1>4
<1> QED BY <1>2, <1>3, <1>5, <1>6, Evolved

LEMMA SetFaults ==
  ASSUME NEW j, NEW w, Sound(j, w), NEW f \in SUBSET FaultBits, w.faults \subseteq f,
         NEW v, v = [w EXCEPT !.faults = f]
  PROVE  Evolves(j, w, v)
<1>1. w \in MachineRec(Len(j.heap))
  BY DEF Sound
<1>2. v \in MachineRec(Len(j.heap))
  BY <1>1 DEF MachineRec
<1>3. /\ v.encode = w.encode /\ v.fstack = w.fstack /\ v.slices = w.slices
      /\ v.lists = w.lists /\ v.out = w.out /\ v.out_size = w.out_size
      /\ v.in = w.in /\ v.in_size = w.in_size /\ v.in_pos = w.in_pos
      /\ v.overrun = w.overrun
      /\ v.faults = f
  BY <1>1 DEF MachineRec
<1>4. w.in_pos \in Nat /\ Len(w.fstack) <= STACK_DEPTH /\ Len(w.out) <= w.out_size
      /\ w.in_pos <= w.in_size /\ SlicesOK(j, w.slices, w.in + w.in_pos)
  BY <1>1 DEF Sound, MachineRec
<1>5. /\ Len(v.fstack) <= STACK_DEPTH /\ Len(v.out) <= v.out_size
      /\ w.in_pos <= v.in_pos /\ v.in_pos <= v.in_size
      /\ w.faults \subseteq v.faults /\ (w.overrun => v.overrun)
  BY <1>3, <1>4
<1>6. SlicesOK(j, v.slices, v.in + v.in_pos)
  BY <1>3, <1>4
<1> QED BY <1>2, <1>3, <1>5, <1>6, Evolved

LEMMA SetSlices ==
  ASSUME NEW j, NEW w, Sound(j, w), NEW f \in [Slots -> Slice],
         SlicesOK(j, f, w.in + w.in_pos), NEW v, v = [w EXCEPT !.slices = f]
  PROVE  Evolves(j, w, v)
<1>1. w \in MachineRec(Len(j.heap))
  BY DEF Sound
<1>2. v \in MachineRec(Len(j.heap))
  BY <1>1 DEF MachineRec
<1>3. /\ v.encode = w.encode /\ v.fstack = w.fstack /\ v.lists = w.lists
      /\ v.out = w.out /\ v.out_size = w.out_size /\ v.in = w.in
      /\ v.in_size = w.in_size /\ v.in_pos = w.in_pos /\ v.faults = w.faults
      /\ v.overrun = w.overrun
      /\ v.slices = f
  BY <1>1 DEF MachineRec
<1>4. w.in_pos \in Nat /\ Len(w.fstack) <= STACK_DEPTH /\ Len(w.out) <= w.out_size
      /\ w.in_pos <= w.in_size /\ SlicesOK(j, w.slices, w.in + w.in_pos)
  BY <1>1 DEF Sound, MachineRec
<1>5. /\ Len(v.fstack) <= STACK_DEPTH /\ Len(v.out) <= v.out_size
      /\ w.in_pos <= v.in_pos /\ v.in_pos <= v.in_size
      /\ w.faults \subseteq v.faults /\ (w.overrun => v.overrun)
  BY <1>3, <1>4
<1>6. SlicesOK(j, v.slices, v.in + v.in_pos)
  BY <1>3, <1>4
<1> QED BY <1>2, <1>3, <1>5, <1>6, Evolved

LEMMA SetPos ==
  ASSUME NEW j, NEW w, Sound(j, w), NEW p \in Nat, w.in_pos <= p, p <= w.in_size,
         NEW v, v = [w EXCEPT !.in_pos = p]
  PROVE  Evolves(j, w, v)
<1>1. w \in MachineRec(Len(j.heap))
  BY DEF Sound
<1>2. v \in MachineRec(Len(j.heap))
  BY <1>1 DEF MachineRec
<1>3. /\ v.encode = w.encode /\ v.fstack = w.fstack /\ v.slices = w.slices
      /\ v.lists = w.lists /\ v.out = w.out /\ v.out_size = w.out_size
      /\ v.in = w.in /\ v.in_size = w.in_size /\ v.faults = w.faults
      /\ v.overrun = w.overrun
      /\ v.in_pos = p
  BY <1>1 DEF MachineRec
<1>4. w.in_pos \in Nat /\ Len(w.fstack) <= STACK_DEPTH /\ Len(w.out) <= w.out_size
      /\ w.in_pos <= w.in_size /\ SlicesOK(j, w.slices, w.in + w.in_pos)
  BY <1>1 DEF Sound, MachineRec
<1>5. SlicesOK(j, w.slices, w.in + p)
  <2>1. ASSUME NEW x \in Slots
        PROVE  SliceOK(j, w.slices[x], w.in + p)
    <3>1. SliceOK(j, w.slices[x], w.in + w.in_pos)
      BY <1>4, <2>1 DEF SlicesOK
    <3>2. w.slices[x] \in Slice /\ w.in \in Nat
      BY <1>1, <2>1 DEF MachineRec
    <3>3. CASE j.encode
      BY <3>1, <3>3 DEF SliceOK
    <3>4. CASE ~j.encode
      <4>1. \/ w.slices[x].data = NULL
            \/ /\ j.in <= w.slices[x].data
               /\ w.slices[x].data + w.slices[x].length <= w.in + w.in_pos
        BY <3>1, <3>4 DEF SliceOK
      <4>2. PICK a \in Nat, b \in Nat, c \in Nat, d \in Nat :
              a = w.slices[x].data /\ b = w.slices[x].length /\ c = w.in /\ d = w.in_pos
        BY <1>4, <3>2 DEF Slice
      <4>3. a + b <= c + d => a + b <= c + p
        BY <1>1, <1>4, <4>2, SMTT(30)
      <4>4. \/ w.slices[x].data = NULL
            \/ /\ j.in <= w.slices[x].data
               /\ w.slices[x].data + w.slices[x].length <= w.in + p
        BY <4>1, <4>2, <4>3
      <4> QED BY <3>4, <4>4 DEF SliceOK
    <3> QED BY <3>3, <3>4
  <2> QED BY <2>1 DEF SlicesOK
<1>6. SlicesOK(j, v.slices, v.in + v.in_pos)
  BY <1>3, <1>5
<1>7. /\ Len(v.fstack) <= STACK_DEPTH /\ Len(v.out) <= v.out_size
      /\ w.in_pos <= v.in_pos /\ v.in_pos <= v.in_size
      /\ w.faults \subseteq v.faults /\ (w.overrun => v.overrun)
  BY <1>3, <1>4
<1> QED BY <1>2, <1>3, <1>6, <1>7, Evolved

LEMMA SoundTypes ==
  ASSUME NEW j, NEW w, Sound(j, w)
  PROVE  /\ w \in MachineRec(Len(j.heap)) /\ w.encode = j.encode
         /\ w.fstack \in Seq(Word) /\ Len(w.fstack) \in Nat /\ Len(w.fstack) <= STACK_DEPTH
         /\ w.out \in Seq(Byte) /\ Len(w.out) \in Nat /\ w.out_size \in Nat
         /\ Len(w.out) <= w.out_size
         /\ w.in \in Nat /\ w.in_size \in Nat /\ w.in_pos \in Nat /\ w.in_pos <= w.in_size
         /\ j.in \in Nat /\ j.in_size \in Nat
         /\ j.in <= w.in /\ w.in + w.in_size = j.in + j.in_size
         /\ w.overrun \in BOOLEAN /\ w.slices \in [Slots -> Slice]
         /\ w.lists \in [Slots -> 0..Len(j.heap)] /\ w.vars \in [Vars -> Word]
         /\ w.bit_acc \in Byte /\ w.in_acc \in Byte /\ w.faults \subseteq FaultBits
         /\ SlicesOK(j, w.slices, w.in + w.in_pos)
<1>1. w \in MachineRec(Len(j.heap))
  BY DEF Sound
<1> QED BY <1>1 DEF Sound, MachineRec

LEMMA OverrunEvolves ==
  ASSUME NEW j, NEW w, Sound(j, w)
  PROVE  Evolves(j, w, Overrun(w))
BY SetOverrun DEF Overrun

LEMMA OperandTyped ==
  ASSUME NEW j, NEW w, Sound(j, w), NEW i \in Nat \ {0}
  PROVE  Operand(w, i) \in Word
<1>1. 0 \in Word
  BY Words_
<1>2. w.fstack \in Seq(Word)
  BY SoundTypes
<1> QED BY <1>1, <1>2 DEF Operand

LEMMA PoppedEvolves ==
  ASSUME NEW j, NEW w, Sound(j, w), NEW k \in Nat
  PROVE  Evolves(j, w, Popped(w, k))
<1>1. w.fstack \in Seq(Word) /\ Len(w.fstack) \in Nat /\ Len(w.fstack) <= STACK_DEPTH
  BY SoundTypes
<1>2. CASE w.overrun
  BY <1>2, EvolvesRefl DEF Popped
<1>3. CASE ~w.overrun /\ k <= Len(w.fstack)
  <2>1. PICK s : s = SubSeq(w.fstack, 1, Len(w.fstack) - k)
    OBVIOUS
  <2>2. s \in Seq(Word) /\ Len(s) <= STACK_DEPTH
    <3>1. Len(w.fstack) - k \in 0..Len(w.fstack)
      BY <1>1, <1>3
    <3>2. s \in Seq(Word)
      BY <1>1, <2>1, <3>1
    <3>3. Len(s) = Len(w.fstack) - k
      BY <1>1, <2>1, <3>1
    <3> QED BY <1>1, <3>1, <3>2, <3>3, LimitsAssumption
  <2>3. Popped(w, k) = [w EXCEPT !.fstack = s]
    BY <1>3, <2>1 DEF Popped
  <2> QED BY <2>2, <2>3, SetStack
<1>4. CASE ~w.overrun /\ ~(k <= Len(w.fstack))
  <2>1. PICK u : u = [w EXCEPT !.fstack = <<>>]
    OBVIOUS
  <2>2. Evolves(j, w, u)
    <3>1. <<>> \in Seq(Word) /\ Len(<<>>) <= STACK_DEPTH
      BY LimitsAssumption
    <3> QED BY <2>1, <3>1, SetStack
  <2>3. Popped(w, k) = Overrun(u)
    BY <1>4, <2>1 DEF Popped, Overrun
  <2>4. Sound(j, u)
    BY <2>2 DEF Evolves
  <2> QED BY <2>2, <2>3, <2>4, OverrunEvolves, EvolvesOn
<1> QED BY <1>2, <1>3, <1>4

LEMMA PushEvolves ==
  ASSUME NEW j, NEW w, Sound(j, w), NEW n
  PROVE  Evolves(j, w, Push(w, n))
<1>1. /\ w.fstack \in Seq(Word) /\ Len(w.fstack) \in Nat
      /\ Int64(n) \in Word /\ STACK_DEPTH \in Nat
  BY Words_, LimitsAssumption, SoundTypes
<1>2. CASE ~w.overrun /\ Len(w.fstack) < STACK_DEPTH
  <2>1. PICK s : s = Append(w.fstack, Int64(n))
    OBVIOUS
  <2>2. s \in Seq(Word) /\ Len(s) <= STACK_DEPTH
    BY <1>1, <1>2, <2>1
  <2>3. Push(w, n) = [w EXCEPT !.fstack = s]
    BY <1>2, <2>1 DEF Push
  <2> QED BY <2>2, <2>3, SetStack
<1>3. CASE ~(~w.overrun /\ Len(w.fstack) < STACK_DEPTH)
  BY <1>3, EvolvesRefl, OverrunEvolves DEF Push
<1> QED BY <1>2, <1>3

LEMMA EmitEvolves ==
  ASSUME NEW j, NEW w, Sound(j, w), NEW bytes \in Seq(Byte)
  PROVE  Evolves(j, w, Emit(w, bytes))
<1>1. PICK room : room = w.out_size - Len(w.out)
  OBVIOUS
<1>2. /\ w.out \in Seq(Byte) /\ Len(w.out) \in Nat /\ w.out_size \in Nat
      /\ room \in Nat /\ Len(w.out) + room = w.out_size /\ Len(bytes) \in Nat
  BY <1>1, SoundTypes
<1>3. CASE w.overrun
  BY <1>3, EvolvesRefl DEF Emit
<1>4. CASE ~w.overrun /\ Len(bytes) <= room
  <2>1. PICK s : s = w.out \o bytes
    OBVIOUS
  <2>2. s \in Seq(Byte) /\ Len(s) = Len(w.out) + Len(bytes)
    BY <1>2, <2>1
  <2>3. Len(s) <= w.out_size
    BY <1>2, <1>4, <2>2
  <2>4. Emit(w, bytes) = [w EXCEPT !.out = s]
    BY <1>1, <1>4, <2>1 DEF Emit
  <2> QED BY <2>2, <2>3, <2>4, SetOut
<1>5. CASE ~w.overrun /\ ~(Len(bytes) <= room)
  <2>1. PICK t : t = SubSeq(bytes, 1, room)
    OBVIOUS
  <2>2. room \in 0..Len(bytes)
    BY <1>2, <1>5
  <2>3. t \in Seq(Byte) /\ Len(t) = room
    BY <1>2, <2>1, <2>2
  <2>4. PICK s : s = w.out \o t
    OBVIOUS
  <2>5. s \in Seq(Byte) /\ Len(s) <= w.out_size
    BY <1>2, <2>3, <2>4
  <2>6. PICK u : u = [w EXCEPT !.out = s]
    OBVIOUS
  <2>7. Emit(w, bytes) = Overrun(u)
    BY <1>1, <1>5, <2>1, <2>4, <2>6 DEF Emit, Overrun
  <2>8. Evolves(j, w, u)
    BY <2>5, <2>6, SetOut
  <2>9. Sound(j, u)
    BY <2>8 DEF Evolves
  <2> QED BY <2>7, <2>8, <2>9, OverrunEvolves, EvolvesOn
<1> QED BY <1>3, <1>4, <1>5

LEMMA SkipEvolves ==
  ASSUME NEW j, NEW w, Sound(j, w), NEW k \in Nat, k <= w.in_size - w.in_pos
  PROVE  Evolves(j, w, Skip(w, k))
<1>1. w.in_pos \in Nat /\ w.in_size \in Nat
  BY SoundTypes
<1>2. PICK p : p = w.in_pos + k
  OBVIOUS
<1>3. p \in Nat /\ p <= w.in_size /\ w.in_pos <= p
  BY <1>1, <1>2
<1>4. Skip(w, k) = [w EXCEPT !.in_pos = p]
  BY <1>2 DEF Skip
<1> QED BY <1>3, <1>4, SetPos

LEMMA UnreadTyped ==
  ASSUME NEW j, NEW w, Sound(j, w)
  PROVE  /\ Unread(w) \in Nat /\ Unread(w) <= w.in_size - w.in_pos
         /\ w.overrun => Unread(w) = 0
<1>1. w.in_pos \in Nat /\ w.in_size \in Nat /\ w.in_pos <= w.in_size
  BY SoundTypes
<1> QED BY <1>1 DEF Unread

LEMMA ExhaustedEvolves ==
  ASSUME NEW j, NEW w, Sound(j, w)
  PROVE  Evolves(j, w, Exhausted(w))
<1>1. Unread(w) \in Nat /\ Unread(w) <= w.in_size - w.in_pos
  BY UnreadTyped
<1>2. Evolves(j, w, Skip(w, Unread(w)))
  BY <1>1, SkipEvolves
<1>3. Sound(j, Skip(w, Unread(w)))
  BY <1>2 DEF Evolves
<1> QED BY <1>2, <1>3, OverrunEvolves, EvolvesOn DEF Exhausted

\* A captured slice ends where the cursor then stands.  (wi_set_slice)
LEMMA CapturedEvolves ==
  ASSUME NEW j, NEW w, Sound(j, w), ~j.encode, NEW x \in Slots,
         NEW k \in Nat, k <= w.in_size - w.in_pos
  PROVE  Evolves(j, w, Captured(w, x, k))
<1>1. /\ w \in MachineRec(Len(j.heap)) /\ w.slices \in [Slots -> Slice]
      /\ w.in \in Nat /\ w.in_pos \in Nat /\ w.in_size \in Nat
      /\ j.in \in Nat /\ j.in <= w.in /\ SlicesOK(j, w.slices, w.in + w.in_pos)
  BY SoundTypes
<1>2. PICK s : s = [data |-> w.in + w.in_pos, length |-> k]
  OBVIOUS
<1>3. s \in Slice
  BY <1>1, <1>2 DEF Slice
<1>4. PICK f : f = [w.slices EXCEPT ![x] = s]
  OBVIOUS
<1>5. f \in [Slots -> Slice] /\ \A y \in Slots : f[y] = IF y = x THEN s ELSE w.slices[y]
  BY <1>1, <1>3, <1>4
<1>6. PICK p : p = w.in_pos + k
  OBVIOUS
<1>7. p \in Nat /\ p <= w.in_size /\ w.in_pos <= p
  BY <1>1, <1>6
<1>8. PICK u : u = [w EXCEPT !.in_pos = p]
  OBVIOUS
<1>9. Evolves(j, w, u)
  BY <1>7, <1>8, SetPos
<1>10. Sound(j, u)
  BY <1>9 DEF Evolves
<1>11. u.in = w.in /\ u.in_pos = p /\ u.slices = w.slices
  BY <1>1, <1>8 DEF MachineRec
<1>12. SlicesOK(j, f, u.in + u.in_pos)
  <2>1. SlicesOK(j, w.slices, w.in + p)
    BY <1>10, <1>11, SoundTypes
  <2>2. SliceOK(j, s, w.in + p)
    BY <1>1, <1>2, <1>3, <1>6 DEF SliceOK, Slice
  <2>3. ASSUME NEW y \in Slots
        PROVE  SliceOK(j, f[y], w.in + p)
    <3>1. SliceOK(j, w.slices[y], w.in + p)
      BY <2>1 DEF SlicesOK
    <3> QED BY <1>5, <2>2, <3>1
  <2>4. SlicesOK(j, f, w.in + p)
    BY <2>3 DEF SlicesOK
  <2> QED BY <1>11, <2>4
<1>13. PICK v : v = [u EXCEPT !.slices = f]
  OBVIOUS
<1>14. Evolves(j, u, v)
  BY <1>5, <1>10, <1>12, <1>13, SetSlices
<1>15. Captured(w, x, k) = v
  <2>1. PICK a : a = [w EXCEPT !.slices[x] = s]
    OBVIOUS
  <2>2. a = [w EXCEPT !.slices = f] /\ a.in_pos = w.in_pos
    BY <1>1, <1>4, <2>1 DEF MachineRec
  <2>3. Captured(w, x, k) = [a EXCEPT !.in_pos = p]
    BY <1>2, <1>6, <2>1, <2>2 DEF Captured, Skip
  <2>4. [a EXCEPT !.in_pos = p] = v
    BY <1>1, <1>8, <1>13, <2>2 DEF MachineRec
  <2> QED BY <2>3, <2>4
<1> QED BY <1>9, <1>14, <1>15, EvolvesOn

-----------------------------------------------------------------------------
(* What the handlers write and read                                          *)

\* Every byte of a number is a byte.  (wi_emit_n)
LEMMA BigEndianTyped ==
  ASSUME NEW n \in Int, NEW k \in 0..WORD_BYTES
  PROVE  BigEndian(n, k) \in Seq(Byte)
<1>1. k \in Nat /\ WORD_BYTES \in Nat /\ Base \in Nat \ {0}
  BY WordBytesAssumption, Powers
<1>2. ASSUME NEW i \in 1..k
      PROVE  (n \div Base ^ (k - i)) % Base \in Byte
  <2>1. k - i \in 0..WORD_BYTES
    BY <1>1
  <2>2. Base ^ (k - i) \in Nat \ {0}
    BY <2>1, PowersAssumption
  <2>3. PICK d : d = Base ^ (k - i)
    OBVIOUS
  <2>4. n \div d \in Int
    BY <2>2, <2>3
  <2>5. (n \div d) % Base \in 0..Base - 1
    BY <1>1, <2>4
  <2> QED BY <2>3, <2>5 DEF Byte
<1> DEFINE e(i) == (n \div Base ^ (k - i)) % Base
<1>3. \A i \in 1..k : e(i) \in Byte
  BY <1>2
<1> HIDE DEF e
<1>4. [i \in 1..k |-> e(i)] \in Seq(Byte)
  BY <1>1, <1>3
<1> QED BY <1>4 DEF BigEndian, e

LEMMA SdnvTyped ==
  ASSUME NEW n \in Int, NEW k \in 1..SdnvMax
  PROVE  Sdnv(n, k) \in Seq(Byte)
<1>1. /\ k \in Nat /\ SdnvMax \in Int /\ Base \in Nat \ {0} /\ Group \in Nat \ {0}
      /\ Base = 2 * Group
  <2>1. WordBits + BYTE_BITS - 2 \in Int /\ BYTE_BITS - 1 \in Nat \ {0}
    BY Powers
  <2>2. \A a \in Int, b \in Nat \ {0} : a \div b \in Int
    OBVIOUS
  <2>3. SdnvMax \in Int
    BY <2>1, <2>2 DEF SdnvMax
  <2> QED BY <2>3, Powers
<1> DEFINE e(i) == ((n \div Group ^ (k - i)) % Group) + (IF i = k THEN 0 ELSE Group)
<1>2. ASSUME NEW i \in 1..k
      PROVE  e(i) \in Byte
  <2>1. k - i \in 0..SdnvMax
    BY <1>1
  <2>2. Group ^ (k - i) \in Nat \ {0}
    BY <2>1, PowersAssumption
  <2>3. PICK d : d = Group ^ (k - i)
    OBVIOUS
  <2>4. n \div d \in Int
    BY <2>2, <2>3
  <2>5. PICK r : r = (n \div d) % Group
    OBVIOUS
  <2>6. r \in 0..Group - 1
    BY <1>1, <2>4, <2>5
  <2>7. r + (IF i = k THEN 0 ELSE Group) \in 0..Base - 1
    BY <1>1, <2>6
  <2> QED BY <2>3, <2>5, <2>7 DEF Byte
<1>3. \A i \in 1..k : e(i) \in Byte
  BY <1>2
<1> HIDE DEF e
<1>4. [i \in 1..k |-> e(i)] \in Seq(Byte)
  BY <1>1, <1>3
<1> QED BY <1>4 DEF Sdnv, e

\* What a caller brings, as far as the data is concerned.
LEMMA JobTyped ==
  ASSUME ControlInv
  PROVE  /\ IsJob(job) /\ job.mem \in Seq(Byte) /\ Len(job.mem) \in Nat
         /\ job.encode \in BOOLEAN /\ job.out_size \in Nat
         /\ job.in \in Nat /\ job.in_size \in Nat
         /\ job.encode => job.in = 0 /\ job.in_size = 0
         /\ ~job.encode => /\ job.out_size = 0 /\ job.in # 0
                           /\ job.in + job.in_size <= Len(job.mem) + 1
         /\ job.heap \in Seq(RecordList) /\ Len(job.heap) \in Nat
<1>1. IsJob(job)
  BY JobsAssumption DEF ControlInv
<1>2. job.mem \in Seq(Byte) /\ job.heap \in Seq(RecordList)
  BY <1>1 DEF IsJob
<1>3. Len(job.mem) \in Nat /\ Len(job.heap) \in Nat
  BY <1>2
<1> QED BY <1>1, <1>2, <1>3 DEF IsJob, NULL

\* A slice that %v may read holds bytes.  (_v)
LEMMA SliceBytesTyped ==
  ASSUME ControlInv, NEW s \in Slice, InMemory(s, job.mem), Readable(s)
  PROVE  Bytes(s) \in Seq(Byte)
<1>1. s.data \in Nat /\ s.length \in Nat /\ job.mem \in Seq(Byte) /\ Len(job.mem) \in Nat
  BY JobTyped DEF Slice
<1> DEFINE e(i) == job.mem[s.data + i - 1]
<1>2. ASSUME NEW i \in 1..s.length
      PROVE  e(i) \in Byte
  <2>1. s.data # 0 /\ s.data + s.length <= Len(job.mem) + 1
    BY <1>1, <1>2 DEF InMemory, Readable, NULL
  <2>2. s.data + i - 1 \in 1..Len(job.mem)
    BY <1>1, <2>1
  <2> QED BY <1>1, <2>2
<1>3. \A i \in 1..s.length : e(i) \in Byte
  BY <1>2
<1> HIDE DEF e
<1>4. [i \in 1..s.length |-> e(i)] \in Seq(Byte)
  BY <1>1, <1>3
<1> QED BY <1>4 DEF Bytes, e

\* The next byte of the input is one of the caller's.  (b_read)
LEMMA AheadTyped ==
  ASSUME ControlInv, NEW w, Sound(job, w), Unread(w) > 0
  PROVE  Ahead(w, 1)[1] \in Byte
<1>1. /\ w.in \in Nat /\ w.in_size \in Nat /\ w.in_pos \in Nat
      /\ w.in_pos < w.in_size
      /\ job.in <= w.in /\ w.in + w.in_size = job.in + job.in_size
  BY SoundTypes, UnreadTyped
<1>2. /\ job.in \in Nat /\ job.in_size \in Nat /\ job.mem \in Seq(Byte) /\ Len(job.mem) \in Nat
      /\ job.in # 0 /\ job.in + job.in_size <= Len(job.mem) + 1
  <2>1. job.in \in Nat /\ job.in_size \in Nat /\ job.mem \in Seq(Byte) /\ Len(job.mem) \in Nat
    BY JobTyped
  <2>2. job.encode => job.in = 0 /\ job.in_size = 0
    BY JobTyped
  <2>3. ~job.encode
    BY <1>1, <2>2
  <2>4. job.in # 0 /\ job.in + job.in_size <= Len(job.mem) + 1
    BY <2>3, JobTyped
  <2> QED BY <2>1, <2>4
<1>3. w.in + w.in_pos + 1 - 1 \in 1..Len(job.mem)
  BY <1>1, <1>2
<1>4. Ahead(w, 1)[1] = job.mem[w.in + w.in_pos + 1 - 1]
  BY DEF Ahead
<1> QED BY <1>2, <1>3, <1>4

\* The elements of an array, whatever their order, lie in the array.  (_r)
LEMMA ArrayTyped ==
  ASSUME ControlInv, NEW size \in {1, 2, 4}, NEW count \in Nat, NEW ptr \in Int,
         WithinMemory(ptr, count * size)
  PROVE  [i \in 1..count * size |->
            job.mem[ptr + size * ((i - 1) \div size) + size - 1 - ((i - 1) % size)]] \in Seq(Byte)
<1> DEFINE e(i) == job.mem[ptr + size * ((i - 1) \div size) + size - 1 - ((i - 1) % size)]
<1>1. PICK k : k = count * size
  OBVIOUS
<1>2. k \in Nat /\ ptr > 0 /\ ptr + k <= Len(job.mem) + 1
  <2>1. k = count \/ k = count * 2 \/ k = count * 4
    BY <1>1
  <2> QED BY <1>1, <2>1 DEF WithinMemory
<1>3. job.mem \in Seq(Byte) /\ Len(job.mem) \in Nat
  BY JobTyped
<1>4. ASSUME NEW i \in 1..k
      PROVE  e(i) \in Byte
  <2>1. PICK x \in 0..k - 1 : x = i - 1
    BY <1>2
  <2>2. size * (x \div size) + size - 1 - (x % size) \in 0..k - 1
    <3>1. CASE size = 1
      BY <1>1, <1>2, <2>1, <3>1
    <3>2. CASE size = 2
      <4>1. k = count * 2
        BY <1>1, <3>2
      <4>2. 2 * (x \div 2) + 2 - 1 - (x % 2) \in 0..k - 1
        BY <1>2, <2>1, <4>1
      <4> QED BY <4>2, <3>2
    <3>3. CASE size = 4
      <4>1. k = count * 4
        BY <1>1, <3>3
      <4>2. 4 * (x \div 4) + 4 - 1 - (x % 4) \in 0..k - 1
        BY <1>2, <2>1, <4>1
      <4> QED BY <4>2, <3>3
    <3> QED BY <3>1, <3>2, <3>3
  <2>3. PICK o \in 0..k - 1 : o = size * (x \div size) + size - 1 - (x % size)
    BY <2>2
  <2>4. ptr + size * ((i - 1) \div size) + size - 1 - ((i - 1) % size) = ptr + o
    <3>1. x \div size \in Int /\ x % size \in Int
      BY <2>1
    <3>2. PICK a \in Int : a = size * (x \div size)
      BY <3>1
    <3> QED BY <2>1, <2>3, <3>1, <3>2
  <2>5. ptr + o \in 1..Len(job.mem)
    BY <1>2, <1>3
  <2> QED BY <1>3, <2>4, <2>5
<1>5. \A i \in 1..k : e(i) \in Byte
  BY <1>4
<1> HIDE DEF e
<1>6. [i \in 1..k |-> e(i)] \in Seq(Byte)
  BY <1>2, <1>5
<1> QED BY <1>1, <1>6 DEF e

-----------------------------------------------------------------------------
(* The handlers                                                              *)

LEMMA PopThen ==
  ASSUME NEW j, NEW w, Sound(j, w), NEW k \in Nat
  PROVE  /\ Sound(j, Popped(w, k))
         /\ Evolves(j, w, Overrun(Popped(w, k)))
         /\ \A n : Evolves(j, w, Push(Popped(w, k), n))
         /\ \A b \in Seq(Byte) : Evolves(j, w, Emit(Popped(w, k), b))
         /\ \A v : Evolves(j, Popped(w, k), v) => Evolves(j, w, v)
<1>1. Evolves(j, w, Popped(w, k))
  BY PoppedEvolves
<1>2. Sound(j, Popped(w, k))
  BY <1>1 DEF Evolves
<1>3. \A v : Evolves(j, Popped(w, k), v) => Evolves(j, w, v)
  BY <1>1, EvolvesOn
<1>4. Evolves(j, Popped(w, k), Overrun(Popped(w, k)))
  BY <1>2, OverrunEvolves
<1>5. \A n : Evolves(j, Popped(w, k), Push(Popped(w, k), n))
  BY <1>2, PushEvolves
<1>6. \A b \in Seq(Byte) : Evolves(j, Popped(w, k), Emit(Popped(w, k), b))
  BY <1>2, EmitEvolves
<1> QED BY <1>2, <1>3, <1>4, <1>5, <1>6

LEMMA LiteralEvolves ==
  ASSUME ControlInv, Sound(job, wi), EmitLiteral
  PROVE  Evolves(job, wi, wi')
<1>1. /\ status = "parsing" /\ ~AtEnd /\ Current.op = "lit"
      /\ wi' = Emit(wi, <<Current.n>>)
  BY DEF EmitLiteral, Op, Running, Do
<1>2. at.pc \in DOMAIN Text(at)
  BY <1>1, TextTyped DEF AtEnd, ControlInv, Shape, At
<1>3. IsText(Text(at))
  <2>1. /\ \A k \in DOMAIN job.table.fmts : IsText(job.table.fmts[k])
        /\ \A i \in DOMAIN job.tops : IsText(job.tops[i])
        /\ job.tops \in Seq(Seq(Token))
    BY JobTyped DEF IsJob
  <2>2. turn \in DOMAIN job.tops
    BY <2>1 DEF ControlInv
  <2>3. table = job.table /\ at.fmt \in DOMAIN table.fmts \cup {table.nfmts}
    BY <1>1, ActiveTop DEF ControlInv, Installed, Ranks
  <2> QED BY <2>1, <2>2, <2>3 DEF Text
<1>4. Current.n \in Byte
  BY <1>1, <1>2, <1>3 DEF IsText, Current
<1>5. <<Current.n>> \in Seq(Byte)
  BY <1>4
<1> QED BY <1>1, <1>5, EmitEvolves

LEMMA StackEvolves ==
  ASSUME ControlInv, Sound(job, wi),
         PushLiteral \/ PushParam \/ LoadVar \/ BinaryOp \/ UnaryOp \/ BadSpecifier
  PROVE  Evolves(job, wi, wi')
<1>1. CASE PushLiteral
  BY <1>1, PushEvolves DEF PushLiteral, Do
<1>2. CASE PushParam
  <2>1. wi' = Overrun(wi) \/ \E n : wi' = Push(wi, n)
    BY <1>2 DEF PushParam, Do
  <2> QED BY <2>1, PushEvolves, OverrunEvolves
<1>3. CASE LoadVar
  <2>1. wi' = Overrun(wi) \/ \E n : wi' = Push(wi, n)
    BY <1>3 DEF LoadVar, Do
  <2> QED BY <2>1, PushEvolves, OverrunEvolves
<1>4. CASE BinaryOp
  <2>1. \E n : wi' = Push(Popped(wi, 2), n)
    BY <1>4 DEF BinaryOp, Do
  <2> QED BY <2>1, PopThen
<1>5. CASE UnaryOp
  <2>1. \E n : wi' = Push(Popped(wi, 1), n)
    BY <1>5 DEF UnaryOp, Do
  <2> QED BY <2>1, PopThen
<1>6. CASE BadSpecifier
  BY <1>6, OverrunEvolves DEF BadSpecifier, Do
<1> QED BY <1>1, <1>2, <1>3, <1>4, <1>5, <1>6

\* One assignment to a variable.
LEMMA VarEvolves ==
  ASSUME NEW j, NEW w, Sound(j, w), NEW x, NEW n \in Word
  PROVE  Evolves(j, w, [w EXCEPT !.vars[x] = n])
<1>1. PICK f : f = [w.vars EXCEPT ![x] = n]
  OBVIOUS
<1>2. f \in [Vars -> Word]
  <2>1. w.vars \in [Vars -> Word]
    BY SoundTypes
  <2> QED BY <1>1, <2>1
<1>3. [w EXCEPT !.vars[x] = n] = [w EXCEPT !.vars = f]
  BY <1>1
<1> QED BY <1>2, <1>3, SetVar

LEMMA StoreEvolves ==
  ASSUME ControlInv, Sound(job, wi), StoreVar
  PROVE  Evolves(job, wi, wi')
<1>1. Operand(wi, 1) \in Word /\ 0 \in Word
  BY OperandTyped, Words_
<1>2. CASE wi' = [Popped(wi, 1) EXCEPT !.vars[Current.n] = Operand(wi, 1)]
  BY <1>1, <1>2, PopThen, VarEvolves
<1>3. CASE wi' = [Overrun(wi) EXCEPT !.vars[0] = 0]
  <2>1. Evolves(job, wi, Overrun(wi))
    BY OverrunEvolves
  <2>2. Sound(job, Overrun(wi))
    BY <2>1 DEF Evolves
  <2> QED BY <1>1, <1>3, <2>1, <2>2, VarEvolves, EvolvesOn
<1>4. CASE wi' = [Overrun(Popped(wi, 1)) EXCEPT !.vars[0] = Operand(wi, 1)]
  <2>1. PICK w : w = Overrun(Popped(wi, 1))
    OBVIOUS
  <2>2. Evolves(job, wi, w)
    BY <2>1, PopThen
  <2>3. Sound(job, w)
    BY <2>2 DEF Evolves
  <2>4. Evolves(job, w, wi')
    BY <1>1, <1>4, <2>1, <2>3, VarEvolves
  <2> QED BY <2>2, <2>4, EvolvesOn
<1> QED BY <1>2, <1>3, <1>4 DEF StoreVar, Do

LEMMA FaultEvolves ==
  ASSUME ControlInv, Sound(job, wi), RaiseFault
  PROVE  Evolves(job, wi, wi')
<1>1. PICK w : w = Popped(wi, 1)
  OBVIOUS
<1>2. Sound(job, w)
  BY <1>1, PopThen
<1>3. PICK f : f = w.faults \cup BitsOf(Operand(wi, 1), IntBits)
  OBVIOUS
<1>4. f \in SUBSET FaultBits /\ w.faults \subseteq f
  <2>1. BitsOf(Operand(wi, 1), IntBits) \subseteq FaultBits
    BY DEF BitsOf, FaultBits
  <2>2. w.faults \subseteq FaultBits
    BY <1>2, SoundTypes
  <2> QED BY <1>3, <2>1, <2>2
<1>5. wi' = [w EXCEPT !.faults = f]
  BY <1>1, <1>3 DEF RaiseFault, Do
<1>6. Evolves(job, w, wi')
  BY <1>2, <1>4, <1>5, SetFaults
<1> QED BY <1>1, <1>6, PopThen

LEMMA NumberEvolves ==
  ASSUME ControlInv, Sound(job, wi), EmitNumber \/ ReadNumber
  PROVE  Evolves(job, wi, wi')
<1>1. /\ WORD_BYTES \in Nat /\ WORD_BYTES >= 4
      /\ WORD_BYTES \div 4 \in 0..WORD_BYTES /\ WORD_BYTES \div 2 \in 0..WORD_BYTES
  BY WordBytesAssumption, QuartersAssumption
<1>2. CASE EmitNumber
  <2>1. PICK k : /\ k \in {1, WORD_BYTES \div 4, WORD_BYTES \div 2, WORD_BYTES}
                 /\ wi' = Emit(Popped(wi, 1), BigEndian(Operand(wi, 1), k))
    <3>1. EmitSize(Current.op) \in {1, WORD_BYTES \div 4, WORD_BYTES \div 2, WORD_BYTES}
      BY <1>2 DEF EmitNumber, Op, EmitSize
    <3> QED BY <1>2, <3>1 DEF EmitNumber, Do
  <2>2. k \in 0..WORD_BYTES
    BY <1>1, <2>1
  <2>3. Operand(wi, 1) \in Int
    <3>1. Operand(wi, 1) \in Word
      BY OperandTyped
    <3> QED BY <3>1, Words_
  <2> QED BY <2>1, <2>2, <2>3, BigEndianTyped, PopThen
<1>3. CASE ReadNumber
  <2>1. PICK k : /\ k \in {1, WORD_BYTES \div 4, WORD_BYTES \div 2, WORD_BYTES}
                 /\ wi' = IF k <= Unread(wi) THEN Push(Skip(wi, k), Number(Ahead(wi, k)))
                                             ELSE Exhausted(wi)
    <3>1. ReadSize(Current.op) \in {1, WORD_BYTES \div 4, WORD_BYTES \div 2, WORD_BYTES}
      BY <1>3 DEF ReadNumber, Op, ReadSize
    <3> QED BY <1>3, <3>1 DEF ReadNumber, Do
  <2>2. k \in Nat
    BY <1>1, <2>1
  <2>3. CASE k <= Unread(wi)
    <3>1. k <= wi.in_size - wi.in_pos
      <4>1. /\ Unread(wi) \in Nat /\ Unread(wi) <= wi.in_size - wi.in_pos
            /\ wi.in_size \in Nat /\ wi.in_pos \in Nat
        BY UnreadTyped, SoundTypes
      <4> QED BY <2>2, <2>3, <4>1
    <3>2. Evolves(job, wi, Skip(wi, k))
      BY <2>2, <3>1, SkipEvolves
    <3>3. Sound(job, Skip(wi, k))
      BY <3>2 DEF Evolves
    <3> QED BY <2>1, <2>3, <3>2, <3>3, PushEvolves, EvolvesOn
  <2>4. CASE ~(k <= Unread(wi))
    BY <2>1, <2>4, ExhaustedEvolves
  <2> QED BY <2>3, <2>4
<1> QED BY <1>2, <1>3

LEMMA SdnvEvolves ==
  ASSUME ControlInv, Sound(job, wi), EmitSdnv \/ ReadSdnv
  PROVE  Evolves(job, wi, wi')
<1>1. CASE EmitSdnv
  <2>1. PICK k \in 1..SdnvMax : wi' = Emit(Popped(wi, 1), Sdnv(Unsigned(Operand(wi, 1)), k))
    BY <1>1 DEF EmitSdnv, Do
  <2>2. Unsigned(Operand(wi, 1)) \in Int
    <3>1. Operand(wi, 1) \in Int
      <4>1. Operand(wi, 1) \in Word
        BY OperandTyped
      <4> QED BY <4>1, Words_
    <3>2. Modulus \in Nat \ {0}
      BY Powers
    <3> QED BY <3>1, <3>2 DEF Unsigned
  <2> QED BY <2>1, <2>2, SdnvTyped, PopThen
<1>2. CASE ReadSdnv
  <2>1. PICK limit : limit = IF Unread(wi) < SdnvMax THEN Unread(wi) ELSE SdnvMax
    OBVIOUS
  <2>2. \/ \E k \in 1..limit : \E n : wi' = Overrun(Skip(wi, k)) \/ wi' = Push(Skip(wi, k), n)
        \/ wi' = Overrun(Skip(wi, limit))
    BY <1>2, <2>1 DEF ReadSdnv, Do
  <2>3. /\ SdnvMax \in Nat /\ Unread(wi) \in Nat /\ Unread(wi) <= wi.in_size - wi.in_pos
        /\ wi.in_size \in Nat /\ wi.in_pos \in Nat
    <3>1. WordBits + BYTE_BITS - 2 \in Nat /\ BYTE_BITS - 1 \in Nat \ {0}
      BY Powers
    <3>2. \A a \in Nat, b \in Nat \ {0} : a \div b \in Nat
      OBVIOUS
    <3>3. SdnvMax \in Nat
      BY <3>1, <3>2 DEF SdnvMax
    <3> QED BY <3>3, UnreadTyped, SoundTypes
  <2>4. limit \in Nat /\ limit <= wi.in_size - wi.in_pos
    BY <2>1, <2>3
  <2>5. \A k \in Nat : k <= limit => Evolves(job, wi, Skip(wi, k)) /\ Sound(job, Skip(wi, k))
    <3> SUFFICES ASSUME NEW k \in Nat, k <= limit
                 PROVE  Evolves(job, wi, Skip(wi, k)) /\ Sound(job, Skip(wi, k))
      OBVIOUS
    <3>1. k <= wi.in_size - wi.in_pos
      BY <2>3, <2>4
    <3>2. Evolves(job, wi, Skip(wi, k))
      BY <3>1, SkipEvolves
    <3> QED BY <3>2 DEF Evolves
  <2>6. CASE wi' = Overrun(Skip(wi, limit))
    BY <2>4, <2>5, <2>6, OverrunEvolves, EvolvesOn
  <2>7. CASE \E k \in 1..limit : \E n : wi' = Overrun(Skip(wi, k)) \/ wi' = Push(Skip(wi, k), n)
    <3>1. PICK k, n : k \in 1..limit /\ (wi' = Overrun(Skip(wi, k)) \/ wi' = Push(Skip(wi, k), n))
      BY <2>7
    <3>2. k \in Nat /\ k <= limit
      BY <2>4, <3>1
    <3> QED BY <2>5, <3>1, <3>2, OverrunEvolves, PushEvolves, EvolvesOn
  <2> QED BY <2>2, <2>6, <2>7
<1> QED BY <1>1, <1>2

LEMMA BitsEvolve ==
  ASSUME ControlInv, Sound(job, wi), PackBits \/ UnpackBits \/ FlushBits
  PROVE  Evolves(job, wi, wi')
<1>1. CASE PackBits
  <2>1. PICK acc \in Byte : wi' = [Popped(wi, 3) EXCEPT !.bit_acc = acc]
    BY <1>1 DEF PackBits, Do
  <2>2. PICK w : w = Popped(wi, 3)
    OBVIOUS
  <2>3. Sound(job, w) /\ \A v : Evolves(job, w, v) => Evolves(job, wi, v)
    BY <2>2, PopThen
  <2>4. Evolves(job, w, wi')
    BY <2>1, <2>2, <2>3, SetBits
  <2> QED BY <2>3, <2>4
<1>2. CASE UnpackBits
  <2>1. PICK p : p = Popped(wi, 2)
    OBVIOUS
  <2>2. Sound(job, p) /\ \A v : Evolves(job, p, v) => Evolves(job, wi, v)
    BY <2>1, PopThen
  <2>3. PICK l : l = IF p.in_loaded THEN p
                   ELSE IF Unread(p) > 0
                     THEN [Skip(p, 1) EXCEPT !.in_acc = Ahead(p, 1)[1], !.in_loaded = TRUE]
                     ELSE [Overrun(p) EXCEPT !.in_acc = 0, !.in_loaded = TRUE]
    OBVIOUS
  <2>4. \E n : wi' = Push(l, n)
    BY <1>2, <2>1, <2>3 DEF UnpackBits, Do
  <2>5. ASSUME NEW u, Sound(job, u), Evolves(job, p, u), NEW b \in Byte,
               l = [u EXCEPT !.in_acc = b, !.in_loaded = TRUE]
        PROVE  Evolves(job, p, l)
    <3>1. PICK v : v = [u EXCEPT !.in_acc = b]
      OBVIOUS
    <3>2. Evolves(job, u, v)
      BY <2>5, <3>1, SetAhead
    <3>3. Sound(job, v) /\ Evolves(job, p, v)
      <4>1. Sound(job, v)
        BY <3>2 DEF Evolves
      <4> QED BY <2>2, <2>5, <3>2, <4>1, EvolvesOn
    <3>4. l = [v EXCEPT !.in_loaded = TRUE]
      BY <2>5, <3>1
    <3>5. Evolves(job, v, l)
      BY <3>3, <3>4, SetLoaded
    <3> QED BY <2>2, <3>3, <3>5, EvolvesOn
  <2>6. Evolves(job, p, l)
    <3>1. CASE p.in_loaded
      BY <2>2, <2>3, <3>1, EvolvesRefl
    <3>2. CASE ~p.in_loaded /\ Unread(p) > 0
      <4>1. PICK u : u = Skip(p, 1)
        OBVIOUS
      <4>2. Evolves(job, p, u)
        <5>1. Unread(p) \in Nat /\ Unread(p) <= p.in_size - p.in_pos
          BY <2>2, UnreadTyped
        <5>2. p.in_size \in Nat /\ p.in_pos \in Nat
          BY <2>2, SoundTypes
        <5>3. 1 <= p.in_size - p.in_pos
          BY <3>2, <5>1, <5>2
        <5> QED BY <2>2, <4>1, <5>3, SkipEvolves
      <4>3. Sound(job, u)
        BY <4>2 DEF Evolves
      <4>4. PICK b \in Byte : b = Ahead(p, 1)[1]
        BY <2>2, <3>2, AheadTyped
      <4>5. l = [u EXCEPT !.in_acc = b, !.in_loaded = TRUE]
        BY <2>3, <3>2, <4>1, <4>4
      <4> QED BY <2>5, <4>2, <4>3, <4>5
    <3>3. CASE ~p.in_loaded /\ ~(Unread(p) > 0)
      <4>1. PICK u : u = Overrun(p)
        OBVIOUS
      <4>2. Evolves(job, p, u)
        BY <2>2, <4>1, OverrunEvolves
      <4>3. Sound(job, u)
        BY <4>2 DEF Evolves
      <4>4. 0 \in Byte
        BY Words_
      <4>5. l = [u EXCEPT !.in_acc = 0, !.in_loaded = TRUE]
        BY <2>3, <3>3, <4>1
      <4> QED BY <2>5, <4>2, <4>3, <4>4, <4>5
    <3> QED BY <3>1, <3>2, <3>3
  <2>7. Evolves(job, wi, l) /\ Sound(job, l)
    BY <2>2, <2>6 DEF Evolves
  <2> QED BY <2>4, <2>7, PushEvolves, EvolvesOn
<1>3. CASE FlushBits
  <2>1. CASE wi.encode
    <3>1. PICK w : w = Emit(wi, <<wi.bit_acc>>)
      OBVIOUS
    <3>2. <<wi.bit_acc>> \in Seq(Byte) /\ 0 \in Byte
      <4>1. wi.bit_acc \in Byte
        BY SoundTypes
      <4> QED BY <4>1, Words_
    <3>3. Evolves(job, wi, w)
      BY <3>1, <3>2, EmitEvolves
    <3>4. Sound(job, w)
      BY <3>3 DEF Evolves
    <3>5. wi' = [w EXCEPT !.bit_acc = 0]
      BY <1>3, <2>1, <3>1 DEF FlushBits, Do
    <3>6. Evolves(job, w, wi')
      BY <3>2, <3>4, <3>5, SetBits
    <3> QED BY <3>3, <3>6, EvolvesOn
  <2>2. CASE ~wi.encode
    <3>1. wi' = [wi EXCEPT !.in_loaded = FALSE]
      BY <1>3, <2>2 DEF FlushBits, Do
    <3> QED BY <3>1, SetLoaded
  <2> QED BY <2>1, <2>2
<1> QED BY <1>1, <1>2, <1>3

LEMMA ArrayEvolves ==
  ASSUME ControlInv, Sound(job, wi), EmitArray
  PROVE  Evolves(job, wi, wi')
<1>1. PICK size, count, ptr, bytes :
        /\ size = Current.n /\ count = Operand(wi, 1) /\ ptr = Operand(wi, 2)
        /\ bytes = [i \in 1..count * size |->
                      job.mem[ptr + size * ((i - 1) \div size) + size - 1 - ((i - 1) % size)]]
  OBVIOUS
<1>2. \/ wi' = Overrun(wi) \/ wi' = Overrun(Popped(wi, 2)) \/ wi' = Popped(wi, 2)
      \/ /\ size \in {1, 2, 4} /\ count > 0 /\ WithinMemory(ptr, count * size)
         /\ wi' = Emit(Popped(wi, 2), bytes)
  BY <1>1 DEF EmitArray, Do
<1>3. CASE wi' = Overrun(wi) \/ wi' = Overrun(Popped(wi, 2)) \/ wi' = Popped(wi, 2)
  BY <1>3, OverrunEvolves, PopThen, PoppedEvolves
<1>4. CASE /\ size \in {1, 2, 4} /\ count > 0 /\ WithinMemory(ptr, count * size)
           /\ wi' = Emit(Popped(wi, 2), bytes)
  <2>1. count \in Nat /\ ptr \in Int
    <3>1. Operand(wi, 1) \in Word /\ Operand(wi, 2) \in Word
      BY OperandTyped
    <3>2. count \in Int /\ ptr \in Int
      BY <1>1, <3>1, Words_
    <3> QED BY <1>4, <3>2
  <2>2. bytes \in Seq(Byte)
    BY <1>1, <1>4, <2>1, ArrayTyped
  <2> QED BY <1>4, <2>2, PopThen
<1> QED BY <1>2, <1>3, <1>4

LEMMA CaptureEvolves ==
  ASSUME ControlInv, Sound(job, wi), CaptureRest \/ CaptureExact
  PROVE  Evolves(job, wi, wi')
<1>1. PICK k, slot, length : k \in Nat /\ LET w == Popped(wi, k) IN
         \/ wi' = Overrun(w)
         \/ /\ ~w.encode /\ slot \in Slots /\ length \in 0 .. w.in_size - w.in_pos
            /\ wi' = Captured(w, slot, length)
  <2>1. CASE CaptureRest
    <3>1. PICK w : w = Popped(wi, 1)
      OBVIOUS
    <3>2. Sound(job, w)
      BY <3>1, PopThen
    <3>3. w.in_size - w.in_pos \in 0 .. w.in_size - w.in_pos
      <4>1. w.in_size \in Nat /\ w.in_pos \in Nat /\ w.in_pos <= w.in_size
        BY <3>2, SoundTypes
      <4> QED BY <4>1
    <3>4. \/ wi' = Overrun(w)
          \/ /\ ~w.encode /\ Operand(wi, 1) \in Slots
             /\ wi' = Captured(w, Operand(wi, 1), w.in_size - w.in_pos)
      BY <2>1, <3>1 DEF CaptureRest, Do, InSlots
    <3> QED BY <3>1, <3>3, <3>4
  <2>2. CASE CaptureExact
    BY <2>2 DEF CaptureExact, Do, InSlots
  <2> QED BY <2>1, <2>2
<1>2. PICK w : w = Popped(wi, k)
  OBVIOUS
<1>3. Sound(job, w) /\ Evolves(job, wi, Overrun(w))
      /\ \A v : Evolves(job, w, v) => Evolves(job, wi, v)
  BY <1>1, <1>2, PopThen
<1>4. CASE wi' = Overrun(w)
  BY <1>3, <1>4
<1>5. CASE /\ ~w.encode /\ slot \in Slots /\ length \in 0 .. w.in_size - w.in_pos
           /\ wi' = Captured(w, slot, length)
  <2>1. w.in_size \in Nat /\ w.in_pos \in Nat /\ ~job.encode
    BY <1>3, <1>5, SoundTypes
  <2>2. length \in Nat /\ length <= w.in_size - w.in_pos
    BY <1>5, <2>1
  <2>3. Evolves(job, w, wi')
    BY <1>3, <1>5, <2>1, <2>2, CapturedEvolves
  <2> QED BY <1>3, <2>3
<1> QED BY <1>1, <1>2, <1>4, <1>5

LEMMA SliceEvolves ==
  ASSUME ControlInv, Sound(job, wi), SliceLength \/ EmitSlice \/ EmitExact \/ ListCount
  PROVE  Evolves(job, wi, wi')
<1>1. CASE SliceLength
  <2>1. wi' = Overrun(Popped(wi, 1)) \/ \E n : wi' = Push(Popped(wi, 1), n)
    BY <1>1 DEF SliceLength, Do
  <2> QED BY <2>1, PopThen
<1>2. CASE ListCount
  <2>1. wi' = Overrun(Popped(wi, 1)) \/ \E n : wi' = Push(Popped(wi, 1), n)
    BY <1>2 DEF ListCount, Do
  <2> QED BY <2>1, PopThen
<1>3. CASE EmitSlice \/ EmitExact
  <2>1. PICK k, slot : k \in Nat /\ LET w == Popped(wi, k) IN
           \/ wi' = Overrun(w)
           \/ /\ w.encode /\ slot \in Slots /\ Readable(w.slices[slot])
              /\ wi' = Emit(w, Bytes(w.slices[slot]))
    <3>1. CASE EmitSlice
      BY <3>1 DEF EmitSlice, Do, InSlots
    <3>2. CASE EmitExact
      BY <3>2 DEF EmitExact, Do, InSlots
    <3> QED BY <1>3, <3>1, <3>2
  <2>2. PICK w : w = Popped(wi, k)
    OBVIOUS
  <2>3. Sound(job, w) /\ Evolves(job, wi, Overrun(w))
        /\ \A b \in Seq(Byte) : Evolves(job, wi, Emit(w, b))
    BY <2>1, <2>2, PopThen
  <2>4. CASE wi' = Overrun(w)
    BY <2>3, <2>4
  <2>5. CASE /\ w.encode /\ slot \in Slots /\ Readable(w.slices[slot])
             /\ wi' = Emit(w, Bytes(w.slices[slot]))
    <3>1. PICK s : s = w.slices[slot]
      OBVIOUS
    <3>2. job.encode /\ s \in Slice /\ SliceOK(job, s, w.in + w.in_pos)
      <4>1. /\ w.encode = job.encode /\ w.slices \in [Slots -> Slice]
            /\ SlicesOK(job, w.slices, w.in + w.in_pos)
        BY <2>3, SoundTypes
      <4>2. SliceOK(job, w.slices[slot], w.in + w.in_pos)
        BY <2>5, <4>1 DEF SlicesOK
      <4> QED BY <2>5, <3>1, <4>1, <4>2
    <3>3. InMemory(s, job.mem)
      BY <3>2 DEF SliceOK
    <3>4. Bytes(s) \in Seq(Byte)
      BY <2>5, <3>1, <3>2, <3>3, SliceBytesTyped
    <3> QED BY <2>3, <2>5, <3>1, <3>4
  <2> QED BY <2>1, <2>2, <2>4, <2>5
<1> QED BY <1>1, <1>2, <1>3

LEMMA BranchEvolves ==
  ASSUME ControlInv, Sound(job, wi),
         Mark \/ ThenTaken \/ ThenSkipped \/ ElseSkipped \/ RefuseSequence
  PROVE  Evolves(job, wi, wi')
<1>1. CASE Mark
  BY <1>1, EvolvesRefl DEF Mark, Do
<1>2. CASE ThenTaken
  BY <1>2, PoppedEvolves DEF ThenTaken, Do
<1>3. CASE ThenSkipped
  <2>1. wi' = Popped(wi, 1) \/ wi' = Overrun(Popped(wi, 1))
    BY <1>3 DEF ThenSkipped, SkipBranch
  <2> QED BY <2>1, PoppedEvolves, PopThen
<1>4. CASE ElseSkipped
  <2>1. wi' = wi \/ wi' = Overrun(wi)
    BY <1>4 DEF ElseSkipped, SkipBranch
  <2> QED BY <2>1, EvolvesRefl, OverrunEvolves
<1>5. CASE RefuseSequence
  BY <1>5, PopThen DEF RefuseSequence, Do
<1> QED BY <1>1, <1>2, <1>3, <1>4, <1>5

-----------------------------------------------------------------------------
(* The contexts, the rows and the caller's lists                             *)

\* A row's machine takes over where its parent stands.
Linked(p, w) == w.out_size = p.out_size - Len(p.out) /\ w.in = p.in + p.in_pos

\* The machine of wi_parse() itself has the caller's buffers.
Outermost(j, w) == w.out_size = j.out_size /\ w.in = j.in

\* A context that waits in %J.
Held(j, s) ==
  /\ Sound(j, s.wi) /\ s.frames \in Frames(Word) /\ s.pending \in Word
  /\ s.list \in 1..Len(j.heap) /\ s.count \in Nat /\ s.row \in 1..s.count
  /\ s.count <= Len(j.heap[s.list].rows)

Nested(j, s, w) ==
  /\ \A c \in 1..Len(s) : Held(j, s[c])
  /\ \A c \in 1..Len(s)-1 : Linked(s[c].wi, s[c+1].wi)
  /\ s = <<>> => Outermost(j, w)
  /\ s # <<>> => Outermost(j, s[1].wi) /\ Linked(s[Len(s)].wi, w)

\* What a parse keeps of a caller's list m: its capacity and where its rows point.
KeptList(l, m) ==
  /\ IsList(l) /\ Len(l.rows) = Len(m.rows)
  /\ \A r \in 1..Len(l.rows) : l.rows[r].lists = m.rows[r].lists

HeapOK(j, h) ==
  /\ h \in Seq(RecordList) /\ Len(h) = Len(j.heap)
  /\ \A l \in 1..Len(h) : KeptList(h[l], j.heap[l])
  /\ j.encode => h = j.heap

RowsInside(j, h, end) ==
  \A l \in 1..Len(h) : \A r \in 1..Len(h[l].rows) : SlicesOK(j, h[l].rows[r].slices, end)

BlankRows(j) ==
  \A l \in 1..Len(j.heap) : \A r \in 1..Len(j.heap[l].rows) : \A x \in Slots :
     j.heap[l].rows[r].slices[x].data = NULL

\* The slices of stored rows, where the caller's rows held none.
Stored(j, h, t, w) ==
  ~j.encode /\ BlankRows(j) =>
    /\ RowsInside(j, h, j.in + j.in_size)
    /\ t = 1 /\ ~w.overrun => RowsInside(j, h, w.in + w.in_pos)

DataInv ==
  /\ status \in {"setup", "refused", "parsing", "returned", "trapped"}
  /\ status = "setup" => wi.faults = {} /\ ~wi.overrun
  /\ Sound(job, wi) /\ pending \in Word /\ frames \in Frames(Word)
  /\ Nested(job, suspended, wi)
  /\ HeapOK(job, heap)
  /\ Stored(job, heap, turn, wi)

LEMMA NestedEvolves ==
  ASSUME NEW j, NEW s, NEW w, NEW v, Nested(j, s, w), v.out_size = w.out_size, v.in = w.in
  PROVE  Nested(j, s, v)
<1>1. s = <<>> => Outermost(j, v)
  BY DEF Nested, Outermost
<1>2. s # <<>> => Linked(s[Len(s)].wi, v)
  BY DEF Nested, Linked
<1> QED BY <1>1, <1>2 DEF Nested

LEMMA NestedBegun ==
  ASSUME NEW j, NEW L, NEW s \in Contexts(L), NEW x \in Context(L), NEW w,
         Nested(j, s, x.wi), Held(j, x), Linked(x.wi, w)
  PROVE  Nested(j, Append(s, x), w)
<1>1. PICK t : t = Append(s, x)
  OBVIOUS
<1>2. /\ Len(s) \in Nat /\ Len(t) = Len(s) + 1 /\ t # <<>> /\ t[Len(s) + 1] = x
      /\ \A c \in 1..Len(s) : t[c] = s[c]
  BY <1>1 DEF Contexts
<1>3. ASSUME NEW c \in 1..Len(t)
      PROVE  Held(j, t[c])
  <2>1. CASE c = Len(s) + 1
    BY <1>2, <2>1
  <2>2. CASE c # Len(s) + 1
    <3>1. c \in 1..Len(s)
      BY <1>2, <2>2
    <3> QED BY <1>2, <3>1 DEF Nested
  <2> QED BY <2>1, <2>2
<1>4. ASSUME NEW c \in 1..Len(t)-1
      PROVE  Linked(t[c].wi, t[c+1].wi)
  <2>1. c \in 1..Len(s) /\ t[c] = s[c]
    BY <1>2
  <2>2. CASE c = Len(s)
    <3>1. s # <<>>
      BY <2>1
    <3>2. Linked(s[Len(s)].wi, x.wi)
      BY <3>1 DEF Nested
    <3> QED BY <1>2, <2>1, <2>2, <3>2
  <2>3. CASE c # Len(s)
    <3>1. c \in 1..Len(s)-1 /\ c + 1 \in 1..Len(s)
      BY <1>2, <2>1, <2>3
    <3>2. t[c+1] = s[c+1]
      BY <1>2, <3>1
    <3> QED BY <2>1, <3>1, <3>2 DEF Nested
  <2> QED BY <2>2, <2>3
<1>5. Outermost(j, t[1].wi)
  <2>1. CASE s = <<>>
    <3>1. t[1] = x
      BY <1>2, <2>1
    <3> QED BY <2>1, <3>1 DEF Nested
  <2>2. CASE s # <<>>
    <3>1. Len(s) > 0
      BY <2>2 DEF Contexts
    <3>2. t[1] = s[1]
      BY <1>2, <3>1
    <3> QED BY <2>2, <3>2 DEF Nested
  <2> QED BY <2>1, <2>2
<1>6. Linked(t[Len(t)].wi, w)
  BY <1>2
<1>7. Nested(j, t, w)
  BY <1>2, <1>3, <1>4, <1>5, <1>6 DEF Nested
<1> QED BY <1>1, <1>7

LEMMA NestedNext ==
  ASSUME NEW j, NEW L, NEW s \in Contexts(L), s # <<>>, NEW x \in Context(L), NEW u, NEW w,
         Nested(j, s, u), Held(j, x), Linked(x.wi, w),
         x.wi.out_size = s[Len(s)].wi.out_size, x.wi.in = s[Len(s)].wi.in,
         NEW t, t = [s EXCEPT ![Len(s)] = x]
  PROVE  Nested(j, t, w)
<1>2. PICK k : k = Len(s)
  OBVIOUS
<1>3. /\ k \in Nat \ {0} /\ Len(t) = k /\ t # <<>> /\ t[k] = x
      /\ \A c \in 1..k : c # k => t[c] = s[c]
  BY <1>2 DEF Contexts
<1>4. ASSUME NEW c \in 1..k
      PROVE  Held(j, t[c])
  <2>1. Held(j, s[c])
    BY <1>2 DEF Nested
  <2> QED BY <1>3, <2>1
<1>5. ASSUME NEW c \in 1..k-1
      PROVE  Linked(t[c].wi, t[c+1].wi)
  <2>1. c \in 1..k /\ c + 1 \in 1..k /\ t[c] = s[c]
    BY <1>3
  <2>2. Linked(s[c].wi, s[c+1].wi)
    BY <1>2 DEF Nested
  <2>3. CASE c + 1 = k
    <3>1. t[c+1] = x
      BY <1>3, <2>3
    <3>2. Linked(s[c].wi, x.wi)
      BY <1>2, <2>2, <2>3 DEF Linked
    <3> QED BY <2>1, <3>1, <3>2
  <2>4. CASE c + 1 # k
    BY <1>3, <2>1, <2>2, <2>4
  <2> QED BY <2>3, <2>4
<1>6. Outermost(j, t[1].wi)
  <2>1. Outermost(j, s[1].wi)
    BY DEF Nested
  <2>2. CASE k = 1
    <3>1. Outermost(j, x.wi)
      BY <1>2, <2>1, <2>2 DEF Outermost
    <3> QED BY <1>3, <2>2, <3>1
  <2>3. CASE k # 1
    BY <1>3, <2>1, <2>3
  <2> QED BY <2>2, <2>3
<1> QED BY <1>3, <1>4, <1>5, <1>6 DEF Nested

LEMMA NestedEnded ==
  ASSUME NEW j, NEW L, NEW s \in Contexts(L), s # <<>>, NEW u, NEW w, Nested(j, s, u),
         w.out_size = s[Len(s)].wi.out_size, w.in = s[Len(s)].wi.in
  PROVE  Nested(j, SubSeq(s, 1, Len(s) - 1), w)
<1>1. PICK t : t = SubSeq(s, 1, Len(s) - 1)
  OBVIOUS
<1>2. PICK k : k = Len(s)
  OBVIOUS
<1>3. /\ k \in Nat \ {0} /\ Len(t) = k - 1 /\ \A c \in 1..k-1 : t[c] = s[c]
      /\ t \in Contexts(L)
  BY <1>1, <1>2, ButLast DEF Contexts
<1>4. \A c \in 1..Len(t) : Held(j, t[c])
  <2>1. \A c \in 1..k-1 : c \in 1..k
    BY <1>3
  <2> QED BY <1>2, <1>3, <2>1 DEF Nested
<1>5. ASSUME NEW c \in 1..Len(t)-1
      PROVE  Linked(t[c].wi, t[c+1].wi)
  <2>1. c \in 1..k-1 /\ c + 1 \in 1..k-1
    BY <1>3
  <2>2. t[c] = s[c] /\ t[c+1] = s[c+1]
    BY <1>3, <2>1
  <2> QED BY <1>2, <2>1, <2>2 DEF Nested
<1>6. CASE t = <<>>
  <2>1. k = 1
    BY <1>3, <1>6
  <2>2. Outermost(j, w)
    <3>1. Outermost(j, s[1].wi)
      BY DEF Nested
    <3> QED BY <1>2, <2>1, <3>1 DEF Outermost
  <2>3. Nested(j, t, w)
    BY <1>4, <1>5, <1>6, <2>2 DEF Nested
  <2> QED BY <1>1, <2>3
<1>7. CASE t # <<>>
  <2>1. k - 1 \in 1..k-1 /\ 1 \in 1..k-1 /\ (k - 1) + 1 = k
    BY <1>3, <1>7 DEF Contexts
  <2>2. t[Len(t)] = s[k-1] /\ t[1] = s[1]
    BY <1>3, <2>1
  <2>3. Linked(s[k-1].wi, w)
    <3>1. Linked(s[k-1].wi, s[(k-1)+1].wi)
      BY <1>2, <2>1 DEF Nested
    <3> QED BY <1>2, <2>1, <3>1 DEF Linked
  <2>4. Outermost(j, t[1].wi)
    BY <2>2 DEF Nested
  <2>5. Nested(j, t, w)
    BY <1>4, <1>5, <1>7, <2>2, <2>3, <2>4 DEF Nested
  <2> QED BY <1>1, <2>5
<1> QED BY <1>6, <1>7

-----------------------------------------------------------------------------
(* The caller's lists                                                        *)

\* Slices that end before a cursor end before any later one.
LEMMA SlicesLater ==
  ASSUME NEW j, NEW f \in [Slots -> Slice], NEW a \in Int, NEW b \in Int, a <= b,
         SlicesOK(j, f, a)
  PROVE  SlicesOK(j, f, b)
<1>1. ASSUME NEW x \in Slots
      PROVE  SliceOK(j, f[x], b)
  <2>1. SliceOK(j, f[x], a)
    BY DEF SlicesOK
  <2>2. f[x].data \in Nat /\ f[x].length \in Nat
    BY DEF Slice
  <2> QED BY <2>1, <2>2 DEF SliceOK
<1> QED BY <1>1 DEF SlicesOK

LEMMA RowTyped ==
  ASSUME NEW j, NEW h, HeapOK(j, h), NEW l \in 1..Len(h), NEW r \in 1..Len(h[l].rows)
  PROVE  /\ h[l] \in RecordList /\ h[l].rows \in Seq(Row)
         /\ Len(h[l].rows) \in Nat /\ h[l].rows[r] \in Row
         /\ h[l].rows[r].slices \in [Slots -> Slice]
         /\ h[l].rows[r].values \in [Slots -> Word]
<1>1. h[l] \in RecordList
  BY DEF HeapOK
<1>2. h[l].rows \in Seq(Row)
  BY <1>1 DEF RecordList
<1>3. Len(h[l].rows) \in Nat /\ h[l].rows[r] \in Row
  BY <1>2
<1> QED BY <1>1, <1>2, <1>3 DEF Row

LEMMA RowsLater ==
  ASSUME NEW j, NEW h, HeapOK(j, h), NEW a \in Int, NEW b \in Int, a <= b, RowsInside(j, h, a)
  PROVE  RowsInside(j, h, b)
<1>1. ASSUME NEW l \in 1..Len(h), NEW r \in 1..Len(h[l].rows)
      PROVE  SlicesOK(j, h[l].rows[r].slices, b)
  <2>1. h[l].rows[r].slices \in [Slots -> Slice]
    BY RowTyped
  <2>2. SlicesOK(j, h[l].rows[r].slices, a)
    BY DEF RowsInside
  <2> QED BY <2>1, <2>2, SlicesLater
<1> QED BY <1>1 DEF RowsInside

\* The cursor only moves on, and only within the input.
LEMMA StoredEvolves ==
  ASSUME NEW j, NEW h, NEW t, NEW w, NEW v, HeapOK(j, h), Sound(j, w), Evolves(j, w, v),
         Stored(j, h, t, w)
  PROVE  Stored(j, h, t, v)
<1> SUFFICES ASSUME ~j.encode, BlankRows(j)
             PROVE  /\ RowsInside(j, h, j.in + j.in_size)
                    /\ t = 1 /\ ~v.overrun => RowsInside(j, h, v.in + v.in_pos)
  BY DEF Stored
<1>1. RowsInside(j, h, j.in + j.in_size)
  BY DEF Stored
<1>2. ASSUME t = 1, ~v.overrun
      PROVE  RowsInside(j, h, v.in + v.in_pos)
  <2>1. /\ v.in = w.in /\ w.in_pos <= v.in_pos /\ ~w.overrun /\ Sound(j, v)
    BY <1>2 DEF Evolves
  <2>2. w.in \in Nat /\ w.in_pos \in Nat /\ v.in_pos \in Nat
    BY <2>1, SoundTypes
  <2>3. RowsInside(j, h, w.in + w.in_pos)
    BY <1>2, <2>1 DEF Stored
  <2>4. w.in + w.in_pos <= v.in + v.in_pos
    BY <2>1, <2>2
  <2>5. w.in + w.in_pos \in Int /\ v.in + v.in_pos \in Int
    BY <2>1, <2>2
  <2> QED BY <2>3, <2>4, <2>5, RowsLater
<1> QED BY <1>1, <1>2

\* One element of a sequence replaced.
LEMMA Replaced ==
  ASSUME NEW S, NEW h \in Seq(S), NEW l \in 1..Len(h), NEW x \in S
  PROVE  /\ [h EXCEPT ![l] = x] \in Seq(S) /\ Len([h EXCEPT ![l] = x]) = Len(h)
         /\ [h EXCEPT ![l] = x][l] = x
         /\ \A m \in 1..Len(h) : m # l => [h EXCEPT ![l] = x][m] = h[m]
OBVIOUS

\* Announcing a count that fits.
LEMMA Announces ==
  ASSUME NEW j, NEW h, HeapOK(j, h), ~j.encode, NEW l \in 1..Len(h),
         NEW n \in Nat, n <= Len(h[l].rows), NEW g, g = [h EXCEPT ![l].count = n]
  PROVE  HeapOK(j, g) /\ \A end : RowsInside(j, h, end) => RowsInside(j, g, end)
<1>1. PICK lst : lst = [h[l] EXCEPT !.count = n]
  OBVIOUS
<1>2. h \in Seq(RecordList) /\ Len(h) \in Nat /\ h[l] \in RecordList /\ IsList(h[l])
  BY DEF HeapOK, KeptList
<1>3. /\ lst \in RecordList /\ lst.rows = h[l].rows /\ lst.count = n
      /\ lst.backed = h[l].backed
  BY <1>1, <1>2 DEF RecordList
<1>4. IsList(lst)
  BY <1>2, <1>3 DEF IsList
<1>5. g = [h EXCEPT ![l] = lst]
  BY <1>1
<1>6. /\ g \in Seq(RecordList) /\ Len(g) = Len(h) /\ g[l] = lst
      /\ \A m \in 1..Len(h) : m # l => g[m] = h[m]
  BY <1>2, <1>3, <1>5
<1>7. ASSUME NEW m \in 1..Len(g)
      PROVE  KeptList(g[m], j.heap[m]) /\ g[m].rows = h[m].rows
  <2>1. KeptList(h[m], j.heap[m])
    BY <1>6 DEF HeapOK
  <2>2. CASE m = l
    BY <1>3, <1>4, <1>6, <2>1, <2>2 DEF KeptList
  <2>3. CASE m # l
    BY <1>6, <2>1, <2>3
  <2> QED BY <2>2, <2>3
<1>8. HeapOK(j, g)
  BY <1>6, <1>7 DEF HeapOK
<1>9. ASSUME NEW end, RowsInside(j, h, end)
      PROVE  RowsInside(j, g, end)
  BY <1>6, <1>7, <1>9 DEF RowsInside
<1> QED BY <1>8, <1>9

RowAt(h, l, r)         == l \in 1..Len(h) /\ r \in 1..Len(h[l].rows)
RowSet(h, l, r, row)   == [h EXCEPT ![l].rows[r] = row]
SameLists(h, l, r, row) == row \in Row /\ row.lists = h[l].rows[r].lists

\* Storing the fields of a finished row.
LEMMA Stores ==
  ASSUME NEW j, NEW h, HeapOK(j, h), ~j.encode, NEW l, NEW r, RowAt(h, l, r),
         NEW row, SameLists(h, l, r, row), NEW g, g = RowSet(h, l, r, row)
  PROVE  /\ HeapOK(j, g)
         /\ \A end : RowsInside(j, h, end) /\ SlicesOK(j, row.slices, end) => RowsInside(j, g, end)
<1>0. /\ l \in 1..Len(h) /\ r \in 1..Len(h[l].rows) /\ row \in Row
      /\ row.lists = h[l].rows[r].lists /\ g = [h EXCEPT ![l].rows[r] = row]
  BY DEF RowAt, RowSet, SameLists
<1> USE <1>0
<1>1. PICK rows : rows = [h[l].rows EXCEPT ![r] = row]
  OBVIOUS
<1>2. PICK lst : lst = [h[l] EXCEPT !.rows = rows]
  OBVIOUS
<1>3. /\ h \in Seq(RecordList) /\ Len(h) \in Nat /\ h[l] \in RecordList /\ IsList(h[l])
      /\ h[l].rows \in Seq(Row) /\ Len(h[l].rows) \in Nat
  <2>1. h \in Seq(RecordList) /\ Len(h) \in Nat /\ IsList(h[l])
    BY DEF HeapOK, KeptList
  <2> QED BY <2>1, RowTyped
<1>4. /\ rows \in Seq(Row) /\ Len(rows) = Len(h[l].rows) /\ rows[r] = row
      /\ \A q \in 1..Len(h[l].rows) : q # r => rows[q] = h[l].rows[q]
  BY <1>1, <1>3
<1>5. /\ lst \in RecordList /\ lst.rows = rows /\ lst.count = h[l].count
      /\ lst.backed = h[l].backed
  BY <1>2, <1>3, <1>4 DEF RecordList
<1>6. IsList(lst)
  <2>1. h[l].count <= Len(h[l].rows)
    BY <1>3 DEF IsList
  <2>2. h[l].backed
    <3>1. h[l].rows # <<>>
      BY <1>3
    <3> QED BY <1>3, <3>1 DEF IsList
  <2> QED BY <1>4, <1>5, <2>1, <2>2 DEF IsList
<1>7. g = [h EXCEPT ![l] = lst]
  BY <1>1, <1>2
<1>8. /\ g \in Seq(RecordList) /\ Len(g) = Len(h) /\ g[l] = lst
      /\ \A m \in 1..Len(h) : m # l => g[m] = h[m]
  <2>1. h \in Seq(RecordList) /\ lst \in RecordList
    BY <1>3, <1>5
  <2>2. PICK k : k = [h EXCEPT ![l] = lst]
    OBVIOUS
  <2>3. /\ k \in Seq(RecordList) /\ Len(k) = Len(h) /\ k[l] = lst
        /\ \A m \in 1..Len(h) : m # l => k[m] = h[m]
    BY <2>1, <2>2, Replaced
  <2>4. g = k
    BY <1>7, <2>2
  <2> QED BY <2>3, <2>4
<1>9. ASSUME NEW m \in 1..Len(g)
      PROVE  KeptList(g[m], j.heap[m])
  <2>1. KeptList(h[m], j.heap[m])
    BY <1>8 DEF HeapOK
  <2>2. CASE m = l
    <3>1. Len(lst.rows) = Len(j.heap[l].rows)
      BY <1>4, <1>5, <2>1, <2>2 DEF KeptList
    <3>2. ASSUME NEW q \in 1..Len(lst.rows)
          PROVE  lst.rows[q].lists = j.heap[l].rows[q].lists
      <4>1. h[l].rows[q].lists = j.heap[l].rows[q].lists
        BY <1>4, <1>5, <2>1, <2>2 DEF KeptList
      <4> QED BY <1>4, <1>5, <4>1
    <3> QED BY <1>6, <1>8, <2>2, <3>1, <3>2 DEF KeptList
  <2>3. CASE m # l
    BY <1>8, <2>1, <2>3
  <2> QED BY <2>2, <2>3
<1>10. HeapOK(j, g)
  BY <1>8, <1>9 DEF HeapOK
<1>11. ASSUME NEW end, RowsInside(j, h, end), SlicesOK(j, row.slices, end)
       PROVE  RowsInside(j, g, end)
  <2>1. ASSUME NEW m \in 1..Len(g), NEW q \in 1..Len(g[m].rows)
        PROVE  SlicesOK(j, g[m].rows[q].slices, end)
    <3>1. CASE m = l /\ q = r
      BY <1>4, <1>5, <1>8, <1>11, <3>1
    <3>2. CASE m = l /\ q # r
      <4>1. q \in 1..Len(h[l].rows) /\ g[m].rows[q] = h[l].rows[q]
        BY <1>4, <1>5, <1>8, <3>2
      <4> QED BY <1>11, <4>1 DEF RowsInside
    <3>3. CASE m # l
      <4>1. g[m] = h[m] /\ m \in 1..Len(h)
        BY <1>8, <3>3
      <4> QED BY <1>11, <4>1 DEF RowsInside
    <3> QED BY <3>1, <3>2, <3>3
  <2> QED BY <2>1 DEF RowsInside
<1> QED BY <1>10, <1>11

-----------------------------------------------------------------------------
(* A row's machine, and what %J takes from it                                *)

\* The arguments, slices and lists that a row brings.
Brought(h, params, f, lists) ==
  h \in Nat /\ params \in [Slots -> Word] /\ f \in [Slots -> Slice] /\ lists \in [Slots -> 0..h]

Encoder(size, params, f, lists)     == Machine(TRUE, size, 0, 0, params, f, lists)
Decoder(in, size, params, f, lists) == Machine(FALSE, 0, in, size, params, f, lists)

\* What wi_init() sets has the types of its fields.
LEMMA EncoderTyped ==
  ASSUME NEW h, NEW size \in Nat,
         NEW params, NEW f, NEW lists, Brought(h, params, f, lists)
  PROVE  Encoder(size, params, f, lists) \in MachineRec(h)
<1>1. 0 \in Word /\ 0 \in Byte
  BY Words_
<1>2. [x \in Vars |-> 0] \in [Vars -> Word] /\ <<>> \in Seq(Word) /\ <<>> \in Seq(Byte)
  BY <1>1
<1> QED BY <1>1, <1>2 DEF Encoder, Machine, MachineRec, Brought

\* What wi_decode_init() sets has the types of its fields.
LEMMA DecoderTyped ==
  ASSUME NEW h, NEW in \in Nat, NEW size \in Nat,
         NEW params, NEW f, NEW lists, Brought(h, params, f, lists)
  PROVE  Decoder(in, size, params, f, lists) \in MachineRec(h)
<1>1. 0 \in Word /\ 0 \in Byte
  BY Words_
<1>2. [x \in Vars |-> 0] \in [Vars -> Word] /\ <<>> \in Seq(Word) /\ <<>> \in Seq(Byte)
  BY <1>1
<1> QED BY <1>1, <1>2 DEF Decoder, Machine, MachineRec, Brought

\* A fresh machine is sound when its window is.
LEMMA FreshSound ==
  ASSUME NEW j, NEW w, w \in MachineRec(Len(j.heap)), w.encode = j.encode,
         w.fstack = <<>>, w.out = <<>>, w.in_pos = 0,
         j.in \in Nat, j.in_size \in Nat, j.in <= w.in, w.in + w.in_size = j.in + j.in_size,
         ~j.encode => w.out_size = 0, SlicesOK(j, w.slices, w.in)
  PROVE  Sound(j, w)
<1>1. w.in \in Nat /\ w.in_size \in Nat /\ w.out_size \in Nat
  BY DEF MachineRec
<1>2. Len(w.fstack) <= STACK_DEPTH /\ Len(w.out) <= w.out_size /\ w.in_pos <= w.in_size
  BY <1>1, LimitsAssumption
<1>3. SlicesOK(j, w.slices, w.in + w.in_pos)
  <2>1. w.in + w.in_pos = w.in
    BY <1>1
  <2> QED BY <2>1
<1> QED BY <1>2, <1>3 DEF Sound

LEMMA ChildSound ==
  ASSUME ControlInv, HeapOK(job, heap), NEW w, Sound(job, w),
         NEW l \in 1..Len(heap), NEW r \in 1..Len(heap[l].rows)
  PROVE  /\ Sound(job, Child(w, l, r)) /\ Linked(w, Child(w, l, r))
         /\ Child(w, l, r).in_pos = 0 /\ ~Child(w, l, r).overrun
<1>1. /\ w.encode = job.encode /\ w.out_size \in Nat /\ Len(w.out) \in Nat
      /\ Len(w.out) <= w.out_size /\ w.in \in Nat /\ w.in_size \in Nat
      /\ w.in_pos \in Nat /\ w.in_pos <= w.in_size /\ job.in \in Nat /\ job.in_size \in Nat
      /\ job.in <= w.in /\ w.in + w.in_size = job.in + job.in_size
  BY SoundTypes
<1>2. ~job.encode => w.out_size = 0
  BY DEF Sound
<1>3. /\ job.encode \in BOOLEAN
      /\ job.encode => job.in = 0 /\ job.in_size = 0
  BY JobTyped
<1> DEFINE row == heap[l].rows[r]
           Own(f, zero) == [x \in Slots |-> IF x < heap[l].fields THEN f[x] ELSE zero]
<1>4. row.values \in [Slots -> Word] /\ row.slices \in [Slots -> Slice]
  BY RowTyped
<1>5. Len(job.heap) \in Nat /\ row.lists \in [Slots -> 0..Len(job.heap)]
  <2>1. row.lists = job.heap[l].rows[r].lists /\ l \in 1..Len(job.heap)
        /\ r \in 1..Len(job.heap[l].rows)
    BY DEF HeapOK, KeptList
  <2>2. job.heap[l].rows[r].lists \in [Slots -> 0..Len(job.heap)]
    BY <2>1, JobTyped DEF IsJob
  <2> QED BY <2>1, <2>2, JobTyped
<1>6. Own(row.lists, NULL) \in [Slots -> 0..Len(job.heap)]
  BY <1>5, SMTT(30) DEF NULL
<1>9. w.out_size - Len(w.out) \in Nat /\ (w.out_size = 0 => w.out_size - Len(w.out) = 0)
  <2>1. PICK a \in Nat, b \in Nat : a = w.out_size /\ b = Len(w.out)
    BY <1>1
  <2>2. b <= a
    BY <1>1, <2>1
  <2>3. a - b \in Nat /\ (a = 0 => a - b = 0)
    BY <2>2
  <2> QED BY <2>1, <2>3
<1>7. CASE job.encode
  <2>1. Own(row.values, 0) \in [Slots -> Word]
    BY <1>4, Words_
  <2>2. Own(row.slices, NoSlice) \in [Slots -> Slice]
    BY <1>4 DEF NoSlice, Slice, NULL
  <2>3. SlicesOK(job, Own(row.slices, NoSlice), 0)
    <3>1. ASSUME NEW x \in Slots
          PROVE  InMemory(Own(row.slices, NoSlice)[x], job.mem)
      <4>1. heap = job.heap
        BY <1>7 DEF HeapOK
      <4>2. InMemory(row.slices[x], job.mem)
        BY <1>7, <4>1, JobTyped DEF IsJob
      <4>3. InMemory(NoSlice, job.mem)
        BY DEF InMemory, NoSlice
      <4>4. Own(row.slices, NoSlice)[x] = row.slices[x] \/ Own(row.slices, NoSlice)[x] = NoSlice
        OBVIOUS
      <4> QED BY <4>2, <4>3, <4>4
    <3> HIDE DEF Own
    <3> QED BY <1>7, <3>1 DEF SlicesOK, SliceOK
  <2>4. w.in = 0 /\ w.in_pos = 0 /\ job.in = 0 /\ job.in_size = 0
    <3>1. job.in = 0 /\ job.in_size = 0
      BY <1>3, <1>7
    <3>2. w.in + w.in_size = 0
      BY <1>1, <3>1
    <3>3. w.in = 0 /\ w.in_size = 0
      BY <1>1, <3>2
    <3>4. w.in_pos = 0
      BY <1>1, <3>3
    <3> QED BY <3>1, <3>3, <3>4
  <2>5. PICK room \in Nat : room = w.out_size - Len(w.out)
    BY <1>9
  <2>6. Child(w, l, r) = Machine(TRUE, room, 0, 0, Own(row.values, 0),
                                 Own(row.slices, NoSlice), Own(row.lists, NULL))
    BY <1>1, <1>3, <1>7, <2>5 DEF Child, NULL
  <2>7. PICK params \in [Slots -> Word], f \in [Slots -> Slice], lists \in [Slots -> 0..Len(job.heap)] :
          /\ SlicesOK(job, f, 0)
          /\ Child(w, l, r) = Machine(TRUE, room, 0, 0, params, f, lists)
    BY <1>6, <2>1, <2>2, <2>3, <2>6
  <2>8. /\ Sound(job, Child(w, l, r)) /\ Child(w, l, r).out_size = room
        /\ Child(w, l, r).in = 0 /\ Child(w, l, r).in_pos = 0 /\ ~Child(w, l, r).overrun
    <3>1. PICK v : v = Encoder(room, params, f, lists)
      OBVIOUS
    <3>2. /\ v \in MachineRec(Len(job.heap)) /\ v.encode = TRUE /\ v.fstack = <<>>
          /\ v.slices = f /\ v.out = <<>> /\ v.out_size = room /\ v.in = 0 /\ v.in_size = 0
          /\ v.in_pos = 0 /\ ~v.overrun
      <4>1. Brought(Len(job.heap), params, f, lists)
        BY <1>5 DEF Brought
      <4>2. v \in MachineRec(Len(job.heap))
        BY <3>1, <4>1, EncoderTyped
      <4> QED BY <3>1, <4>2 DEF Encoder, Machine
    <3>3. job.in \in Nat /\ job.in_size \in Nat /\ job.in <= v.in
          /\ v.in + v.in_size = job.in + job.in_size
      BY <2>4, <3>2
    <3>4. v.encode = job.encode /\ SlicesOK(job, v.slices, v.in)
      BY <1>3, <1>7, <2>7, <3>2
    <3>5. Sound(job, v)
      BY <1>7, <3>2, <3>3, <3>4, FreshSound
    <3> QED BY <2>7, <3>1, <3>2, <3>5 DEF Encoder, Decoder
  <2> QED BY <2>4, <2>5, <2>8 DEF Linked
<1>8. CASE ~job.encode
  <2>1. [x \in Slots |-> 0] \in [Slots -> Word]
    BY Words_
  <2>2. [x \in Slots |-> NoSlice] \in [Slots -> Slice]
    BY DEF NoSlice, Slice, NULL
  <2>3. SlicesOK(job, [x \in Slots |-> NoSlice], w.in + w.in_pos)
    BY <1>8 DEF SlicesOK, SliceOK, NoSlice
  <2>4. /\ w.in + w.in_pos \in Nat /\ w.in_size - w.in_pos \in Nat
        /\ job.in <= w.in + w.in_pos
        /\ (w.in + w.in_pos) + (w.in_size - w.in_pos) = job.in + job.in_size
    <3>1. PICK a \in Nat, b \in Nat, c \in Nat : a = w.in /\ b = w.in_size /\ c = w.in_pos
      BY <1>1
    <3>2. c <= b /\ job.in <= a /\ a + b = job.in + job.in_size
      BY <1>1, <3>1
    <3>3. a + c \in Nat /\ b - c \in Nat /\ job.in <= a + c /\ (a + c) + (b - c) = a + b
      BY <1>1, <3>2
    <3> QED BY <3>1, <3>2, <3>3
  <2>5. PICK in \in Nat, size \in Nat : in = w.in + w.in_pos /\ size = w.in_size - w.in_pos
    BY <2>4
  <2>6. Child(w, l, r) = Machine(FALSE, 0, in, size, [x \in Slots |-> 0],
                                 [x \in Slots |-> NoSlice], Own(row.lists, NULL))
    BY <1>1, <1>3, <1>8, <2>5 DEF Child, NULL
  <2>7. PICK params \in [Slots -> Word], f \in [Slots -> Slice], lists \in [Slots -> 0..Len(job.heap)] :
          /\ SlicesOK(job, f, in)
          /\ Child(w, l, r) = Machine(FALSE, 0, in, size, params, f, lists)
    BY <1>6, <2>1, <2>2, <2>3, <2>5, <2>6
  <2>8. /\ Sound(job, Child(w, l, r)) /\ Child(w, l, r).out_size = 0
        /\ Child(w, l, r).in = in /\ Child(w, l, r).in_pos = 0 /\ ~Child(w, l, r).overrun
    <3>1. PICK v : v = Decoder(in, size, params, f, lists)
      OBVIOUS
    <3>2. /\ v \in MachineRec(Len(job.heap)) /\ v.encode = FALSE /\ v.fstack = <<>>
          /\ v.slices = f /\ v.out = <<>> /\ v.out_size = 0 /\ v.in = in /\ v.in_size = size
          /\ v.in_pos = 0 /\ ~v.overrun
      <4>1. Brought(Len(job.heap), params, f, lists)
        BY <1>5 DEF Brought
      <4>2. v \in MachineRec(Len(job.heap))
        BY <3>1, <4>1, DecoderTyped
      <4> QED BY <3>1, <4>2 DEF Decoder, Machine
    <3>3. job.in \in Nat /\ job.in_size \in Nat /\ job.in <= v.in
          /\ v.in + v.in_size = job.in + job.in_size
      BY <1>1, <2>4, <2>5, <3>2
    <3>4. v.encode = job.encode /\ SlicesOK(job, v.slices, v.in)
      BY <1>3, <1>8, <2>7, <3>2
    <3>5. Sound(job, v)
      BY <3>2, <3>3, <3>4, FreshSound
    <3> QED BY <2>7, <3>1, <3>2, <3>5 DEF Encoder, Decoder
  <2>9. w.out_size - Len(w.out) = 0
    BY <1>2, <1>8, <1>9
  <2> QED BY <2>5, <2>8, <2>9 DEF Linked
<1> QED BY <1>3, <1>7, <1>8

\* The parent of a finished row takes its faults, and its bytes or its place.
LEMMA MergedEvolves ==
  ASSUME ControlInv, suspended # <<>>, Sound(job, Parent.wi), Sound(job, wi),
         Linked(Parent.wi, wi)
  PROVE  /\ Evolves(job, Parent.wi, Merged) /\ wi.faults \subseteq Merged.faults
         /\ wi.overrun => Merged.overrun
         /\ ~job.encode /\ ~Merged.overrun => /\ ~wi.overrun
                                              /\ Merged.in + Merged.in_pos = wi.in + wi.in_pos
<1>1. PICK p : p = Parent.wi
  OBVIOUS
<1>2. PICK f : f = p.faults \cup wi.faults
  OBVIOUS
<1>3. PICK u : u = [p EXCEPT !.faults = f]
  OBVIOUS
<1>4. Sound(job, p) /\ p \in MachineRec(Len(job.heap))
  BY <1>1, SoundTypes
<1>5. Evolves(job, p, u)
  <2>1. f \in SUBSET FaultBits /\ p.faults \subseteq f
    <3>1. p.faults \subseteq FaultBits /\ wi.faults \subseteq FaultBits
      BY <1>4, SoundTypes
    <3> QED BY <1>2, <3>1
  <2> QED BY <1>3, <1>4, <2>1, SetFaults
<1>6. Sound(job, u) /\ u \in MachineRec(Len(job.heap))
  <2>1. Sound(job, u)
    BY <1>5 DEF Evolves
  <2> QED BY <2>1, SoundTypes
<1>7. /\ u.encode = p.encode /\ u.out = p.out /\ u.out_size = p.out_size /\ u.in = p.in
      /\ u.in_size = p.in_size /\ u.in_pos = p.in_pos /\ u.faults = f /\ u.overrun = p.overrun
  BY <1>3, <1>4 DEF MachineRec
<1>8. Merged = IF wi.overrun THEN Overrun(u)
               ELSE IF u.encode THEN [u EXCEPT !.out = u.out \o wi.out]
               ELSE Skip(u, wi.in_pos)
  BY <1>1, <1>2, <1>3 DEF Merged
<1>9. wi.faults \subseteq u.faults
  BY <1>2, <1>7
<1>10. Linked(p, wi)
  BY <1>1
<1>11. CASE wi.overrun
  <2>1. Evolves(job, u, Overrun(u)) /\ Overrun(u).overrun
    BY <1>6, OverrunEvolves DEF Overrun, MachineRec
  <2>2. Merged = Overrun(u)
    BY <1>8, <1>11
  <2>3. Evolves(job, p, Merged) /\ u.faults \subseteq Merged.faults
    BY <1>4, <1>5, <2>1, <2>2, EvolvesOn DEF Evolves
  <2> QED BY <1>1, <1>9, <2>1, <2>2, <2>3
<1>12. CASE ~wi.overrun /\ u.encode
  <2>1. PICK s : s = u.out \o wi.out
    OBVIOUS
  <2>2. /\ u.out \in Seq(Byte) /\ Len(u.out) \in Nat /\ u.out_size \in Nat
        /\ wi.out \in Seq(Byte) /\ Len(wi.out) \in Nat /\ Len(wi.out) <= wi.out_size
        /\ wi.out_size \in Nat
    BY <1>6, SoundTypes
  <2>3. s \in Seq(Byte) /\ Len(s) = Len(u.out) + Len(wi.out)
    BY <2>1, <2>2
  <2>4. wi.out_size = u.out_size - Len(u.out)
    BY <1>7, <1>10 DEF Linked
  <2>5. Len(s) <= u.out_size
    <3>1. PICK a \in Nat, b \in Nat, c \in Nat, d \in Nat :
            a = Len(u.out) /\ b = Len(wi.out) /\ c = u.out_size /\ d = wi.out_size
      BY <2>2
    <3>2. b <= d /\ d = c - a /\ Len(s) = a + b
      BY <2>2, <2>3, <2>4, <3>1
    <3>3. a + b <= c
      BY <3>2
    <3> QED BY <3>1, <3>2, <3>3
  <2>6. Merged = [u EXCEPT !.out = s]
    BY <1>8, <1>12, <2>1
  <2>7. Evolves(job, u, Merged)
    BY <1>6, <2>3, <2>5, <2>6, SetOut
  <2>8. Evolves(job, p, Merged) /\ u.faults \subseteq Merged.faults
    BY <1>4, <1>5, <2>7, EvolvesOn DEF Evolves
  <2>9. job.encode
    BY <1>6, <1>12 DEF Sound
  <2> QED BY <1>1, <1>9, <1>12, <2>8, <2>9
<1>13. CASE ~wi.overrun /\ ~u.encode
  <2>1. /\ wi.in_pos \in Nat /\ wi.in_size \in Nat /\ wi.in_pos <= wi.in_size /\ wi.in \in Nat
        /\ u.in \in Nat /\ u.in_size \in Nat /\ u.in_pos \in Nat
        /\ wi.in + wi.in_size = job.in + job.in_size /\ u.in + u.in_size = job.in + job.in_size
        /\ job.in \in Nat /\ job.in_size \in Nat
    BY <1>6, SoundTypes
  <2>2. wi.in = u.in + u.in_pos
    BY <1>7, <1>10 DEF Linked
  <2>3. wi.in_pos <= u.in_size - u.in_pos
    BY <2>1, <2>2
  <2>4. Merged = Skip(u, wi.in_pos)
    BY <1>8, <1>13
  <2>5. Evolves(job, u, Merged)
    BY <1>6, <2>1, <2>3, <2>4, SkipEvolves
  <2>6. Merged.in = u.in /\ Merged.in_pos = u.in_pos + wi.in_pos
    BY <1>6, <2>4 DEF Skip, MachineRec
  <2>7. Merged.in + Merged.in_pos = wi.in + wi.in_pos
    BY <2>1, <2>2, <2>6
  <2>8. Evolves(job, p, Merged) /\ u.faults \subseteq Merged.faults
    BY <1>4, <1>5, <2>5, EvolvesOn DEF Evolves
  <2> QED BY <1>1, <1>9, <1>13, <2>7, <2>8
<1> QED BY <1>11, <1>12, <1>13

-----------------------------------------------------------------------------
(* The steps                                                                 *)

\* A step of the running machine that touches no other.
LEMMA MachineOnly ==
  ASSUME DataInv, Evolves(job, wi, wi'), UNCHANGED <<job, turn, suspended, heap>>,
         pending' \in Word, frames' \in Frames(Word),
         status' \in {"refused", "parsing", "returned", "trapped"}
  PROVE  DataInv'
<1>1. /\ Sound(job, wi) /\ Nested(job, suspended, wi) /\ HeapOK(job, heap)
      /\ Stored(job, heap, turn, wi)
  BY DEF DataInv
<1>2. Sound(job, wi') /\ wi'.out_size = wi.out_size /\ wi'.in = wi.in
  BY DEF Evolves
<1>3. Nested(job, suspended, wi')
  BY <1>1, <1>2, NestedEvolves
<1>4. Stored(job, heap, turn, wi')
  BY <1>1, StoredEvolves
<1> QED BY <1>1, <1>2, <1>3, <1>4 DEF DataInv

\* The handlers that compute on the machine alone.
LEMMA HandlersEvolve ==
  ASSUME ControlInv, Sound(job, wi), HeapOK(job, heap),
         \/ EmitLiteral \/ PushLiteral \/ PushParam \/ LoadVar \/ StoreVar \/ RaiseFault
         \/ BinaryOp \/ UnaryOp \/ BadSpecifier \/ EmitNumber \/ ReadNumber \/ EmitSdnv
         \/ ReadSdnv \/ PackBits \/ UnpackBits \/ FlushBits \/ EmitArray \/ CaptureRest
         \/ CaptureExact \/ SliceLength \/ EmitSlice \/ EmitExact \/ ListCount \/ Mark
         \/ ThenTaken \/ RefuseSequence \/ ThenSkipped \/ ElseSkipped
  PROVE  Evolves(job, wi, wi')
<1>1. CASE EmitLiteral
  BY <1>1, LiteralEvolves
<1>2. CASE PushLiteral \/ PushParam \/ LoadVar \/ BinaryOp \/ UnaryOp \/ BadSpecifier
  BY <1>2, StackEvolves
<1>3. CASE StoreVar
  BY <1>3, StoreEvolves
<1>4. CASE RaiseFault
  BY <1>4, FaultEvolves
<1>5. CASE EmitNumber \/ ReadNumber
  BY <1>5, NumberEvolves
<1>6. CASE EmitSdnv \/ ReadSdnv
  BY <1>6, SdnvEvolves
<1>7. CASE PackBits \/ UnpackBits \/ FlushBits
  BY <1>7, BitsEvolve
<1>8. CASE EmitArray
  BY <1>8, ArrayEvolves
<1>9. CASE CaptureRest \/ CaptureExact
  BY <1>9, CaptureEvolves
<1>10. CASE SliceLength \/ EmitSlice \/ EmitExact \/ ListCount
  BY <1>10, SliceEvolves
<1>11. CASE Mark \/ ThenTaken \/ ThenSkipped \/ ElseSkipped \/ RefuseSequence
  BY <1>11, BranchEvolves
<1> QED BY <1>1, <1>2, <1>3, <1>4, <1>5, <1>6, <1>7, <1>8, <1>9, <1>10, <1>11

\* A handler that only computes leaves everything but its machine as it was.
LEMMA HandlersKeepData ==
  ASSUME ControlInv, DataInv,
         \/ EmitLiteral \/ PushLiteral \/ PushParam \/ LoadVar \/ StoreVar \/ RaiseFault
         \/ BinaryOp \/ UnaryOp \/ BadSpecifier \/ EmitNumber \/ ReadNumber \/ EmitSdnv
         \/ ReadSdnv \/ PackBits \/ UnpackBits \/ FlushBits \/ EmitArray \/ CaptureRest
         \/ CaptureExact \/ SliceLength \/ EmitSlice \/ EmitExact \/ ListCount \/ Mark
         \/ ThenTaken \/ RefuseSequence \/ ThenSkipped \/ ElseSkipped
  PROVE  DataInv'
<1>1. /\ Sound(job, wi) /\ HeapOK(job, heap) /\ pending \in Word /\ frames \in Frames(Word)
  BY DEF DataInv
<1>2. Evolves(job, wi, wi')
  BY <1>1, HandlersEvolve
<1>3. /\ status = "parsing" /\ status' = "parsing"
      /\ UNCHANGED <<job, turn, suspended, heap, pending, frames>>
  <2>1. CASE ThenSkipped
    BY <2>1 DEF ThenSkipped, Op, Running, SkipBranch, control
  <2>2. CASE ElseSkipped
    BY <2>2 DEF ElseSkipped, Op, Running, SkipBranch, control
  <2>3. CASE ~ThenSkipped /\ ~ElseSkipped
    <3>1. Handled
      BY <2>3, DataHandlers
    <3> QED BY <3>1 DEF Handled, Running, Do, control
  <2> QED BY <2>1, <2>2, <2>3
<1> QED BY <1>1, <1>2, <1>3, MachineOnly

\* A count that is decremented where it is positive stays in its word.
LEMMA FrameTyped ==
  ASSUME NEW fr \in Frames(Word), fr # <<>>
  PROVE  Len(fr) \in 1..Len(fr) /\ fr[Len(fr)] \in FrameOf(Word)
<1>1. Len(fr) \in 1..Len(fr)
  BY DEF Frames
<1> QED BY <1>1 DEF Frames

\* %: and %[n].
LEMMA CallsKeepData ==
  ASSUME ControlInv, DataInv,
         ArmRepeat \/ RefuseCall \/ CallTooDeep \/ Call \/ RepeatFormat \/ ReturnFormat
  PROVE  DataInv'
<1>1. /\ Sound(job, wi) /\ pending \in Word /\ frames \in Frames(Word)
      /\ 1 \in Word /\ \A a \in Word : a > 0 => a - 1 \in Word
  BY Words_ DEF DataInv
<1>2. CASE ArmRepeat
  <2>1. pending' = Operand(wi, 1) /\ Operand(wi, 1) \in Word
    BY <1>1, <1>2, OperandTyped DEF ArmRepeat
  <2>2. wi' = Popped(wi, 1) /\ Evolves(job, wi, Popped(wi, 1))
    BY <1>1, <1>2, PoppedEvolves DEF ArmRepeat
  <2>3. status' = "parsing" /\ UNCHANGED <<job, turn, suspended, heap, frames>>
    BY <1>2 DEF ArmRepeat, Op, Running, control
  <2> QED BY <1>1, <2>1, <2>2, <2>3, MachineOnly
<1>3. CASE RefuseCall
  <2>1. /\ status' = "parsing" /\ pending' = 1
        /\ UNCHANGED <<job, turn, suspended, heap, frames, wi>>
    BY <1>3 DEF RefuseCall, Op, Running, control
  <2>2. Evolves(job, wi, wi')
    BY <1>1, <2>1, EvolvesRefl
  <2> QED BY <1>1, <2>1, <2>2, MachineOnly
<1>4. CASE CallTooDeep
  <2>1. /\ status' = "parsing" /\ pending' = 1 /\ wi' = Overrun(wi)
        /\ UNCHANGED <<job, turn, suspended, heap, frames>>
    BY <1>4 DEF CallTooDeep, Op, Running, control
  <2>2. Evolves(job, wi, wi')
    BY <1>1, <2>1, OverrunEvolves
  <2> QED BY <1>1, <2>1, <2>2, MachineOnly
<1>5. CASE Call
  <2>1. /\ status' = "parsing" /\ pending' = 1 /\ pending > 0
        /\ frames' = Append(frames, [fmt |-> at.fmt, pc |-> at.pc + 1, left |-> pending - 1])
        /\ UNCHANGED <<job, turn, suspended, heap, wi>>
    BY <1>5 DEF Call, Op, Running, control
  <2>2. Evolves(job, wi, wi')
    BY <1>1, <2>1, EvolvesRefl
  <2>3. at.fmt \in Int /\ at.pc + 1 \in Nat \ {0}
    BY DEF ControlInv, Shape, At
  <2>4. pending - 1 \in Word
    BY <1>1, <2>1
  <2>5. [fmt |-> at.fmt, pc |-> at.pc + 1, left |-> pending - 1] \in FrameOf(Word)
    BY <2>3, <2>4 DEF FrameOf
  <2>6. frames' \in Frames(Word)
    BY <1>1, <2>1, <2>5 DEF Frames
  <2> QED BY <1>1, <2>1, <2>2, <2>6, MachineOnly
<1>6. CASE RepeatFormat
  <2>1. /\ status' = "parsing" /\ frames # <<>> /\ frames[Len(frames)].left > 0
        /\ frames' = [frames EXCEPT ![Len(frames)].left = frames[Len(frames)].left - 1]
        /\ UNCHANGED <<job, turn, suspended, heap, wi, pending>>
    BY <1>6 DEF RepeatFormat, Running, control, Frame
  <2>2. Evolves(job, wi, wi')
    BY <1>1, <2>1, EvolvesRefl
  <2>3. Len(frames) \in 1..Len(frames) /\ frames[Len(frames)] \in FrameOf(Word)
    BY <1>1, <2>1, FrameTyped
  <2>4. PICK a \in Word : a = frames[Len(frames)].left
    BY <2>3 DEF FrameOf
  <2>5. a - 1 \in Word
    BY <1>1, <2>1, <2>4
  <2>6. PICK f : f = [frames[Len(frames)] EXCEPT !.left = a - 1]
    OBVIOUS
  <2>7. f \in FrameOf(Word)
    BY <2>3, <2>5, <2>6 DEF FrameOf
  <2>8. frames' = [frames EXCEPT ![Len(frames)] = f]
    BY <2>1, <2>4, <2>6
  <2>9. frames' \in Frames(Word)
    BY <1>1, <2>3, <2>7, <2>8 DEF Frames
  <2> QED BY <1>1, <2>1, <2>2, <2>9, MachineOnly
<1>7. CASE ReturnFormat
  <2>1. /\ status' = "parsing" /\ frames # <<>>
        /\ frames' = SubSeq(frames, 1, Len(frames) - 1)
        /\ UNCHANGED <<job, turn, suspended, heap, wi, pending>>
    BY <1>7 DEF ReturnFormat, Running, control
  <2>2. Evolves(job, wi, wi')
    BY <1>1, <2>1, EvolvesRefl
  <2>3. frames' \in Frames(Word)
    BY <1>1, <2>1, ButLast DEF Frames
  <2> QED BY <1>1, <2>1, <2>2, <2>3, MachineOnly
<1> QED BY <1>2, <1>3, <1>4, <1>5, <1>6, <1>7

\* The ends of a parse, the traps and the refusals.
LEMMA EndsKeepData ==
  ASSUME ControlInv, DataInv, RefuseFormats \/ DivisionTraps \/ ArrayTraps \/ EndParse
  PROVE  DataInv'
<1>1. Sound(job, wi) /\ pending \in Word /\ frames \in Frames(Word)
  BY DEF DataInv
<1>2. /\ status' \in {"refused", "parsing", "returned", "trapped"}
      /\ UNCHANGED <<job, turn, suspended, heap, wi, pending, frames>>
  <2>1. CASE RefuseFormats BY <2>1 DEF RefuseFormats
  <2>2. CASE DivisionTraps BY <2>2 DEF DivisionTraps
  <2>3. CASE ArrayTraps    BY <2>3 DEF ArrayTraps
  <2>4. CASE EndParse      BY <2>4 DEF EndParse
  <2> QED BY <2>1, <2>2, <2>3, <2>4
<1>3. Evolves(job, wi, wi')
  BY <1>1, <1>2, EvolvesRefl
<1> QED BY <1>1, <1>2, <1>3, MachineOnly

\* What wi_parse_rank() resets.
LEMMA RestartedSound ==
  ASSUME NEW j, NEW w, Sound(j, w)
  PROVE  /\ Sound(j, Restarted(w)) /\ Restarted(w).out_size = w.out_size
         /\ Restarted(w).in = w.in
         /\ w.faults = {} /\ ~w.overrun => Evolves(j, w, Restarted(w))
<1>1. PICK v : v = [w EXCEPT !.out = <<>>, !.faults = {}, !.overrun = FALSE]
  OBVIOUS
<1>2. w \in MachineRec(Len(j.heap)) /\ w.out_size \in Nat /\ w.in_pos \in Nat
  BY SoundTypes
<1>3. v \in MachineRec(Len(j.heap))
  <2>1. <<>> \in Seq(Byte) /\ {} \in SUBSET FaultBits /\ FALSE \in BOOLEAN
    OBVIOUS
  <2> QED BY <1>1, <1>2, <2>1 DEF MachineRec
<1>4. /\ v.encode = w.encode /\ v.fstack = w.fstack /\ v.slices = w.slices /\ v.out = <<>>
      /\ v.out_size = w.out_size /\ v.in = w.in /\ v.in_size = w.in_size
      /\ v.in_pos = w.in_pos /\ v.faults = {} /\ ~v.overrun
  BY <1>1, <1>2 DEF MachineRec
<1>5. Len(v.out) <= v.out_size
  BY <1>2, <1>4
<1>6. Sound(j, v)
  BY <1>3, <1>4, <1>5 DEF Sound
<1>7. w.faults = {} /\ ~w.overrun => Evolves(j, w, v)
  BY <1>2, <1>4, <1>6 DEF Evolves
<1> QED BY <1>1, <1>4, <1>6, <1>7 DEF Restarted

\* The first parse, and the next one with the same wi_vars_t.
LEMMA ParsesKeepData ==
  ASSUME ControlInv, DataInv, SetFormats \/ NextParse
  PROVE  DataInv'
<1>1. /\ Sound(job, wi) /\ Nested(job, suspended, wi) /\ HeapOK(job, heap)
      /\ Stored(job, heap, turn, wi)
      /\ 1 \in Word /\ <<>> \in Frames(Word)
  BY Words_ DEF DataInv, Frames
<1>2. /\ wi' = Restarted(wi) /\ frames' = <<>> /\ pending' = 1 /\ status' = "parsing"
      /\ UNCHANGED <<job, suspended, heap>>
  BY DEF SetFormats, NextParse, Start
<1>3. CASE SetFormats
  <2>1. status = "setup" /\ turn' = turn
    BY <1>3 DEF SetFormats
  <2>2. wi.faults = {} /\ ~wi.overrun
    BY <2>1 DEF DataInv
  <2>3. Evolves(job, wi, wi')
    BY <1>1, <1>2, <2>2, RestartedSound
  <2> QED BY <1>1, <1>2, <2>1, <2>3, MachineOnly
<1>4. CASE NextParse
  <2>1. turn' = turn + 1 /\ turn \in Nat \ {0}
    <3>1. job.tops \in Seq(Seq(Token)) /\ turn \in 1..Len(job.tops)
      BY JobTyped DEF IsJob, ControlInv
    <3> QED BY <1>4, <3>1 DEF NextParse
  <2>2. turn' # 1
    BY <2>1
  <2>3. Sound(job, wi') /\ wi'.out_size = wi.out_size /\ wi'.in = wi.in
    BY <1>1, <1>2, RestartedSound
  <2>4. Nested(job, suspended, wi')
    BY <1>1, <2>3, NestedEvolves
  <2>5. Stored(job, heap, turn', wi')
    BY <1>1, <2>2 DEF Stored
  <2> QED BY <1>1, <1>2, <2>3, <2>4, <2>5 DEF DataInv
<1> QED BY <1>3, <1>4

-----------------------------------------------------------------------------
(* The steps of %J                                                           *)

\* The cursor of a fresh row is where its parent's was.
LEMMA StoredAlong ==
  ASSUME NEW j, NEW h, NEW t, NEW m, NEW c, Sound(j, m), Stored(j, h, t, m),
         ~m.overrun, Linked(m, c), c.in_pos = 0
  PROVE  Stored(j, h, t, c)
<1>1. m.in \in Nat /\ m.in_pos \in Nat /\ c.in = m.in + m.in_pos
  BY SoundTypes DEF Linked
<1>2. c.in + c.in_pos = m.in + m.in_pos
  BY <1>1
<1> QED BY <1>2 DEF Stored

\* The list and the count of a sequence that is not refused.  (_J)
LEMMA SequenceTyped ==
  ASSUME ControlInv, DataInv, SequenceFits
  PROVE  /\ wi.lists[Operand(wi, 2)] \in 1..Len(heap) /\ Len(heap) = Len(job.heap)
         /\ Operand(wi, 3) \in Nat /\ Operand(wi, 3) \in Word
         /\ Operand(wi, 3) <= Len(heap[wi.lists[Operand(wi, 2)]].rows)
<1>1. Sound(job, wi) /\ HeapOK(job, heap)
  BY DEF DataInv
<1>2. Operand(wi, 3) \in Word /\ Word \subseteq Int
  BY <1>1, OperandTyped, Words_
<1>3. /\ Operand(wi, 2) \in Slots /\ wi.lists[Operand(wi, 2)] # 0 /\ Operand(wi, 3) >= 0
      /\ Operand(wi, 3) <= Len(heap[wi.lists[Operand(wi, 2)]].rows)
  BY DEF SequenceFits, InSlots, NULL
<1>4. wi.lists[Operand(wi, 2)] \in 0..Len(job.heap)
  BY <1>1, <1>3, SoundTypes
<1>5. Len(heap) = Len(job.heap) /\ Len(job.heap) \in Nat
  BY <1>1, JobTyped DEF HeapOK
<1>6. Operand(wi, 3) \in Nat
  <2>1. PICK n \in Int : n = Operand(wi, 3)
    BY <1>2
  <2> QED BY <1>3, <2>1
<1>7. wi.lists[Operand(wi, 2)] \in 1..Len(heap)
  <2>1. PICK h \in Nat : h = Len(job.heap)
    BY <1>5
  <2>2. PICK l \in 0..h : l = wi.lists[Operand(wi, 2)]
    BY <1>4, <2>1
  <2>3. l \in 1..h
    BY <1>3, <2>2
  <2> QED BY <1>5, <2>1, <2>2, <2>3
<1> QED BY <1>2, <1>3, <1>5, <1>6, <1>7

LEMMA AnnouncedKeeps ==
  ASSUME ControlInv, HeapOK(job, heap), Sound(job, wi), NEW l \in 1..Len(heap), NEW n \in Nat,
         n <= Len(heap[l].rows), NEW g, g = Announced(l, n)
  PROVE  /\ HeapOK(job, g)
         /\ \A t, w : Stored(job, heap, t, w) => Stored(job, g, t, w)
<1>1. wi.encode = job.encode /\ job.encode \in BOOLEAN
  BY JobTyped, SoundTypes
<1>2. CASE job.encode
  BY <1>1, <1>2 DEF Announced
<1>3. CASE ~job.encode
  <2>1. g = [heap EXCEPT ![l].count = n]
    BY <1>1, <1>3 DEF Announced
  <2>2. HeapOK(job, g) /\ \A end : RowsInside(job, heap, end) => RowsInside(job, g, end)
    BY <1>3, <2>1, Announces
  <2> QED BY <2>2 DEF Stored
<1> QED BY <1>1, <1>2, <1>3

LEMMA EmptyKeepsData ==
  ASSUME ControlInv, DataInv, EmptySequence
  PROVE  DataInv'
<1>1. /\ status' = "parsing" /\ wi' = Popped(wi, 3)
      /\ heap' = Announced(wi.lists[Operand(wi, 2)], 0) /\ SequenceFits
      /\ UNCHANGED <<job, turn, suspended, frames, pending>>
  BY DEF EmptySequence, Op, Running, control
<1>2. /\ Sound(job, wi) /\ Nested(job, suspended, wi) /\ HeapOK(job, heap)
      /\ Stored(job, heap, turn, wi) /\ pending \in Word /\ frames \in Frames(Word)
  BY DEF DataInv
<1>3. Evolves(job, wi, wi')
  BY <1>1, <1>2, PoppedEvolves
<1>4. Sound(job, wi') /\ Nested(job, suspended, wi')
  BY <1>2, <1>3, NestedEvolves DEF Evolves
<1>5. Stored(job, heap, turn, wi')
  BY <1>2, <1>3, StoredEvolves
<1>6. /\ wi.lists[Operand(wi, 2)] \in 1..Len(heap)
      /\ 0 \in Nat /\ 0 <= Len(heap[wi.lists[Operand(wi, 2)]].rows)
  <2>1. wi.lists[Operand(wi, 2)] \in 1..Len(heap)
    BY <1>1, SequenceTyped
  <2> QED BY <1>2, <2>1, RowTyped
<1>7. HeapOK(job, heap') /\ Stored(job, heap', turn, wi')
  BY <1>1, <1>2, <1>5, <1>6, AnnouncedKeeps
<1> QED BY <1>1, <1>2, <1>4, <1>7 DEF DataInv

\* Operands other than zero were on the stack.
LEMMA PoppedClean ==
  ASSUME NEW j, NEW w, Sound(j, w), NEW i \in Nat \ {0}, Operand(w, i) # 0
  PROVE  ~w.overrun /\ ~Popped(w, i).overrun
<1>1. ~w.overrun /\ i <= Len(w.fstack)
  BY DEF Operand
<1>2. Popped(w, i) = [w EXCEPT !.fstack = SubSeq(w.fstack, 1, Len(w.fstack) - i)]
  BY <1>1 DEF Popped
<1>3. w \in MachineRec(Len(j.heap))
  BY SoundTypes
<1> QED BY <1>1, <1>2, <1>3 DEF MachineRec

LEMMA BeginKeepsData ==
  ASSUME ControlInv, DataInv, BeginSequence
  PROVE  DataInv'
<1>1. PICK l, n, w : l = wi.lists[Operand(wi, 2)] /\ n = Operand(wi, 3) /\ w = Popped(wi, 3)
  OBVIOUS
<1>2. /\ status' = "parsing" /\ SequenceFits /\ n > 0 /\ UNCHANGED <<job, turn>>
      /\ heap' = Announced(l, n)
      /\ suspended' = Append(suspended,
           [wi |-> w, at |-> Advanced, frames |-> frames, pending |-> pending,
            list |-> l, count |-> n, row |-> 1, callee |-> Current.n])
      /\ wi' = Child(w, l, 1) /\ frames' = <<>> /\ pending' = 1
  BY <1>1 DEF BeginSequence, Op, Running, control, Start
<1>3. /\ Sound(job, wi) /\ Nested(job, suspended, wi) /\ HeapOK(job, heap)
      /\ Stored(job, heap, turn, wi) /\ pending \in Word /\ frames \in Frames(Word)
      /\ 1 \in Word /\ <<>> \in Frames(Word)
  BY Words_ DEF DataInv, Frames
<1>4. Evolves(job, wi, w) /\ Sound(job, w)
  BY <1>1, <1>3, PoppedEvolves DEF Evolves
<1>5. ~w.overrun
  <2>1. Operand(wi, 3) # 0 /\ 3 \in Nat \ {0}
    BY <1>1, <1>2
  <2> QED BY <1>1, <1>3, <2>1, PoppedClean
<1>6. /\ l \in 1..Len(heap) /\ Len(heap) = Len(job.heap) /\ n \in Nat
      /\ n <= Len(heap[l].rows)
  BY <1>1, <1>2, SequenceTyped
<1>7. 1 \in 1..Len(heap[l].rows) /\ 1 \in 1..n
  BY <1>2, <1>3, <1>6, RowTyped
<1>8. Len(heap[l].rows) = Len(job.heap[l].rows)
  BY <1>3, <1>6 DEF HeapOK, KeptList
<1>9. /\ Sound(job, wi') /\ Linked(w, wi') /\ wi'.in_pos = 0
  BY <1>2, <1>3, <1>4, <1>6, <1>7, ChildSound
<1>10. HeapOK(job, heap') /\ Stored(job, heap', turn, wi')
  <2>1. Stored(job, heap, turn, w)
    BY <1>3, <1>4, StoredEvolves
  <2>2. Stored(job, heap, turn, wi')
    BY <1>4, <1>5, <1>9, <2>1, StoredAlong
  <2> QED BY <1>2, <1>3, <1>6, <2>2, AnnouncedKeeps
<1> DEFINE x == [wi |-> w, at |-> Advanced, frames |-> frames, pending |-> pending,
                 list |-> l, count |-> n, row |-> 1, callee |-> Current.n]
<1>11. Held(job, x)
  BY <1>3, <1>4, <1>6, <1>7, <1>8 DEF Held
<1>12. PICK M : suspended \in Contexts(M) /\ x \in Context(M)
  <2>1. PICK L : frames \in Frames(L) /\ suspended \in Contexts(L)
    BY DEF ControlInv, Shape
  <2> DEFINE M == L \cup {w, pending, l, n, 1, Current.n}
  <2>2. L \subseteq M
    OBVIOUS
  <2>3. frames \in Frames(M) /\ suspended \in Contexts(M)
    BY <2>1, <2>2, Grow
  <2>4. Advanced \in At
    BY AdvancedTyped
  <2>5. x \in Context(M)
    BY <2>3, <2>4 DEF Context
  <2> QED BY <2>3, <2>5
<1>13. Nested(job, suspended, w)
  BY <1>3, <1>4, NestedEvolves DEF Evolves
<1>14. x.wi = w /\ suspended' = Append(suspended, x)
  BY <1>2
<1> HIDE DEF x
<1>15. Nested(job, suspended', wi')
  BY <1>9, <1>11, <1>12, <1>13, <1>14, NestedBegun
<1> QED BY <1>2, <1>3, <1>9, <1>10, <1>15 DEF DataInv

\* The parent of a row, typed.
LEMMA ParentTyped ==
  ASSUME ControlInv, DataInv, suspended # <<>>
  PROVE  /\ Len(suspended) \in Nat \ {0} /\ Held(job, Parent) /\ Linked(Parent.wi, wi)
         /\ Sound(job, Parent.wi) /\ Parent.list \in 1..Len(heap) /\ Parent.count \in Nat
         /\ Parent.row \in 1..Parent.count
         /\ Parent.count <= Len(heap[Parent.list].rows)
         /\ Parent.row \in 1..Len(heap[Parent.list].rows)
<1>1. PICK L : suspended \in Contexts(L)
  BY DEF ControlInv, Shape
<1>2. Len(suspended) \in Nat \ {0} /\ Len(suspended) \in 1..Len(suspended)
  BY <1>1 DEF Contexts
<1>3. Nested(job, suspended, wi) /\ HeapOK(job, heap)
  BY DEF DataInv
<1>4. Held(job, Parent) /\ Linked(Parent.wi, wi)
  BY <1>2, <1>3 DEF Nested, Parent
<1>5. Parent.list \in 1..Len(heap)
  BY <1>3, <1>4 DEF Held, HeapOK
<1>6. Len(heap[Parent.list].rows) = Len(job.heap[Parent.list].rows)
  BY <1>3, <1>5 DEF HeapOK, KeptList
<1>7. Len(heap[Parent.list].rows) \in Nat
  BY <1>3, <1>5, RowTyped
<1>8. PICK n \in Nat, c \in Nat : n = Len(heap[Parent.list].rows) /\ c = Parent.count
  BY <1>4, <1>7 DEF Held
<1>9. c <= n /\ Parent.row \in 1..c
  BY <1>4, <1>6, <1>8 DEF Held
<1>10. Parent.row \in 1..n
  BY <1>8, <1>9
<1> QED BY <1>2, <1>4, <1>5, <1>8, <1>9, <1>10 DEF Held

\* What a finished row stores in place of what its record held.
LEMMA StoredRowTyped ==
  ASSUME ControlInv, DataInv, suspended # <<>>, NEW old \in Row, NEW row, row = StoredRow(old)
  PROVE  /\ row \in Row /\ row.lists = old.lists
         /\ \A end : SlicesOK(job, wi.slices, end) /\ SlicesOK(job, old.slices, end)
                       => SlicesOK(job, row.slices, end)
<1>1. PICK fields : fields = heap[Parent.list].fields
  OBVIOUS
<1>2. /\ wi.vars \in [Vars -> Word] /\ wi.slices \in [Slots -> Slice]
      /\ old.values \in [Slots -> Word] /\ old.slices \in [Slots -> Slice]
  BY SoundTypes DEF DataInv, Row
<1>3. Slots \subseteq Vars
  BY LimitsAssumption DEF Slots, Vars
<1>4. PICK values, slices :
        /\ values = [x \in Slots |-> IF x < fields THEN wi.vars[x] ELSE old.values[x]]
        /\ slices = [x \in Slots |-> IF x < fields THEN wi.slices[x] ELSE old.slices[x]]
  OBVIOUS
<1>5. row = [old EXCEPT !.values = values, !.slices = slices]
  BY <1>1, <1>4 DEF StoredRow
<1>6. values \in [Slots -> Word] /\ slices \in [Slots -> Slice]
  BY <1>2, <1>3, <1>4
<1>7. row \in Row /\ row.lists = old.lists /\ row.slices = slices
  BY <1>5, <1>6 DEF Row
<1>8. \A x \in Slots : slices[x] = wi.slices[x] \/ slices[x] = old.slices[x]
  BY <1>4
<1>9. ASSUME NEW end, SlicesOK(job, wi.slices, end), SlicesOK(job, old.slices, end)
      PROVE  SlicesOK(job, slices, end)
  BY <1>8, <1>9 DEF SlicesOK
<1> QED BY <1>7, <1>9

\* A row's fields are stored where it was read.  (wi_parse_rank of %J, its copy loop)
LEMMA HarvestKeeps ==
  ASSUME ControlInv, DataInv, suspended # <<>>, Harvest
  PROVE  HeapOK(job, heap') /\ Stored(job, heap', turn, Merged)
<1>1. /\ Sound(job, wi) /\ HeapOK(job, heap) /\ Stored(job, heap, turn, wi)
      /\ wi.encode = job.encode /\ job.encode \in BOOLEAN /\ wi.overrun \in BOOLEAN
  BY JobTyped, SoundTypes DEF DataInv
<1>2. /\ wi.overrun => Merged.overrun
      /\ ~job.encode /\ ~Merged.overrun => /\ ~wi.overrun
                                           /\ Merged.in + Merged.in_pos = wi.in + wi.in_pos
  BY <1>1, ParentTyped, MergedEvolves
<1>3. CASE wi.encode \/ wi.overrun
  <2>1. heap' = heap
    BY <1>3 DEF Harvest
  <2> QED BY <1>1, <1>2, <1>3, <2>1 DEF Stored
<1>4. CASE ~wi.encode /\ ~wi.overrun
  <2>1. PICK l, r : l = Parent.list /\ r = Parent.row
    OBVIOUS
  <2>2. l \in 1..Len(heap) /\ r \in 1..Len(heap[l].rows)
    BY <2>1, ParentTyped
  <2>3. PICK old : old = heap[l].rows[r]
    OBVIOUS
  <2>4. old \in Row
    BY <1>1, <2>2, <2>3, RowTyped
  <2>5. PICK row : row = StoredRow(old)
    OBVIOUS
  <2>6. /\ row \in Row /\ row.lists = old.lists
        /\ \A end : SlicesOK(job, wi.slices, end) /\ SlicesOK(job, old.slices, end)
                      => SlicesOK(job, row.slices, end)
    BY <2>4, <2>5, StoredRowTyped
  <2>7. heap' = [heap EXCEPT ![l].rows[r] = row]
    BY <1>4, <2>1, <2>3, <2>5 DEF Harvest
  <2>8. /\ HeapOK(job, heap')
        /\ \A end : RowsInside(job, heap, end) /\ SlicesOK(job, row.slices, end)
                      => RowsInside(job, heap', end)
    <3>1. HeapOK(job, heap) /\ ~job.encode /\ row \in Row
          /\ row.lists = heap[l].rows[r].lists
      BY <1>1, <1>4, <2>3, <2>6
    <3>2. PICK g : g = heap'
      OBVIOUS
    <3>3. RowAt(heap, l, r) /\ SameLists(heap, l, r, row) /\ g = RowSet(heap, l, r, row)
      BY <2>2, <2>7, <3>1, <3>2 DEF RowAt, SameLists, RowSet
    <3>4. /\ HeapOK(job, g)
          /\ \A end : RowsInside(job, heap, end) /\ SlicesOK(job, row.slices, end)
                        => RowsInside(job, g, end)
      BY <2>2, <3>1, <3>3, Stores
    <3> QED BY <3>2, <3>4
  <2>9. ASSUME NEW end, RowsInside(job, heap, end), SlicesOK(job, wi.slices, end)
        PROVE  RowsInside(job, heap', end)
    <3>1. SlicesOK(job, old.slices, end)
      BY <2>2, <2>3, <2>9 DEF RowsInside
    <3> QED BY <2>6, <2>8, <2>9, <3>1
  <2>10. /\ SlicesOK(job, wi.slices, wi.in + wi.in_pos)
         /\ SlicesOK(job, wi.slices, job.in + job.in_size)
    <3>1. SlicesOK(job, wi.slices, wi.in + wi.in_pos) /\ wi.slices \in [Slots -> Slice]
      BY <1>1, SoundTypes
    <3>2. /\ wi.in \in Nat /\ wi.in_pos \in Nat /\ wi.in_size \in Nat /\ wi.in_pos <= wi.in_size
          /\ wi.in + wi.in_size = job.in + job.in_size /\ job.in \in Nat /\ job.in_size \in Nat
      BY <1>1, SoundTypes
    <3>3. /\ wi.in + wi.in_pos \in Int /\ job.in + job.in_size \in Int
          /\ wi.in + wi.in_pos <= job.in + job.in_size
      BY <3>2
    <3> QED BY <3>1, <3>3, SlicesLater
  <2>11. Stored(job, heap', turn, Merged)
    <3> SUFFICES ASSUME ~job.encode, BlankRows(job)
                 PROVE  /\ RowsInside(job, heap', job.in + job.in_size)
                        /\ turn = 1 /\ ~Merged.overrun =>
                             RowsInside(job, heap', Merged.in + Merged.in_pos)
      BY DEF Stored
    <3>1. /\ RowsInside(job, heap, job.in + job.in_size)
          /\ turn = 1 => RowsInside(job, heap, wi.in + wi.in_pos)
      BY <1>1, <1>4 DEF Stored
    <3>2. /\ RowsInside(job, heap', job.in + job.in_size)
          /\ turn = 1 => RowsInside(job, heap', wi.in + wi.in_pos)
      BY <2>9, <2>10, <3>1
    <3> QED BY <1>2, <3>2
  <2> QED BY <2>8, <2>11
<1> QED BY <1>3, <1>4

LEMMA NextRowKeepsData ==
  ASSUME ControlInv, DataInv, NextRow
  PROVE  DataInv'
<1>1. PICK p, m, l, r : p = Parent /\ m = Merged /\ l = Parent.list /\ r = Parent.row + 1
  OBVIOUS
<1>2. /\ status' = "parsing" /\ suspended # <<>> /\ ~m.overrun /\ p.row < p.count
      /\ Harvest /\ UNCHANGED <<job, turn>>
      /\ suspended' = [suspended EXCEPT ![Len(suspended)].wi = m,
                                        ![Len(suspended)].row = suspended[Len(suspended)].row + 1]
      /\ wi' = Child(m, l, r) /\ frames' = <<>> /\ pending' = 1
  BY <1>1 DEF NextRow, ParseOver, control, Start, Stopped, Parent
<1>3. /\ Sound(job, wi) /\ Nested(job, suspended, wi) /\ HeapOK(job, heap)
      /\ 1 \in Word /\ <<>> \in Frames(Word)
  BY Words_ DEF DataInv, Frames
<1>4. /\ Len(suspended) \in Nat \ {0} /\ Held(job, p) /\ Linked(p.wi, wi) /\ Sound(job, p.wi)
      /\ l \in 1..Len(heap) /\ p.count \in Nat /\ p.row \in 1..p.count
      /\ p.count <= Len(heap[l].rows)
  BY <1>1, <1>2, ParentTyped
<1>5. Evolves(job, p.wi, m)
  BY <1>1, <1>2, <1>3, <1>4, MergedEvolves
<1>6. Sound(job, m) /\ m.out_size = p.wi.out_size /\ m.in = p.wi.in
  BY <1>5 DEF Evolves
<1>7. HeapOK(job, heap') /\ Stored(job, heap', turn, m)
  BY <1>1, <1>2, HarvestKeeps
<1>8. r \in 1..p.count /\ r \in 1..Len(heap[l].rows)
  <2>1. Len(heap[l].rows) \in Nat
    BY <1>3, <1>4, RowTyped
  <2>2. PICK n \in Nat, c \in Nat, q \in Nat : n = Len(heap[l].rows) /\ c = p.count /\ q = p.row
    BY <1>4, <2>1
  <2>3. q < c /\ c <= n /\ r = q + 1
    BY <1>1, <1>2, <1>4, <2>2
  <2> QED BY <2>2, <2>3
<1>9. Sound(job, wi') /\ Linked(m, wi') /\ wi'.in_pos = 0
  BY <1>2, <1>3, <1>4, <1>6, <1>8, ChildSound
<1>10. Stored(job, heap', turn, wi')
  BY <1>2, <1>6, <1>7, <1>9, StoredAlong
<1>11. PICK M : suspended \in Contexts(M) /\ m \in M /\ r \in M
  <2>1. PICK L : frames \in Frames(L) /\ suspended \in Contexts(L)
    BY DEF ControlInv, Shape
  <2>2. L \subseteq L \cup {m, r} /\ m \in L \cup {m, r} /\ r \in L \cup {m, r}
    OBVIOUS
  <2>3. suspended \in Contexts(L \cup {m, r})
    BY <2>1, <2>2, Grow
  <2> QED BY <2>2, <2>3
<1>12. p = suspended[Len(suspended)] /\ p \in Context(M)
  BY <1>1, <1>4, <1>11 DEF Contexts, Parent
<1> DEFINE x == [p EXCEPT !.wi = m, !.row = r]
<1>13. /\ x \in Context(M) /\ x.wi = m /\ x.row = r /\ x.frames = p.frames
       /\ x.pending = p.pending /\ x.list = p.list /\ x.count = p.count
  BY <1>11, <1>12 DEF Context
<1>14. Held(job, x)
  BY <1>4, <1>6, <1>8, <1>13 DEF Held
<1>15. suspended' = [suspended EXCEPT ![Len(suspended)] = x]
  BY <1>1, <1>2, <1>11, <1>12 DEF Contexts, Context
<1> HIDE DEF x
<1>16. x.wi.out_size = suspended[Len(suspended)].wi.out_size
       /\ x.wi.in = suspended[Len(suspended)].wi.in /\ Linked(x.wi, wi')
  BY <1>6, <1>9, <1>12, <1>13
<1>17. Nested(job, suspended', wi')
  <2>1. PICK t, w : t = suspended' /\ w = wi'
    OBVIOUS
  <2>2. t = [suspended EXCEPT ![Len(suspended)] = x] /\ Linked(x.wi, w)
    BY <1>15, <1>16, <2>1
  <2>3. Nested(job, t, w)
    BY <1>2, <1>3, <1>11, <1>13, <1>14, <1>16, <2>2, NestedNext
  <2> QED BY <2>1, <2>3
<1> QED BY <1>2, <1>3, <1>7, <1>9, <1>10, <1>17 DEF DataInv

LEMMA EndSequenceKeepsData ==
  ASSUME ControlInv, DataInv, EndSequence
  PROVE  DataInv'
<1>1. /\ status' = "parsing" /\ suspended # <<>> /\ Harvest /\ UNCHANGED <<job, turn>>
      /\ suspended' = SubSeq(suspended, 1, Len(suspended) - 1)
      /\ wi' = Merged /\ frames' = Parent.frames /\ pending' = Parent.pending
  BY DEF EndSequence, ParseOver, control
<1>2. Sound(job, wi) /\ Nested(job, suspended, wi)
  BY DEF DataInv
<1>3. Held(job, Parent) /\ Linked(Parent.wi, wi) /\ Sound(job, Parent.wi)
  BY <1>1, ParentTyped
<1>4. Evolves(job, Parent.wi, wi')
  BY <1>1, <1>2, <1>3, MergedEvolves
<1>5. /\ Sound(job, wi') /\ wi'.out_size = suspended[Len(suspended)].wi.out_size
      /\ wi'.in = suspended[Len(suspended)].wi.in
  BY <1>4 DEF Evolves, Parent
<1>6. HeapOK(job, heap') /\ Stored(job, heap', turn, wi')
  BY <1>1, HarvestKeeps
<1>7. PICK L : suspended \in Contexts(L)
  BY DEF ControlInv, Shape
<1>8. Nested(job, suspended', wi')
  BY <1>1, <1>2, <1>5, <1>7, NestedEnded
<1>9. frames' \in Frames(Word) /\ pending' \in Word
  BY <1>1, <1>3 DEF Held
<1> QED BY <1>1, <1>5, <1>6, <1>8, <1>9 DEF DataInv

-----------------------------------------------------------------------------
(* The theorems                                                              *)

LEMMA DataInit == Init => DataInv
<1> SUFFICES ASSUME Init PROVE DataInv
  OBVIOUS
<1>1. /\ ControlInv /\ status = "setup" /\ turn = 1 /\ frames = <<>> /\ pending = 0
      /\ suspended = <<>> /\ heap = job.heap
      /\ wi = Machine(job.encode, job.out_size, job.in, job.in_size,
                      job.params, job.slices, job.lists)
  BY ControlInit DEF Init
<1>2. /\ IsJob(job) /\ job.heap \in Seq(RecordList) /\ Len(job.heap) \in Nat
      /\ job.encode \in BOOLEAN /\ job.out_size \in Nat /\ job.in \in Nat /\ job.in_size \in Nat
      /\ ~job.encode => job.out_size = 0
  BY <1>1, JobTyped
<1>3. /\ job.params \in [Slots -> Word] /\ job.slices \in [Slots -> Slice]
      /\ job.lists \in [Slots -> 0..Len(job.heap)]
      /\ \A x \in Slots : IF job.encode THEN InMemory(job.slices[x], job.mem)
                                        ELSE job.slices[x] = NoSlice
      /\ \A i \in 1..Len(job.heap) :
            /\ IsList(job.heap[i])
            /\ \A r \in 1..Len(job.heap[i].rows) :
                  job.heap[i].rows[r].lists \in [Slots -> 0..Len(job.heap)]
  BY <1>2 DEF IsJob
<1>4. 0 \in Word /\ 0 \in Byte
  BY Words_
<1>5. wi \in MachineRec(Len(job.heap))
  <2>1. [x \in Vars |-> 0] \in [Vars -> Word] /\ <<>> \in Seq(Word) /\ <<>> \in Seq(Byte)
    BY <1>4
  <2> QED BY <1>1, <1>2, <1>3, <1>4, <2>1 DEF Machine, MachineRec
<1>6. /\ wi.encode = job.encode /\ wi.fstack = <<>> /\ wi.slices = job.slices /\ wi.out = <<>>
      /\ wi.out_size = job.out_size /\ wi.in = job.in /\ wi.in_size = job.in_size
      /\ wi.in_pos = 0 /\ wi.faults = {} /\ ~wi.overrun
  BY <1>1 DEF Machine
<1>7. SlicesOK(job, wi.slices, wi.in)
  <2>1. ASSUME NEW x \in Slots
        PROVE  SliceOK(job, wi.slices[x], wi.in)
    BY <1>3, <1>6 DEF SliceOK, NoSlice
  <2> QED BY <2>1 DEF SlicesOK
<1>8. Sound(job, wi)
  BY <1>2, <1>5, <1>6, <1>7, FreshSound
<1>9. Nested(job, suspended, wi)
  <2>1. Len(suspended) = 0
    BY <1>1
  <2> QED BY <1>1, <1>6, <2>1 DEF Nested, Outermost
<1>10. HeapOK(job, heap)
  BY <1>1, <1>2, <1>3 DEF HeapOK, KeptList
<1>11. Stored(job, heap, turn, wi)
  <2>1. ASSUME BlankRows(job), ~job.encode, NEW end
        PROVE  RowsInside(job, heap, end)
    BY <1>1, <2>1 DEF BlankRows, RowsInside, SlicesOK, SliceOK
  <2> QED BY <2>1 DEF Stored
<1>12. pending \in Word /\ frames \in Frames(Word)
  BY <1>1, <1>4 DEF Frames
<1> QED BY <1>1, <1>6, <1>8, <1>9, <1>10, <1>11, <1>12 DEF DataInv

LEMMA DataNext == ControlInv /\ DataInv /\ [Next]_vars => DataInv'
<1> SUFFICES ASSUME ControlInv, DataInv, [Next]_vars PROVE DataInv'
  OBVIOUS
<1>1. CASE \/ EmitLiteral \/ PushLiteral \/ PushParam \/ LoadVar \/ StoreVar \/ RaiseFault
           \/ BinaryOp \/ UnaryOp \/ BadSpecifier \/ EmitNumber \/ ReadNumber \/ EmitSdnv
           \/ ReadSdnv \/ PackBits \/ UnpackBits \/ FlushBits \/ EmitArray \/ CaptureRest
           \/ CaptureExact \/ SliceLength \/ EmitSlice \/ EmitExact \/ ListCount \/ Mark
           \/ ThenTaken \/ RefuseSequence \/ ThenSkipped \/ ElseSkipped
  BY <1>1, HandlersKeepData
<1>2. CASE ArmRepeat \/ RefuseCall \/ CallTooDeep \/ Call \/ RepeatFormat \/ ReturnFormat
  BY <1>2, CallsKeepData
<1>3. CASE RefuseFormats \/ DivisionTraps \/ ArrayTraps \/ EndParse
  BY <1>3, EndsKeepData
<1>4. CASE SetFormats \/ NextParse
  BY <1>4, ParsesKeepData
<1>5. CASE EmptySequence
  BY <1>5, EmptyKeepsData
<1>6. CASE BeginSequence
  BY <1>6, BeginKeepsData
<1>7. CASE NextRow
  BY <1>7, NextRowKeepsData
<1>8. CASE EndSequence
  BY <1>8, EndSequenceKeepsData
<1>9. CASE Done \/ UNCHANGED vars
  <2>1. UNCHANGED <<job, status, turn, wi, frames, pending, suspended, heap>>
    BY <1>9 DEF Done, vars
  <2> QED BY <2>1 DEF DataInv
<1> QED BY <1>1, <1>2, <1>3, <1>4, <1>5, <1>6, <1>7, <1>8, <1>9 DEF Next

\* Whatever the format strings and the input say, every machine of a parse stays
\* sound, each row's machine is linked to the one that waits for it, and the caller's
\* lists keep their capacities and their rows' pointers.  (wi_parse_rank, _J)
THEOREM DataSound == Spec => [](ControlInv /\ DataInv)
<1>1. Init => ControlInv /\ DataInv
  BY ControlInit, DataInit
<1>2. (ControlInv /\ DataInv) /\ [Next]_vars => (ControlInv /\ DataInv)'
  BY ControlNext, DataNext
<1> QED BY <1>1, <1>2, PTL DEF Spec

LEMMA MachineIs ==
  ASSUME ControlInv, HeapOK(job, heap), NEW w, Sound(job, w)
  PROVE  IsMachine(w)
<1>1. w \in MachineRec(Len(job.heap)) /\ Len(heap) = Len(job.heap)
  BY SoundTypes DEF HeapOK
<1>2. w.in_pos \in 0..w.in_size /\ Len(w.fstack) <= STACK_DEPTH /\ Len(w.out) <= w.out_size
  BY SoundTypes
<1> QED BY <1>1, <1>2 DEF IsMachine, MachineRec

LEMMA FramesAre ==
  ASSUME ControlInv, NEW fr \in Frames(Word), NEW a \in At, NEW level,
         ContextOK(table, depths, fr, a, level)
  PROVE  IsFrames(fr) /\ Position(a.fmt, a.pc)
<1>1. Ranks(table) \subseteq Nat
  BY TableTyped
<1>2. Len(fr) \in Nat /\ \A i \in 1..Len(fr) : fr[i] \in FrameOf(Word)
  BY DEF Frames
<1>3. \A i \in 1..Len(fr) : fr[i].fmt \in Ranks(table)
  <2>1. \A i \in 1..Len(fr) : i \in 1..Len(fr) + 1 /\ ActiveIn(fr, a, i) = fr[i].fmt
    BY <1>2 DEF ActiveIn
  <2> QED BY <2>1 DEF ContextOK
<1>4. a.fmt \in Ranks(table)
  <2>1. Len(fr) + 1 \in 1..Len(fr) + 1 /\ ActiveIn(fr, a, Len(fr) + 1) = a.fmt
    BY <1>2 DEF ActiveIn
  <2> QED BY <2>1 DEF ContextOK
<1>5. \A i \in 1..Len(fr) : fr[i] \in [fmt : Nat, pc : Nat, left : Word]
  BY <1>1, <1>2, <1>3 DEF FrameOf
<1>6. fr \in Seq([fmt : Nat, pc : Nat, left : Word])
  <2>1. PICK S, T : S = FrameOf(Word) /\ T = [fmt : Nat, pc : Nat, left : Word]
    OBVIOUS
  <2>2. fr \in Seq(S)
    BY <2>1 DEF Frames
  <2>3. \A i \in 1..Len(fr) : fr[i] \in T
    BY <1>5, <2>1
  <2>4. PICK n \in Nat : n = Len(fr)
    BY <1>2
  <2>5. fr \in [1..n -> T]
    BY <2>2, <2>3, <2>4, LenProperties
  <2>6. fr \in Seq(T)
    BY <2>4, <2>5
  <2> QED BY <2>1, <2>6
<1>7. \A i \in 1..Len(fr) : Position(fr[i].fmt, fr[i].pc)
  BY <1>2, <1>3 DEF Position, Ranks, FrameOf
<1> QED BY <1>4, <1>6, <1>7 DEF IsFrames, Position, Ranks, At

LEMMA InvTypes == ControlInv /\ DataInv => TypeOK
<1> SUFFICES ASSUME ControlInv, DataInv PROVE TypeOK
  OBVIOUS
<1>1. /\ Sound(job, wi) /\ HeapOK(job, heap) /\ Nested(job, suspended, wi)
      /\ frames \in Frames(Word)
  BY DEF DataInv
<1>2. at \in At /\ ContextOK(table, depths, frames, at, Len(suspended))
  BY DEF ControlInv, Shape
<1>3. IsMachine(wi) /\ Position(at.fmt, at.pc) /\ IsFrames(frames)
  BY <1>1, <1>2, MachineIs, FramesAre
<1>4. ASSUME NEW i \in 1..Len(suspended)
      PROVE  LET s == suspended[i]
             IN /\ IsMachine(s.wi) /\ Position(s.at.fmt, s.at.pc) /\ IsFrames(s.frames)
                /\ s.pending \in Word
                /\ s.list \in 1..Len(heap) /\ s.row \in 1..s.count
                /\ s.count <= Len(heap[s.list].rows)
                /\ s.callee \in DOMAIN table.fmts
  <2>1. PICK s : s = suspended[i]
    OBVIOUS
  <2>2. PICK L : suspended \in Contexts(L)
    BY DEF ControlInv, Shape
  <2>3. s \in Context(L)
    BY <2>1, <2>2 DEF Contexts
  <2>4. s.at \in At
    BY <2>3 DEF Context
  <2>5. Held(job, s)
    BY <1>1, <2>1 DEF Nested
  <2>6. Waiting(table, depths, s, i)
    BY <2>1 DEF ControlInv
  <2>7. /\ Sound(job, s.wi) /\ s.frames \in Frames(Word) /\ s.pending \in Word
        /\ s.list \in 1..Len(job.heap) /\ s.row \in 1..s.count
        /\ s.count <= Len(job.heap[s.list].rows)
    BY <2>5 DEF Held
  <2>8. ContextOK(table, depths, s.frames, s.at, i - 1) /\ s.callee \in DOMAIN table.fmts
    BY <2>6 DEF Waiting
  <2>9. IsMachine(s.wi)
    BY <1>1, <2>7, MachineIs
  <2>10. Position(s.at.fmt, s.at.pc) /\ IsFrames(s.frames)
    BY <2>4, <2>7, <2>8, FramesAre
  <2>11. s.list \in 1..Len(heap) /\ Len(heap[s.list].rows) = Len(job.heap[s.list].rows)
    BY <1>1, <2>7 DEF HeapOK, KeptList
  <2> QED BY <2>1, <2>7, <2>8, <2>9, <2>10, <2>11
<1>5. \A i \in 1..Len(heap) : IsList(heap[i])
  BY <1>1 DEF HeapOK, KeptList
<1>6. /\ status \in {"setup", "refused", "parsing", "returned", "trapped"}
      /\ turn \in 1..Len(job.tops) /\ pending \in Word
  BY DEF ControlInv, DataInv
<1> QED BY <1>3, <1>4, <1>5, <1>6 DEF TypeOK

\* Array indexes stay within their arrays, cursors within their windows, positions
\* within the installed table, for every format string and every input.  (fs_push,
\* b_emit, b_read, the slot checks of the handlers, _J)
THEOREM Typed == Spec => []TypeOK
<1> QED BY DataSound, InvTypes, PTL

LEMMA InvBuffers == ControlInv /\ DataInv => InsideBuffers
<1> SUFFICES ASSUME ControlInv, DataInv, NEW c \in 1..Depth
             PROVE  LET w == ContextMachine(c)
                        p == ContextMachine(c - 1)
                    IN /\ Len(w.out) <= w.out_size
                       /\ job.in <= w.in /\ w.in + w.in_size = job.in + job.in_size
                       /\ w.in_pos <= w.in_size
                       /\ IF c = 1 THEN w.out_size = job.out_size /\ w.in = job.in
                          ELSE w.out_size = p.out_size - Len(p.out) /\ w.in = p.in + p.in_pos
  BY DEF InsideBuffers
<1>1. Sound(job, wi) /\ Nested(job, suspended, wi)
  BY DEF DataInv
<1>2. PICK k \in Nat : k = Len(suspended)
  BY ActiveTop
<1>3. Depth = k + 1 /\ c \in 1..k + 1
  BY <1>2 DEF Depth
<1>4. PICK w : w = ContextMachine(c)
  OBVIOUS
<1>5. Sound(job, w)
  <2>1. CASE c = k + 1
    BY <1>1, <1>3, <1>4, <2>1 DEF ContextMachine
  <2>2. CASE c # k + 1
    <3>1. c \in 1..k
      BY <1>3, <2>2
    <3>2. Held(job, suspended[c]) /\ w = suspended[c].wi
      BY <1>1, <1>2, <1>3, <1>4, <2>2, <3>1 DEF Nested, ContextMachine
    <3> QED BY <3>2 DEF Held
  <2> QED BY <2>1, <2>2
<1>6. CASE c = 1
  <2>1. Outermost(job, w)
    <3>1. CASE k = 0
      <4>1. PICK L : suspended \in Contexts(L)
        BY DEF ControlInv, Shape
      <4>2. suspended = <<>>
        BY <1>2, <3>1, <4>1, EmptySeq DEF Contexts
      <4>3. w = wi
        BY <1>3, <1>4, <1>6, <3>1 DEF ContextMachine
      <4> QED BY <1>1, <4>2, <4>3 DEF Nested
    <3>2. CASE k # 0
      <4>1. suspended # <<>>
        BY <1>2, <3>2
      <4>2. w = suspended[1].wi
        BY <1>3, <1>4, <1>6, <3>2 DEF ContextMachine
      <4> QED BY <1>1, <4>1, <4>2 DEF Nested
    <3> QED BY <3>1, <3>2
  <2> QED BY <1>4, <1>5, <1>6, <2>1, SoundTypes DEF Outermost
<1>7. CASE c # 1
  <2>1. PICK p : p = ContextMachine(c - 1)
    OBVIOUS
  <2>2. c - 1 \in 1..k /\ c - 1 # Depth /\ (c - 1) + 1 = c
    BY <1>3, <1>7
  <2>3. p = suspended[c - 1].wi
    BY <2>1, <2>2 DEF ContextMachine
  <2>4. Linked(p, w)
    <3>1. CASE c = k + 1
      <4>1. suspended # <<>> /\ w = wi /\ c - 1 = k
        BY <1>2, <1>3, <1>4, <2>2, <3>1 DEF ContextMachine
      <4> QED BY <1>1, <1>2, <2>3, <4>1 DEF Nested
    <3>2. CASE c # k + 1
      <4>1. c - 1 \in 1..k-1 /\ w = suspended[c].wi
        BY <1>3, <1>4, <2>2, <3>2 DEF ContextMachine
      <4>2. Linked(suspended[c - 1].wi, suspended[(c - 1) + 1].wi)
        BY <1>1, <1>2, <4>1 DEF Nested
      <4> QED BY <2>2, <2>3, <4>1, <4>2
    <3> QED BY <3>1, <3>2
  <2> QED BY <1>4, <1>5, <1>7, <2>1, <2>4, SoundTypes DEF Linked
<1> QED BY <1>6, <1>7

\* A row writes where its parent's output ends and reads where its parent's cursor
\* stands: the windows of nested rows never leave the caller's buffers.  (_J, its
\* wi_init and wi_decode_init)
THEOREM StaysInside == Spec => []InsideBuffers
<1> QED BY DataSound, InvBuffers, PTL

\* Where the captured slices of a state must end.
SliceEnd == IF status = "returned" /\ turn = 1 /\ ~Stopped(wi) THEN wi.in + wi.in_pos
                                                              ELSE job.in + job.in_size

\* The rows of all lists.
RowsIn(h) == UNION {{h[l].rows[r] : r \in 1..Len(h[l].rows)} : l \in 1..Len(h)}

LEMMA RowIn ==
  ASSUME NEW h, NEW l \in 1..Len(h), NEW r \in 1..Len(h[l].rows)
  PROVE  h[l].rows[r] \in RowsIn(h)
<1>1. PICK S : S = {h[l].rows[q] : q \in 1..Len(h[l].rows)}
  OBVIOUS
<1>2. PICK x : x = h[l].rows[r]
  OBVIOUS
<1>3. x \in S
  BY <1>1, <1>2
<1>4. S \in {{h[m].rows[q] : q \in 1..Len(h[m].rows)} : m \in 1..Len(h)}
  BY <1>1
<1>5. x \in RowsIn(h)
  BY <1>3, <1>4 DEF RowsIn
<1> QED BY <1>2, <1>5

LEMMA InvSlices == ControlInv /\ DataInv => SlicesInsideInput
<1> SUFFICES ASSUME ControlInv, DataInv, ~job.encode PROVE SlicesInsideInput
  BY DEF SlicesInsideInput
<1>1. /\ Sound(job, wi) /\ Nested(job, suspended, wi) /\ HeapOK(job, heap)
      /\ Stored(job, heap, turn, wi)
  BY DEF DataInv
<1>2. PICK k \in Nat : k = Len(suspended)
  BY ActiveTop
<1>3. ASSUME NEW w, Sound(job, w)
      PROVE  SlicesOK(job, w.slices, job.in + job.in_size)
  <2>1. SlicesOK(job, w.slices, w.in + w.in_pos) /\ w.slices \in [Slots -> Slice]
    BY <1>3, SoundTypes
  <2>2. /\ w.in \in Nat /\ w.in_pos \in Nat /\ w.in_size \in Nat /\ w.in_pos <= w.in_size
        /\ w.in + w.in_size = job.in + job.in_size /\ job.in \in Nat /\ job.in_size \in Nat
    BY <1>3, SoundTypes
  <2>3. /\ w.in + w.in_pos \in Int /\ job.in + job.in_size \in Int
        /\ w.in + w.in_pos <= job.in + job.in_size
    BY <2>2
  <2> QED BY <2>1, <2>3, SlicesLater
<1>4. SliceEnd # job.in + job.in_size =>
        /\ status = "returned" /\ turn = 1 /\ ~wi.overrun /\ suspended = <<>>
        /\ SliceEnd = wi.in + wi.in_pos
  BY DEF SliceEnd, Stopped, ControlInv
<1>5. ASSUME NEW c \in 1..Depth
      PROVE  SlicesOK(job, ContextMachine(c).slices, SliceEnd)
  <2>1. CASE SliceEnd = job.in + job.in_size
    <3>1. Sound(job, ContextMachine(c))
      <4>1. CASE c = Depth
        BY <1>1, <4>1 DEF ContextMachine
      <4>2. CASE c # Depth
        <5>1. c \in 1..k
          BY <1>2, <4>2 DEF Depth
        <5>2. Held(job, suspended[c]) /\ ContextMachine(c) = suspended[c].wi
          BY <1>1, <1>2, <4>2, <5>1 DEF Nested, ContextMachine
        <5> QED BY <5>2 DEF Held
      <4> QED BY <4>1, <4>2
    <3> QED BY <1>3, <2>1, <3>1
  <2>2. CASE SliceEnd # job.in + job.in_size
    <3>1. Depth = 1
      BY <1>4, <2>2 DEF Depth
    <3>2. ContextMachine(c) = wi
      BY <3>1 DEF ContextMachine
    <3>3. SlicesOK(job, wi.slices, wi.in + wi.in_pos)
      BY <1>1, SoundTypes
    <3> QED BY <1>4, <2>2, <3>2, <3>3
  <2> QED BY <2>1, <2>2
<1>6. BlankRows(job) => RowsInside(job, heap, SliceEnd)
  BY <1>1, <1>4 DEF Stored
<1> DEFINE Inside(s) == s.data = NULL \/ (job.in <= s.data /\ s.data + s.length <= SliceEnd)
           RowsOf(lists) == UNION {{lists[l].rows[r] : r \in 1..Len(lists[l].rows)} :
                                      l \in 1..Len(lists)}
<1>7. ASSUME NEW f, SlicesOK(job, f, SliceEnd), NEW x \in Slots
      PROVE  Inside(f[x])
  BY <1>7 DEF SlicesOK, SliceOK
<1>8. \A c \in 1..Depth : \A x \in Slots : Inside(ContextMachine(c).slices[x])
  BY <1>5, <1>7
<1>9. ASSUME \A row \in RowsOf(job.heap) : \A x \in Slots : row.slices[x].data = NULL,
             NEW row \in RowsOf(heap), NEW x \in Slots
      PROVE  Inside(row.slices[x])
  <2>1. BlankRows(job)
    <3>1. ASSUME NEW l \in 1..Len(job.heap), NEW r \in 1..Len(job.heap[l].rows)
          PROVE  job.heap[l].rows[r] \in RowsOf(job.heap)
      <4>1. job.heap[l].rows[r] \in RowsIn(job.heap)
        BY <3>1, RowIn
      <4> QED BY <4>1 DEF RowsIn
    <3> QED BY <1>9, <3>1 DEF BlankRows
  <2>2. PICK l, r : /\ l \in 1..Len(heap) /\ r \in 1..Len(heap[l].rows)
                    /\ row = heap[l].rows[r]
    BY <1>9
  <2>3. SlicesOK(job, row.slices, SliceEnd)
    BY <1>6, <2>1, <2>2 DEF RowsInside
  <2> QED BY <1>7, <2>3
<1> QED BY <1>8, <1>9 DEF SlicesInsideInput, SliceEnd

\* A slice captured by %N or %R, in whatever row, points into the caller's input; after
\* a first parse that went well, at bytes it consumed.  (_N, _R, _J's copy loop)
THEOREM SlicesSound == Spec => []SlicesInsideInput
<1> QED BY DataSound, InvSlices, PTL

\* No specifier runs once the parse has stopped.  (the loop of wi_parse_rank)
LEMMA OnlyRunning ==
  ASSUME Next, status = "parsing", ~Running
  PROVE  NextRow \/ EndSequence \/ EndParse
<1>1. ~\E letters : Op(letters)
  BY DEF Op
<1>2. ~(\/ EmitLiteral \/ PushLiteral \/ PushParam \/ LoadVar \/ StoreVar \/ RaiseFault
        \/ BinaryOp \/ UnaryOp \/ BadSpecifier \/ EmitNumber \/ ReadNumber \/ EmitSdnv
        \/ ReadSdnv \/ PackBits \/ UnpackBits \/ FlushBits \/ EmitArray \/ CaptureRest
        \/ CaptureExact \/ SliceLength \/ EmitSlice \/ EmitExact \/ ListCount \/ Mark
        \/ ThenTaken \/ RefuseSequence)
  BY DataHandlers DEF Handled
<1>3. ~ThenSkipped /\ ~ElseSkipped /\ ~DivisionTraps /\ ~ArrayTraps
  BY <1>1 DEF ThenSkipped, ElseSkipped, DivisionTraps, ArrayTraps
<1>4. ~ArmRepeat /\ ~RefuseCall /\ ~CallTooDeep /\ ~Call /\ ~EmptySequence /\ ~BeginSequence
  BY <1>1 DEF ArmRepeat, RefuseCall, CallTooDeep, Call, EmptySequence, BeginSequence
<1>5. ~RepeatFormat /\ ~ReturnFormat
  BY DEF RepeatFormat, ReturnFormat
<1>6. ~SetFormats /\ ~RefuseFormats /\ ~NextParse /\ ~Done
  BY DEF SetFormats, RefuseFormats, NextParse, Done, Finished
<1> QED BY <1>2, <1>3, <1>4, <1>5, <1>6 DEF Next

LEMMA StopStep ==
  ASSUME ControlInv, DataInv, Next, status = "parsing", Stopped(wi)
  PROVE  \/ status' = "returned" /\ UNCHANGED wi
         \/ Stopped(wi') /\ Len(suspended') = Len(suspended) - 1
<1>1. NextRow \/ EndSequence \/ EndParse
  BY OnlyRunning DEF Running
<1>2. ASSUME suspended # <<>>
      PROVE  Stopped(Merged)
  <2>1. wi.faults \subseteq Merged.faults /\ (wi.overrun => Merged.overrun)
    BY <1>2, ParentTyped, MergedEvolves DEF DataInv
  <2> QED BY <2>1 DEF Stopped
<1>3. CASE NextRow
  BY <1>2, <1>3 DEF NextRow
<1>4. CASE EndSequence
  <2>1. /\ wi' = Merged /\ suspended # <<>> /\ job' = job
        /\ suspended' = SubSeq(suspended, 1, Len(suspended) - 1)
    BY <1>4 DEF EndSequence, control
  <2>2. PICK L : suspended \in Contexts(L)
    BY DEF ControlInv, Shape
  <2>3. Len(suspended') = Len(suspended) - 1
    BY <2>1, <2>2, ButLast DEF Contexts
  <2>4. Stopped(wi')
    BY <1>2, <2>1 DEF Stopped
  <2> QED BY <2>3, <2>4
<1>5. CASE EndParse
  BY <1>5 DEF EndParse
<1> QED BY <1>1, <1>3, <1>4, <1>5

\* An overrun or a fatal fault, in whatever row of whatever sequence, ends the whole
\* parse.  (the loop of wi_parse_rank, _J)
THEOREM Stops == Spec => StopPropagates
<1>1. (ControlInv /\ DataInv) /\ [Next]_vars =>
        [status = "parsing" /\ Stopped(wi) =>
           \/ status' = "returned" /\ UNCHANGED wi
           \/ Stopped(wi') /\ Len(suspended') = Len(suspended) - 1]_vars
  BY StopStep
<1> QED BY <1>1, DataSound, PTL DEF Spec, StopPropagates

\* Raised, context by context.
LEMMA RaisedParts ==
  ASSUME Len(suspended) \in Nat
  PROVE  \A f : f \in Raised <=> \/ f \in wi.faults
                                 \/ \E i \in 1..Len(suspended) : f \in suspended[i].wi.faults
<1>1. ContextMachine(Depth) = wi /\ Depth \in 1..Depth /\ Depth = Len(suspended) + 1
  BY DEF ContextMachine, Depth
<1>2. \A i \in 1..Len(suspended) : i \in 1..Depth /\ ContextMachine(i) = suspended[i].wi
  BY <1>1 DEF ContextMachine
<1>3. \A c \in 1..Depth : c = Depth \/ c \in 1..Len(suspended)
  BY <1>1
<1> QED BY <1>1, <1>2, <1>3, Zenon DEF Raised

LEMMA RaisedPartsNext ==
  ASSUME Len(suspended') \in Nat
  PROVE  \A f : f \in Raised' <=> \/ f \in wi'.faults
                                  \/ \E i \in 1..Len(suspended') : f \in suspended'[i].wi.faults
<1>1. ContextMachine(Depth)' = wi' /\ Depth' \in 1..Depth' /\ Depth' = Len(suspended') + 1
  BY DEF ContextMachine, Depth
<1>2. \A i \in 1..Len(suspended') : i \in 1..Depth' /\ ContextMachine(i)' = suspended'[i].wi
  BY <1>1 DEF ContextMachine
<1>3. \A c \in 1..Depth' : c = Depth' \/ c \in 1..Len(suspended')
  BY <1>1
<1> QED BY <1>1, <1>2, <1>3, Zenon DEF Raised

\* A step that leaves the waiting contexts alone loses nothing, if the running context
\* loses nothing.
LEMMA SameContexts ==
  ASSUME Len(suspended) \in Nat, suspended' = suspended, wi.faults \subseteq wi'.faults
  PROVE  Raised \subseteq Raised'
<1>1. Len(suspended') = Len(suspended)
  OBVIOUS
<1>2. \A i \in 1..Len(suspended) : suspended'[i] = suspended[i]
  OBVIOUS
<1> QED BY <1>1, <1>2, RaisedParts, RaisedPartsNext

\* What %J does to the contexts: a row is entered, the next one started, or the last
\* one left.
LEMMA SequenceKeepsFaults ==
  ASSUME ControlInv, DataInv, BeginSequence \/ NextRow \/ EndSequence
  PROVE  Raised \subseteq Raised'
<1>1. PICK L : suspended \in Contexts(L)
  BY DEF ControlInv, Shape
<1>2. PICK k \in Nat : k = Len(suspended) /\ suspended \in Seq(Context(L))
  BY <1>1 DEF Contexts
<1>3. Sound(job, wi) /\ HeapOK(job, heap)
  BY DEF DataInv
<1>4. ASSUME suspended # <<>>
      PROVE  /\ wi.faults \subseteq Merged.faults /\ suspended[k].wi.faults \subseteq Merged.faults
             /\ k \in 1..k /\ k - 1 \in Nat
  <2>1. Evolves(job, Parent.wi, Merged) /\ wi.faults \subseteq Merged.faults
    BY <1>3, <1>4, ParentTyped, MergedEvolves
  <2>2. k # 0
    BY <1>2, <1>4
  <2> QED BY <1>2, <2>1, <2>2 DEF Evolves, Parent
<1>5. CASE BeginSequence
  <2>1. PICK x : suspended' = Append(suspended, x) /\ x.wi = Popped(wi, 3)
    BY <1>5 DEF BeginSequence
  <2>2. wi.faults \subseteq x.wi.faults
    BY <1>3, <2>1, PoppedEvolves DEF Evolves
  <2>3. /\ Len(suspended') = k + 1 /\ k + 1 \in 1..k+1 /\ suspended'[k + 1] = x
        /\ \A i \in 1..k : i \in 1..k+1 /\ suspended'[i] = suspended[i]
    BY <1>2, <2>1
  <2> QED BY <1>2, <2>2, <2>3, RaisedParts, RaisedPartsNext
<1>6. CASE NextRow
  <2>1. PICK m, r : m = Merged /\ r = suspended[k].row + 1
    OBVIOUS
  <2>2. suspended # <<>> /\ suspended' = [suspended EXCEPT ![k].wi = m, ![k].row = r]
    BY <1>2, <1>6, <2>1 DEF NextRow
  <2>3. k \in 1..k /\ suspended[k] \in Context(L)
    BY <1>2, <1>4, <2>2
  <2>4. Len(suspended') = k
    BY <1>2, <2>2, <2>3
  <2>5. suspended'[k].wi = m
    BY <1>2, <2>2, <2>3 DEF Context
  <2>6. \A i \in 1..k : i # k => suspended'[i] = suspended[i]
    BY <1>2, <2>2
  <2>7. wi.faults \subseteq suspended'[k].wi.faults /\ suspended[k].wi.faults \subseteq suspended'[k].wi.faults
    BY <1>4, <2>1, <2>2, <2>5
  <2>8. \A i \in 1..k : suspended[i].wi.faults \subseteq suspended'[i].wi.faults
    BY <2>6, <2>7
  <2> QED BY <1>2, <2>3, <2>4, <2>7, <2>8, RaisedParts, RaisedPartsNext
<1>7. CASE EndSequence
  <2>1. /\ wi' = Merged /\ suspended # <<>>
        /\ suspended' = SubSeq(suspended, 1, Len(suspended) - 1)
    BY <1>7 DEF EndSequence
  <2>2. /\ Len(suspended') = k - 1
        /\ \A i \in 1 .. k - 1 : suspended'[i] = suspended[i]
    BY <1>2, <2>1, ButLast
  <2>3. \A i \in 1..k : i = k \/ i \in 1 .. k - 1
    BY <1>2
  <2> QED BY <1>2, <1>4, <2>1, <2>2, <2>3, RaisedParts, RaisedPartsNext
<1> QED BY <1>5, <1>6, <1>7

LEMMA FaultsKept ==
  ASSUME ControlInv, DataInv, Next, turn' = turn
  PROVE  Raised \subseteq Raised'
<1>1. Sound(job, wi) /\ HeapOK(job, heap) /\ Len(suspended) \in Nat
  BY ActiveTop DEF DataInv
<1>2. CASE \/ EmitLiteral \/ PushLiteral \/ PushParam \/ LoadVar \/ StoreVar \/ RaiseFault
           \/ BinaryOp \/ UnaryOp \/ BadSpecifier \/ EmitNumber \/ ReadNumber \/ EmitSdnv
           \/ ReadSdnv \/ PackBits \/ UnpackBits \/ FlushBits \/ EmitArray \/ CaptureRest
           \/ CaptureExact \/ SliceLength \/ EmitSlice \/ EmitExact \/ ListCount \/ Mark
           \/ ThenTaken \/ RefuseSequence \/ ThenSkipped \/ ElseSkipped
  <2>1. wi.faults \subseteq wi'.faults
    BY <1>1, <1>2, HandlersEvolve DEF Evolves
  <2>2. suspended' = suspended
    <3>1. CASE ThenSkipped \/ ElseSkipped
      <4>1. \E w, letters : SkipBranch(w, letters)
        BY <3>1, Zenon DEF ThenSkipped, ElseSkipped
      <4> QED BY <4>1 DEF SkipBranch
    <3>2. CASE ~(ThenSkipped \/ ElseSkipped)
      <4>1. Handled
        BY <1>2, <3>2, DataHandlers
      <4> QED BY <4>1 DEF Handled, Do
    <3> QED BY <3>1, <3>2
  <2> QED BY <1>1, <2>1, <2>2, SameContexts
<1>3. CASE ArmRepeat \/ EmptySequence
  <2>1. (wi' = Popped(wi, 1) \/ wi' = Popped(wi, 3)) /\ suspended' = suspended
    BY <1>3 DEF ArmRepeat, EmptySequence
  <2>2. Evolves(job, wi, wi')
    BY <1>1, <2>1, PoppedEvolves
  <2>3. wi.faults \subseteq wi'.faults
    BY <2>2 DEF Evolves
  <2> QED BY <1>1, <2>1, <2>3, SameContexts
<1>4. CASE CallTooDeep
  <2>1. wi.faults \subseteq wi'.faults
    BY <1>1, <1>4, OverrunEvolves DEF CallTooDeep, Evolves
  <2>2. suspended' = suspended
    BY <1>4 DEF CallTooDeep
  <2> QED BY <1>1, <2>1, <2>2, SameContexts
<1>5. CASE \/ RefuseCall \/ Call \/ RepeatFormat \/ ReturnFormat \/ RefuseFormats
           \/ DivisionTraps \/ ArrayTraps \/ EndParse \/ Done
  <2>1. wi' = wi /\ suspended' = suspended
    <3>1. CASE RefuseCall    BY <3>1 DEF RefuseCall
    <3>2. CASE Call          BY <3>2 DEF Call
    <3>3. CASE RepeatFormat  BY <3>3 DEF RepeatFormat
    <3>4. CASE ReturnFormat  BY <3>4 DEF ReturnFormat
    <3>5. CASE RefuseFormats BY <3>5 DEF RefuseFormats
    <3>6. CASE DivisionTraps BY <3>6 DEF DivisionTraps
    <3>7. CASE ArrayTraps    BY <3>7 DEF ArrayTraps
    <3>8. CASE EndParse      BY <3>8 DEF EndParse
    <3>9. CASE Done          BY <3>9 DEF Done, vars
    <3> QED BY <1>5, <3>1, <3>2, <3>3, <3>4, <3>5, <3>6, <3>7, <3>8, <3>9
  <2> QED BY <1>1, <2>1, SameContexts
<1>6. CASE SetFormats
  <2>1. wi.faults \subseteq wi'.faults /\ suspended' = suspended
    BY <1>6 DEF SetFormats, DataInv
  <2> QED BY <1>1, <2>1, SameContexts
<1>7. CASE NextParse
  <2>1. turn' = turn + 1 /\ turn \in Nat
    BY <1>7 DEF NextParse, ControlInv
  <2> QED BY <2>1
<1>8. CASE BeginSequence \/ NextRow \/ EndSequence
  BY <1>8, SequenceKeepsFaults
<1> QED BY <1>2, <1>3, <1>4, <1>5, <1>6, <1>7, <1>8 DEF Next

\* A parse returns from its own string: no row is left, and the caller's context holds
\* what any has raised.
LEMMA ReturnsAll ==
  ASSUME ControlInv, Next, turn' = turn, status # "returned", status' = "returned"
  PROVE  Raised \subseteq wi'.faults
<1>1. EndParse
  <2>1. ~\E w : Do(w)
    BY DEF Do, control
  <2>2. ~(\/ EmitLiteral \/ PushLiteral \/ PushParam \/ LoadVar \/ StoreVar \/ RaiseFault
          \/ BinaryOp \/ UnaryOp \/ BadSpecifier \/ EmitNumber \/ ReadNumber \/ EmitSdnv
          \/ ReadSdnv \/ PackBits \/ UnpackBits \/ FlushBits \/ EmitArray \/ CaptureRest
          \/ CaptureExact \/ SliceLength \/ EmitSlice \/ EmitExact \/ ListCount \/ Mark
          \/ ThenTaken \/ RefuseSequence)
    BY <2>1, DataHandlers DEF Handled
  <2>3. ~ThenSkipped /\ ~ElseSkipped
    <3>1. ~\E w, letters : SkipBranch(w, letters)
      BY DEF SkipBranch, control
    <3> QED BY <3>1, Zenon DEF ThenSkipped, ElseSkipped
  <2>4. ~ArmRepeat /\ ~RefuseCall /\ ~CallTooDeep /\ ~Call
    BY DEF ArmRepeat, RefuseCall, CallTooDeep, Call, control
  <2>5. ~RepeatFormat /\ ~ReturnFormat /\ ~EmptySequence /\ ~BeginSequence
    BY DEF RepeatFormat, ReturnFormat, EmptySequence, BeginSequence, control
  <2>6. ~NextRow /\ ~EndSequence /\ ~Done
    BY DEF NextRow, EndSequence, Done, vars, control
  <2>7. ~SetFormats /\ ~RefuseFormats /\ ~DivisionTraps /\ ~ArrayTraps /\ ~NextParse
    BY DEF SetFormats, RefuseFormats, DivisionTraps, ArrayTraps, NextParse
  <2> QED BY <2>2, <2>3, <2>4, <2>5, <2>6, <2>7 DEF Next
<1>2. suspended = <<>> /\ wi' = wi
  BY <1>1 DEF EndParse
<1>3. Len(suspended) \in Nat /\ Len(suspended) = 0
  BY <1>2
<1> QED BY <1>2, <1>3, RaisedParts

\* Whatever the nesting, the order and the outcome of the rows: a fault bit that any
\* context of a parse has raised is not lost by any step, and is in the caller's
\* v->faults when wi_parse() returns.  (_E, _J, wi_parse_rank)
THEOREM FaultsReported == Spec => FaultsReachTheCaller
<1>1. (ControlInv /\ DataInv) /\ [Next]_vars =>
        [turn' = turn =>
           /\ Raised \subseteq Raised'
           /\ status # "returned" /\ status' = "returned" => Raised \subseteq wi'.faults]_vars
  BY FaultsKept, ReturnsAll
<1> QED BY <1>1, DataSound, PTL DEF Spec, FaultsReachTheCaller

=============================================================================
