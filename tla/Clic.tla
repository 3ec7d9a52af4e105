-------------------------------- MODULE Clic --------------------------------
(***************************************************************************)
(* The configuration of the Core Level Interrupt Controller (alt_irq.h):   *)
(* level, priority and trigger mode of an interrupt are fields of bytes,   *)
(* four bytes to a register, which is reached in two steps: MISELECT names *)
(* it, then MIREG or MIREG2 is read and written. Interrupts are on between *)
(* the steps unless the caller has turned them off, and a handler that     *)
(* configures an interrupt uses the same MISELECT: the steps left of the   *)
(* call it interrupts then reach the register that the handler selected.   *)
(*                                                                         *)
(* Bytes are numbers; the fields that are put together do not overlap, so  *)
(* that + is the | of the code. Arguments are in the range of their field. *)
(*                                                                         *)
(* A definition named Mut... is the one after it with a plausible bug in.  *)
(***************************************************************************)
EXTENDS Integers

CONSTANTS
  Codes,         \* mcause codes of the platform interrupts: 16 + irq
  LevelBits,     \* ALT_CLIC_CTL_NUM_LEVEL_BITS
  PriorityBits,  \* ALT_CLIC_CTL_NUM_PRIORITY_BITS
  Triggers,      \* trigger modes considered
  MaxRequests,   \* bound: calls made
  NoCall

VARIABLES
  clicintctl, clicintattr,  \* the byte of each interrupt in the two kinds of register
  clicintie,                \* the interrupts enabled
  MISELECT,                 \* the registers MIREG and MIREG2 stand for
  open,                     \* whether handlers may run: mstatus.MIE
  step, request, mireg_val, \* the program's call, and the register it has read
  config,                   \* history: the fields asked for, and whether enabled
  suspect,                  \* history: interrupts in the registers of a call that a handler came
                            \* into, and in those that the handler selected
  made                      \* history: the number of calls

clicVars ==
  <<clicintctl, clicintattr, clicintie, MISELECT, open, step, request, mireg_val, config, suspect,
    made>>

-----------------------------------------------------------------------------
(* The layout of the bytes *)

\* Fields are at most a byte wide.
TwoTo(n) == <<1, 2, 4, 8, 16, 32, 64, 128, 256>>[n + 1]
LEVEL_SHIFT == 8 - LevelBits
PRIORITY_SHIFT == 8 - (LevelBits + PriorityBits)

level_bits_of(byte) == byte \div TwoTo(LEVEL_SHIFT)
priority_bits_of(byte) == (byte % TwoTo(LEVEL_SHIFT)) \div TwoTo(PRIORITY_SHIFT)
encode_ctl_byte(level, priority) ==
  level * TwoTo(LEVEL_SHIFT) + priority * TwoTo(PRIORITY_SHIFT) + (TwoTo(PRIORITY_SHIFT) - 1)

\* Bits 2 and 1: inverted polarity and edge triggered; bits 7 and 6: privilege mode;
\* bit 0: hardware vectored.
trigger_of(attr) == (attr \div 2) % 4
rest_of(attr) == attr - 2 * trigger_of(attr)
WithTrigger(attr, mode) == rest_of(attr) + 2 * mode
encode_attr_byte(privilege, mode, vectored) == privilege * 64 + mode * 2 + vectored

IsSet(byte, bit) == (byte \div TwoTo(bit)) % 2 = 1
WithBit(byte, bit, on) ==
  IF IsSet(byte, bit) = on THEN byte ELSE IF on THEN byte + TwoTo(bit) ELSE byte - TwoTo(bit)

\* What a call makes of the byte of its interrupt.
NewCtl(byte, field, value) ==
  CASE field = "level"    -> encode_ctl_byte(value, priority_bits_of(byte))
    [] field = "priority" -> encode_ctl_byte(level_bits_of(byte), value)
    [] field = "ctl"      -> value
NewAttr(byte, field, value) ==
  IF field = "trigger" THEN WithTrigger(byte, value) ELSE value

-----------------------------------------------------------------------------
(* The calls *)

CtlAttr(code) == [kind |-> "ctl_attr", index |-> code \div 4]
IpIe(code) == [kind |-> "ip_ie", index |-> code \div 32]
RegisterOf(r) == IF r.field = "enable" THEN IpIe(r.code) ELSE CtlAttr(r.code)
CtlFields == {"level", "priority", "ctl"}
AttrFields == {"trigger", "attr"}

Arguments(field) ==
  CASE field = "level"    -> 0 .. (TwoTo(LevelBits) - 1)
    [] field = "priority" -> 0 .. (TwoTo(PriorityBits) - 1)
    [] field = "ctl"      -> {encode_ctl_byte(0, 0)}
    [] field = "trigger"  -> Triggers
    [] field = "attr"     -> {encode_attr_byte(3, mode, 1) : mode \in Triggers}
    [] field = "enable"   -> BOOLEAN
Requests ==
  UNION {[code : Codes, field : {f}, value : Arguments(f)] :
           f \in CtlFields \cup AttrFields \cup {"enable"}}

\* What the caller wants to be true of its interrupt from then on, and of no other.
Asked(r) ==
  [config EXCEPT ![r.code] =
     CASE r.field = "ctl"  -> [@ EXCEPT !.level = level_bits_of(r.value),
                                        !.priority = priority_bits_of(r.value)]
       [] r.field = "attr" -> [@ EXCEPT !.trigger = trigger_of(r.value),
                                        !.rest = rest_of(r.value)]
       [] OTHER            -> [@ EXCEPT ![r.field] = r.value]]

\* intel_niosv_clic_csrind_init
Init ==
  /\ clicintctl = [c \in Codes |-> 0] /\ clicintattr = [c \in Codes |-> 0]
  /\ clicintie = {} /\ MISELECT = [kind |-> "ctl_attr", index |-> 0] /\ open = TRUE
  /\ step = "idle" /\ request = NoCall /\ mireg_val = <<>>
  /\ config = [c \in Codes |-> [level |-> 0, priority |-> 0, trigger |-> 0, rest |-> 0,
                               enable |-> FALSE]]
  /\ suspect = {} /\ made = 0

-----------------------------------------------------------------------------
(* The registers *)

\* Four bytes of a kind of register; interrupts that do not exist read as zero.
BytesAt(bytes, index) ==
  [slot \in 0 .. 3 |-> IF 4 * index + slot \in Codes THEN bytes[4 * index + slot] ELSE 0]

\* The 32 bits of a register that has one for each interrupt, by bytes.
BitsAt(set, index) ==
  LET bit(c, value) == IF c \in set THEN value ELSE 0
      byte(c) == bit(c, 1) + bit(c + 1, 2) + bit(c + 2, 4) + bit(c + 3, 8)
                 + bit(c + 4, 16) + bit(c + 5, 32) + bit(c + 6, 64) + bit(c + 7, 128)
  IN  [slot \in 0 .. 3 |-> byte(32 * index + 8 * slot)]

\* What a call reads: MIREG is clicintctl or clicintip, MIREG2 is clicintattr or clicintie.
ReadOf(r, select, pending) ==
  IF r.field \in CtlFields
  THEN IF select.kind = "ctl_attr" THEN BytesAt(clicintctl, select.index)
       ELSE BitsAt(pending, select.index)
  ELSE IF select.kind = "ctl_attr" THEN BytesAt(clicintattr, select.index)
       ELSE BitsAt(clicintie, select.index)

\* What it makes of the word read: the slice of its interrupt is changed.
Replaced(r, word) ==
  [word EXCEPT ![r.code % 4] =
     IF r.field \in CtlFields THEN NewCtl(@, r.field, r.value)
                              ELSE NewAttr(@, r.field, r.value)]

Stored(bytes, index, word) ==
  [c \in Codes |-> IF c \div 4 = index THEN word[c % 4] ELSE bytes[c]]
StoredBits(set, index, word) ==
  {c \in Codes : IF c \div 32 = index THEN IsSet(word[(c % 32) \div 8], c % 8) ELSE c \in set}

\* It is written back; pending bits are no configuration.
WriteBack(r, select, word) ==
  /\ clicintctl' = IF r.field \in CtlFields /\ select.kind = "ctl_attr"
                   THEN Stored(clicintctl, select.index, Replaced(r, word)) ELSE clicintctl
  /\ clicintattr' = IF r.field \in AttrFields /\ select.kind = "ctl_attr"
                    THEN Stored(clicintattr, select.index, Replaced(r, word)) ELSE clicintattr
  /\ clicintie' = IF r.field \in AttrFields /\ select.kind = "ip_ie"
                  THEN StoredBits(clicintie, select.index, Replaced(r, word)) ELSE clicintie

\* Enabling and disabling set and clear one bit of MIREG2 in one instruction.
ChangeBit(r, select) ==
  LET c == 32 * select.index + (r.code % 32)
      attrOf == 4 * select.index + ((r.code % 32) \div 8)
  IN  /\ clicintie' = IF select.kind # "ip_ie" THEN clicintie
                      ELSE IF r.value THEN clicintie \cup ({c} \cap Codes) ELSE clicintie \ {c}
      /\ clicintattr' = [a \in Codes |->
           IF select.kind = "ctl_attr" /\ a = attrOf
           THEN WithBit(clicintattr[a], r.code % 8, r.value) ELSE clicintattr[a]]
      /\ UNCHANGED clicintctl

-----------------------------------------------------------------------------
(* The steps *)

\* The program calls and selects the register; its caller may have turned interrupts off.
MutSelect(r, masked) ==
  /\ step = "idle" /\ made < MaxRequests /\ made' = made + 1 /\ open' = ~masked
  /\ request' = r /\ config' = Asked(r) /\ MISELECT' = CtlAttr(r.code)
  /\ step' = IF r.field = "enable" THEN "write" ELSE "read"
  /\ UNCHANGED <<clicintctl, clicintattr, clicintie, mireg_val, suspect>>
Select(r, masked) ==
  /\ step = "idle" /\ made < MaxRequests /\ made' = made + 1 /\ open' = ~masked
  /\ request' = r /\ config' = Asked(r) /\ MISELECT' = RegisterOf(r)
  /\ step' = IF r.field = "enable" THEN "write" ELSE "read"
  /\ UNCHANGED <<clicintctl, clicintattr, clicintie, mireg_val, suspect>>

\* None or all of the interrupts may be pending.
Read ==
  /\ step = "read" /\ step' = "write"
  /\ \E pending \in {{}, Codes} : mireg_val' = ReadOf(request, MISELECT, pending)
  /\ UNCHANGED <<clicintctl, clicintattr, clicintie, MISELECT, open, request, config, suspect,
                 made>>

Write ==
  /\ step = "write" /\ step' = "idle"
  /\ IF request.field = "enable" THEN ChangeBit(request, MISELECT)
     ELSE WriteBack(request, MISELECT, mireg_val)
  /\ open' = TRUE /\ request' = NoCall /\ mireg_val' = <<>>
  /\ UNCHANGED <<MISELECT, config, suspect, made>>

\* The interrupts of a register.
Of(select) == {c \in Codes : select \in {CtlAttr(c), IpIe(c)}}
Suspected(select) ==
  IF step = "idle" THEN suspect ELSE suspect \cup Of(RegisterOf(request)) \cup Of(select)

\* A handler makes a call of its own, from start to end ...
HandlerCall(r) ==
  /\ open /\ made < MaxRequests /\ made' = made + 1
  /\ MISELECT' = RegisterOf(r) /\ config' = Asked(r) /\ suspect' = Suspected(RegisterOf(r))
  /\ IF r.field = "enable" THEN ChangeBit(r, RegisterOf(r))
     ELSE WriteBack(r, RegisterOf(r), ReadOf(r, RegisterOf(r), {}))
  /\ UNCHANGED <<open, step, request, mireg_val>>

\* ... or only asks for the configuration of an interrupt, which selects its register; that
\* matters while the program makes a call.
HandlerReads(r) ==
  /\ open /\ step # "idle" /\ MISELECT' = RegisterOf(r) /\ suspect' = Suspected(RegisterOf(r))
  /\ UNCHANGED <<clicintctl, clicintattr, clicintie, open, step, request, mireg_val, config, made>>

Next ==
  \/ \E r \in Requests : \E masked \in BOOLEAN : Select(r, masked)
  \/ \E r \in Requests : HandlerCall(r) \/ HandlerReads(r)
  \/ Read \/ Write

Spec == Init /\ [][Next]_clicVars

-----------------------------------------------------------------------------
(* Properties *)

TypeOK ==
  /\ clicintctl \in [Codes -> 0 .. 255] /\ clicintattr \in [Codes -> 0 .. 255]
  /\ clicintie \subseteq Codes /\ open \in BOOLEAN
  /\ step \in {"idle", "read", "write"} /\ request \in Requests \cup {NoCall}
  /\ suspect \subseteq Codes /\ made \in 0 .. MaxRequests

\* Outside of calls every interrupt has the level, priority, trigger mode and other attributes
\* last asked for, and is enabled if it was enabled last: a call changes its field alone, in its
\* interrupt alone, though four share a register and handlers share MISELECT. Where a handler
\* came into a call, that holds of the interrupts in none of the registers that either selected.
FieldsAsAsked ==
  step = "idle" =>
    \A c \in Codes \ suspect :
      /\ level_bits_of(clicintctl[c]) = config[c].level
      /\ priority_bits_of(clicintctl[c]) = config[c].priority
      /\ trigger_of(clicintattr[c]) = config[c].trigger
      /\ rest_of(clicintattr[c]) = config[c].rest
      /\ c \in clicintie <=> config[c].enable
=============================================================================
