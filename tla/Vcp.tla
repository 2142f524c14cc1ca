--------------------------------- MODULE Vcp ---------------------------------
(***************************************************************************)
(* The Virtual COM Port service (usb_host_vcp.cpp) and its drivers, on top *)
(* of the CDC-ACM driver: the service tries every product that a driver    *)
(* knows until one can be opened; the driver of the chip prepares it and   *)
(* then sets its line, its modem lines and its break with one request      *)
(* after the other, any of which may fail.  One serial port, opened by one *)
(* task; the callbacks for what it receives run in the CDC-ACM driver's.   *)
(***************************************************************************)
EXTENDS Sequences, Integers, CdcAcm

-----------------------------------------------------------------------------
(***************************************************************************)
(* What the three Virtual COM Port drivers make of a line coding: the      *)
(* requests that they send to their chips, as the numbers they put into    *)
(* them, and what those chips make of these numbers.                       *)
(***************************************************************************)

\* A line coding: bits per second, data bits (0: both may be left alone), parity (none,
\* odd, even, mark, space) and stop bits (1, 1.5, 2), numbered as in cdc_acm_line_coding_t.
Rate(reg, val) == <<[reg |-> reg, val |-> val]>>
If(cond, seq)  == IF cond THEN seq ELSE <<>>

Bit(n, i) == (n \div 2^i) % 2
Or2(a, b) == LET or(i) == IF Bit(a, i) + Bit(b, i) > 0 THEN 2^i ELSE 0 IN or(0) + or(1)

-----------------------------------------------------------------------------
(* usb_host_ftdi_vcp.c: a divisor of 3 MHz in eighths *)

FtdiClock == 3000000
FtdiBits  == <<0, 3, 2, 4, 1, 5, 6, 7>>     \* ftdi_fractal_bits

\* calculate_baudrate(): of the two divisors next to the exact one, the one whose rate
\* is closer.  The integer part goes into the low bits of wValue, the fraction into its
\* two high bits and into wIndex, here above it.
FtdiDivisor(rate) ==
    IF rate >= 3000000 THEN 0
    ELSE IF rate >= 2000000 THEN 1
    ELSE LET low    == (8 * FtdiClock) \div rate
             real(d) == (8 * FtdiClock) \div d
             d      == IF real(low) - rate < rate - real(low + 1) THEN low ELSE low + 1
             n      == (d \div 8) % 2^16
             bits   == FtdiBits[(d % 8) + 1]
         IN  (n % 2^14) + 2^14 * Or2(n \div 2^14, bits % 4) + 2^16 * (bits \div 4)

\* The chip: a fraction needs an integer part of at least 2 (AN232B-05).
FtdiMakes(v) ==
    LET bits == v \div 2^14
        n    == v % 2^14
        d    == 8 * n + (CHOOSE i \in 1..8 : FtdiBits[i] = bits) - 1
    IN  IF d = 0 THEN FtdiClock ELSE IF d = 8 THEN 2000000
        ELSE IF d < 16 THEN 0 ELSE (8 * FtdiClock) \div d

FtdiFormat(c) == c.bits + 2^8 * c.parity + 2^11 * c.stop
FtdiReads(v)  == [bits |-> v % 2^8, parity |-> (v \div 2^8) % 8, stop |-> v \div 2^11]

\* ftdi_line_coding_set()
FtdiRequests(c) ==
    [ok |-> TRUE,
     todo |-> If(c.rate # 0, Rate("rate", FtdiDivisor(c.rate)))
              \o If(c.bits # 0, Rate("format", FtdiFormat(c)))]

-----------------------------------------------------------------------------
(* usb_host_ch34x_vcp.c: a prescaler and a factor of eight bits *)

Ch34xClock(div) == CASE div = 0 -> 11719 [] div = 1 -> 93750 [] div = 2 -> 750000 [] div = 3 -> 6000000
                     [] OTHER -> 12000000

\* The fastest prescaler that is slow enough
Ch34xPrescaler(rate) ==
    IF rate > 6000000 \div 255 THEN 3 ELSE IF rate > 750000 \div 255 THEN 2
    ELSE IF rate > 93750 \div 255 THEN 1 ELSE 0

\* calculate_baud_divisor(), in which the factor is cut to a byte
Ch34xDivisor(rate) ==
    IF rate = 921600 THEN [ok |-> TRUE, factor |-> 243, div |-> 7]
    ELSE IF rate = 307200 THEN [ok |-> TRUE, factor |-> 217, div |-> 7]
    ELSE LET div == Ch34xPrescaler(rate)
             c   == Ch34xClock(div)
             a   == (c \div rate) % 2^8
             up  == c \div a - rate > rate - c \div (a + 1)
         IN  IF a \in {0, 255} THEN [ok |-> FALSE, factor |-> 0, div |-> div]
             ELSE [ok |-> TRUE, factor |-> 256 - (IF up THEN a + 1 ELSE a), div |-> div]

Ch34xMakes(v) == Ch34xClock(v % 2^7) \div (256 - v \div 2^8)

\* The line control register: parity on 8, even 16, mark or space 32, two stop bits 4
Ch34xFormat(c) ==
    192 + (c.bits - 5)
    + (CASE c.parity = 0 -> 0 [] c.parity = 1 -> 8 [] c.parity = 2 -> 24 [] OTHER -> 40)
    + (IF c.stop = 2 THEN 4 ELSE 0)
Ch34xReads(v) ==
    [bits |-> (v % 4) + 5, stop |-> 2 * Bit(v, 2),
     parity |-> IF Bit(v, 3) = 0 THEN 0 ELSE 1 + 2 * Bit(v, 5) + Bit(v, 4)]

Ch34xKnows(c) == c.bits \in 5..8 /\ c.parity \in 0..4 /\ c.stop \in {0, 2}

\* ch34x_line_coding_set(): the rate has been sent when the format turns out to be wrong.
Ch34xRequests(c) ==
    LET divisor == Ch34xDivisor(c.rate)
        rate    == If(c.rate # 0, Rate("rate", 2^8 * divisor.factor + 2^7 + divisor.div))
    IN  IF c.rate # 0 /\ ~divisor.ok THEN [ok |-> FALSE, todo |-> <<>>]
        ELSE IF c.bits = 0 THEN [ok |-> TRUE, todo |-> rate]
        ELSE IF ~Ch34xKnows(c) THEN [ok |-> FALSE, todo |-> rate]
        ELSE [ok |-> TRUE, todo |-> rate \o Rate("format", Ch34xFormat(c))]

-----------------------------------------------------------------------------
(* usb_host_cp210x_vcp.c: the chip takes the rate itself *)

Cp210xFormat(c) == c.stop + 2^4 * c.parity + 2^8 * c.bits
Cp210xReads(v)  == [stop |-> v % 2^4, parity |-> (v % 2^8) \div 2^4, bits |-> v \div 2^8]

\* cp210x_line_coding_set()
Cp210xRequests(c) ==
    [ok |-> TRUE,
     todo |-> If(c.rate # 0, Rate("rate", c.rate)) \o If(c.bits # 0, Rate("format", Cp210xFormat(c)))]

-----------------------------------------------------------------------------
LineRequests(chip, c) ==
    CASE chip = "ftdi"  -> FtdiRequests(c)
      [] chip = "ch34x" -> Ch34xRequests(c)
      [] OTHER          -> Cp210xRequests(c)

\* What a chip's line is like, by its registers
RateOf(chip, regs) ==
    CASE chip = "ftdi"  -> FtdiMakes(regs.rate)
      [] chip = "ch34x" -> Ch34xMakes(regs.rate)
      [] OTHER          -> regs.rate
FormatOf(chip, regs) ==
    CASE chip = "ftdi"  -> FtdiReads(regs.format)
      [] chip = "ch34x" -> Ch34xReads(regs.format)
      [] OTHER          -> Cp210xReads(regs.format)

Off(a, b) == IF a > b THEN a - b ELSE b - a

\* A UART tells the bits of a byte apart if the rates differ by less than a twenty-fifth.
IsClose(rate, asked) == 25 * Off(rate, asked) <= asked

-----------------------------------------------------------------------------

CONSTANTS
    Drivers,        \* the drivers in the order of their registration: chip and products
    Codings(_),     \* the line codings that are asked for in an environment
    MaxJobs,        \* bound: calls of the application
    MaxRounds,      \* bound: rounds of the service before its timeout
    Ports           \* the environments of the port

ASSUME DriversAreKnown == Drivers \in Seq([chip : {"ftdi", "ch34x", "cp210x"}, products : Nat])

\* The variables, which CdcAcm declares: cable, the device with its chip and product, or
\* the chip "none"; uart, the chip's registers, which its reset leaves as they are; port,
\* what is known of the open port; task, the task that opens and uses it.

NoDevice == [chip |-> "none", product |-> 0]
NoUart   == [rate |-> 0, format |-> 0, dtr |-> FALSE, rts |-> FALSE, brk |-> FALSE]

\* open: the application, or the driver for it, has a CDC-ACM pseudo-device; ctx: what
\* ftdi_vcp_open() has allocated for it.
NoPort == [open |-> FALSE, chip |-> "none", ctx |-> FALSE]

\* how: what to open; d, p: the driver and the product to try; asked: the job; todo: its
\* requests that are left, after which it ends with after; before: the registers before it.
NoTask == [pc |-> "idle", how |-> "any", d |-> 1, p |-> 1, rounds |-> 0, jobs |-> 0,
           asked |-> [job |-> "none"], todo |-> <<>>, after |-> "none", res |-> "none",
           before |-> NoUart, crash |-> "none", env |-> {}]

Driver == Drivers[task.d]
Uses(what) == what \in task.env

-----------------------------------------------------------------------------
(* Requests *)

Send(reg, val) == <<[reg |-> reg, val |-> val]>>
Bits(dtr, rts) == (IF dtr THEN 1 ELSE 0) + (IF rts THEN 2 ELSE 0)

\* A chip's registers after a request; the modem lines are bits of their own on an FTDI,
\* both at once on a CP210x, and low when they are set on a CH34x.
After(chip, regs, req) ==
    LET on == req.val % 2 = 1
    IN  CASE req.reg \in {"rate", "format"} -> [regs EXCEPT ![req.reg] = req.val]
          [] req.reg = "break" -> [regs EXCEPT !.brk = on]
          [] req.reg \in {"dtr", "rts"} -> [regs EXCEPT ![req.reg] = on]
          [] req.reg = "modem" -> [regs EXCEPT !.dtr = on # (chip = "ch34x"),
                                               !.rts = (req.val \div 2 = 1) # (chip = "ch34x")]
          [] OTHER -> regs

\* ftdi_set_control_line_state(), ch34x_set_control_line_state() and
\* cp210x_set_control_line_state()
ModemRequests(chip, dtr, rts) ==
    CASE chip = "ftdi" -> Send("dtr", Bits(dtr, FALSE)) \o Send("rts", Bits(rts, FALSE))
      [] chip = "ch34x" -> Send("modem", Bits(~dtr, ~rts))
      [] OTHER -> Send("modem", Bits(dtr, rts))

\* cp210x_send_break(), with a delay between its requests; the other chips have none.
BreakRequests == Send("break", 1) \o Send("break", 0)

\* What a driver sends when it opens its chip.
OpenRequests(chip) ==
    CASE chip = "ftdi" -> Send("reset", 0)
            \o FtdiRequests([rate |-> 115200, bits |-> 8, parity |-> 0, stop |-> 0]).todo
      [] chip = "ch34x" -> <<>>
      [] OTHER -> Send("enable", 1)

-----------------------------------------------------------------------------
(* Opening: VCP::open(), ftdi_vcp_open(), ch34x_vcp_open(), cp210x_vcp_open() *)

\* With no ids the service goes through all drivers, with a driver's "auto" product the
\* driver through its own products; else there is one product to try.
OpenPort(how, d, p) ==
    /\ task.env # {} /\ task.pc = "idle" /\ ~port.open /\ task.jobs < MaxJobs
    /\ (how # "one" => p = 1) /\ (how = "any" => d = 1)
    /\ task' = [task EXCEPT !.pc = "try", !.how = how, !.d = d, !.p = p, !.rounds = 0,
                            !.jobs = @ + 1, !.asked = [job |-> "open"], !.res = "none"]
    /\ UNCHANGED <<cable, uart, port, acmVars>>

\* A product is found, or not; opening it may fail for another reason, on which the
\* service gives up and a driver tries its next product.
Found == cable = [chip |-> Driver.chip, product |-> task.p]

Open ==
    /\ task.pc = "try" /\ Found
    /\ port' = [open |-> TRUE, chip |-> Driver.chip, ctx |-> Driver.chip = "ftdi"]
    /\ task' = [task EXCEPT !.pc = "preparing", !.todo = OpenRequests(Driver.chip), !.after = "ok"]
    /\ UNCHANGED <<cable, uart, acmVars>>

Misses == task.pc = "try" /\ (~Found \/ Uses("error")) /\ UNCHANGED <<cable, uart, port, acmVars>>

\* A driver goes on to its next product, the service only if this one was not found;
NextProduct ==
    /\ Misses /\ task.how # "one" /\ task.p < Driver.products /\ (task.how = "any" => ~Found)
    /\ task' = [task EXCEPT !.p = @ + 1]

\* the service goes on to its next driver, and begins again until the timeout;
NextDriver ==
    /\ Misses /\ task.how = "any" /\ ~Found /\ task.p = Driver.products
    /\ IF task.d < Len(Drivers) THEN task' = [task EXCEPT !.d = @ + 1, !.p = 1]
       ELSE task.rounds < MaxRounds /\ task' = [task EXCEPT !.d = 1, !.p = 1, !.rounds = @ + 1]

\* or there is no port.
OpenFails ==
    /\ Misses
    /\ \/ task.how = "one" \/ (task.how = "any" /\ Found)
       \/ task.p = Driver.products /\ (task.how = "auto" \/ (task.d = Len(Drivers) /\ task.rounds = MaxRounds))
    /\ task' = [task EXCEPT !.pc = "idle", !.res = "null"]

-----------------------------------------------------------------------------
(* Requests, one after the other, of opening and of the application's calls *)

\* cdc_acm_host_close() and the driver's del()
Closed == port' = NoPort

\* A pseudo-device that was closed meanwhile must not be used.
Abused(t) == IF port.open THEN t ELSE [t EXCEPT !.crash = "closed pseudo-device"]
Sending   == task.pc \in {"preparing", "sending"}

Request ==
    /\ Sending /\ task.todo # <<>> /\ Found /\ port.open
    /\ uart' = After(port.chip, uart, Head(task.todo))
    /\ task' = [task EXCEPT !.todo = Tail(@)]
    /\ UNCHANGED <<cable, port, acmVars>>

\* A chip that cannot be prepared is closed again.
RequestFails ==
    /\ Sending /\ task.todo # <<>> /\ (~Found \/ Uses("error"))
    /\ IF task.pc = "preparing" THEN Closed ELSE UNCHANGED port
    /\ task' = Abused([task EXCEPT !.pc = "idle", !.todo = <<>>, !.res = "fail"])
    /\ UNCHANGED <<cable, uart, acmVars>>

RequestsEnd ==
    /\ Sending /\ task.todo = <<>>
    /\ task' = Abused([task EXCEPT !.pc = "idle", !.res = task.after])
    /\ UNCHANGED <<cable, uart, port, acmVars>>

Issue(asked, todo, ok) ==
    /\ task.pc = "idle" /\ port.open /\ task.jobs < MaxJobs
    /\ task' = [task EXCEPT !.pc = "sending", !.asked = asked, !.todo = todo, !.before = uart,
                            !.jobs = @ + 1, !.res = "none", !.after = IF ok THEN "ok" ELSE "invalid"]
    /\ UNCHANGED <<cable, uart, port, acmVars>>

\* A coding that a driver refuses may have been sent in part.
SetLine(c) ==
    LET requests == LineRequests(port.chip, c)
    IN  Issue([job |-> "line", coding |-> c], requests.todo, requests.ok)

SetModem(dtr, rts) ==
    Issue([job |-> "modem", dtr |-> dtr, rts |-> rts], ModemRequests(port.chip, dtr, rts), TRUE)

SendBreak ==
    /\ port.chip = "cp210x" /\ (Uses("error") => Uses("break"))
    /\ Issue([job |-> "break"], BreakRequests, TRUE)

Forgotten == task' = [NoTask EXCEPT !.jobs = task.jobs, !.env = task.env, !.crash = task.crash]

Close ==
    /\ task.pc = "idle" /\ port.open
    /\ Closed /\ Forgotten /\ UNCHANGED <<cable, uart, acmVars>>

-----------------------------------------------------------------------------
(* The device *)

\* It is enumerated when the last one was closed.
PlugIn ==
    /\ task.env # {} /\ cable = NoDevice /\ ~port.open
    /\ \E d \in DOMAIN Drivers : \E p \in 1 .. Drivers[d].products :
          cable' = [chip |-> Drivers[d].chip, product |-> p]
    /\ uart' = NoUart
    /\ UNCHANGED <<port, task, acmVars>>

PullOut ==
    /\ cable # NoDevice /\ cable' = NoDevice
    /\ UNCHANGED <<uart, port, task, acmVars>>

\* The application closes in its callback for the disconnection, in another task than the
\* one that may be opening the port ("leave").
CloseGone ==
    /\ port.open /\ cable = NoDevice /\ (Sending => Uses("leave"))
    /\ Closed /\ UNCHANGED <<cable, uart, acmVars>>
    /\ IF Sending THEN UNCHANGED task ELSE Forgotten

-----------------------------------------------------------------------------
VcpOff == cable = NoDevice /\ uart = NoUart /\ port = NoPort /\ task = NoTask

VcpInit ==
    /\ cable = NoDevice /\ uart = NoUart /\ port = NoPort
    /\ \E uses \in Ports : task = [NoTask EXCEPT !.env = uses]

VcpNext ==
    \/ \E how \in {"any", "auto", "one"}, d \in DOMAIN Drivers :
          \E p \in 1 .. Drivers[d].products : OpenPort(how, d, p)
    \/ Open \/ NextProduct \/ NextDriver \/ OpenFails \/ Request \/ RequestFails \/ RequestsEnd
    \/ \E c \in Codings(task.env) : SetLine(c)
    \/ \E dtr, rts \in BOOLEAN : SetModem(dtr, rts)
    \/ SendBreak \/ Close \/ PlugIn \/ PullOut \/ CloseGone

-----------------------------------------------------------------------------
(* Properties *)

\* A chip's line is like a coding.
Made(chip, regs, c) ==
    /\ c.rate # 0 => IsClose(RateOf(chip, regs), c.rate)
    /\ c.bits # 0 => FormatOf(chip, regs) = [bits |-> c.bits, parity |-> c.parity, stop |-> c.stop]

Done(job, res) == task.pc = "idle" /\ port.open /\ task.asked.job = job /\ task.res = res

\* A line coding that was accepted is what the chip's line is like: the same format, and
\* a rate at which a byte can be received (*_line_coding_set()).
LineIsSet == Done("line", "ok") => Made(port.chip, uart, task.asked.coding)

\* A line coding that is refused changes nothing.
RefusedAsAWhole == Done("line", "invalid") => uart = task.before

\* The modem lines are set as asked, whatever their polarity and order.
ModemIsSet == Done("modem", "ok") => uart.dtr = task.asked.dtr /\ uart.rts = task.asked.rts

\* The line of a device that is there is not left in a break (cp210x_send_break()).
BreakEnds == task.pc = "idle" /\ cable # NoDevice => ~uart.brk

\* A port that was opened is the device that is plugged in, prepared; one that was not is
\* closed, its context freed, and no pseudo-device is used after it was closed.
PortIsKept ==
    /\ task.crash = "none"
    /\ port.ctx <=> port.open /\ port.chip = "ftdi"
    /\ task.pc = "try" \/ (task.pc = "idle" /\ task.asked.job = "open" /\ task.res \in {"null", "fail"}) => ~port.open
    /\ Done("open", "ok") /\ cable # NoDevice =>
          /\ port.chip = cable.chip
          /\ port.chip = "ftdi" => IsClose(RateOf("ftdi", uart), 115200)

VcpConsistent == LineIsSet /\ RefusedAsAWhole /\ ModemIsSet /\ BreakEnds /\ PortIsKept
-----------------------------------------------------------------------------
(* What the theorems about the ports assume (Vcp_proof); TLC evaluates it on the instance   *)
(* of the run.                                                                              *)

\* At most three requests, and the registers after them
Sent1(chip, regs, todo) == IF todo = <<>> THEN regs ELSE After(chip, regs, Head(todo))
Rest(todo) == IF todo = <<>> THEN <<>> ELSE Tail(todo)
Sent(chip, regs, todo) ==
    LET first  == Sent1(chip, regs, todo)
        second == Sent1(chip, first, Rest(todo))
    IN  Sent1(chip, second, Rest(Rest(todo)))

\* The arithmetic: what is sent for a coding to a chip that is as after a reset makes it like
\* the coding, or nothing is sent and the coding is refused.
IsMade(chip, c) ==
    LET requests == LineRequests(chip, c)
    IN  IF requests.ok THEN Made(chip, Sent(chip, NoUart, requests.todo), c) ELSE requests.todo = <<>>
CodingsAreMade ==
    /\ \A u \in Ports : \A c \in Codings(u) : \A d \in DOMAIN Drivers : IsMade(Drivers[d].chip, c)
    /\ IsMade("ftdi", [rate |-> 115200, bits |-> 8, parity |-> 0, stop |-> 0])

\* No port is closed by another task than the one that opens it, and a break does not fail
\* half-way.
PortsAreCalm == \A u \in Ports : "leave" \notin u /\ ~({"error", "break"} \subseteq u)

-----------------------------------------------------------------------------
(* CDC on the host: a behaviour is about the CDC-ACM driver with its pseudo-devices, or     *)
(* about the Virtual COM ports above it, for which the driver is what opens a               *)
(* pseudo-device and answers or fails a request.                                            *)

HostInit == (Init /\ VcpOff) \/ (AcmOff /\ VcpInit)

HostNext == Next \/ VcpNext

\* Fairness is the CDC-ACM driver's: nothing must happen on a port that nobody uses.
HostSpec ==
    HostInit /\ [][HostNext]_vars
    /\ WF_vars(Client) /\ WF_vars(Locked) /\ WF_vars(Told) /\ WF_vars(Writes)

\* Both keep what they have open and what their devices are told in step: see the parts of
\* AcmConsistent (cdc_acm_host.c), and those of VcpConsistent above.
Consistent == AcmConsistent /\ VcpConsistent
=============================================================================
