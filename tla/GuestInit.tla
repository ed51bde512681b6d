----------------------------- MODULE GuestInit ------------------------------
(***************************************************************************)
(* The init process of a guest (init.c): it loads the drivers, checks the  *)
(* configuration space of the remote device, gives the ipourma interface   *)
(* its address and then runs, one after the other, the programs that the   *)
(* kernel command line asks for, linqu_probe last and unless it says not.  *)
(* Nothing that goes wrong on the way stops it.  In the end it becomes     *)
(* /bin/run_demo, holds for ever or powers the guest off.                  *)
(***************************************************************************)
EXTENDS Integers, Sequences, FiniteSetsExt

CONSTANTS
  InitGuests,   \* guests that boot
  Boots,        \* command lines: sets of stages asked for, and "probe_uio"
  BizCases      \* number of entries of cases[] in the payload check

ASSUME InitAssumption == BizCases \in Nat

\* The order of main.  "demo_flow" stands for the process that has become
\* /bin/run_demo: main does not come there by going on.
Stages == <<"drivers", "bizmsg", "network", "urma_dp", "chat", "rpc", "tcp", "rdma", "obmm",
            "probe", "run_demo", "hold", "off", "demo_flow">>

VARIABLES
  cmdline,   \* what should_run_... finds; the same on all guests
  boot,      \* guest -> its stage, an index of Stages
  iface,     \* guests whose ipourma interface has appeared
  addressed, \* guests whose interface has been given its address
  upi,       \* guest -> the register of its remote device; 0 as found
  biz        \* guest -> local variables of the payload check

initVars == <<cmdline, boot, iface, addressed, upi, biz>>

-----------------------------------------------------------------------------

\* A command line without linqu_probe_skip asks for "probe".
Always == {"drivers", "network", "off"}

At(g, stage) == Stages[boot[g]] = stage

\* The next stage that main does not skip.
NextStage(i) == Min({j \in i + 1 .. Len(Stages) : Stages[j] \in Always \cup cmdline})

Advance(g) == boot' = [boot EXCEPT ![g] = NextStage(@)]

BootInit ==
  /\ cmdline \in Boots
  /\ boot = [g \in InitGuests |-> 1]
  /\ iface = {} /\ addressed = {}
  /\ upi = [g \in InitGuests |-> 0]
  /\ biz = [g \in InitGuests |-> [at |-> "link", case |-> 1, before |-> 0, errors |-> FALSE]]

\* bootstrap_drivers and wait_for_ub_sysfs_ready: best effort, each insmod is
\* killed after four seconds, the wait is given up after six.
BootDrivers(g) ==
  /\ At(g, "drivers")
  /\ Advance(g)
  /\ UNCHANGED <<cmdline, iface, addressed, upi, biz>>

\* The driver registers the interface some time after it was loaded.
IfaceAppears(g) ==
  /\ ~At(g, "drivers")
  /\ g \notin iface
  /\ iface' = iface \cup {g}
  /\ UNCHANGED <<cmdline, boot, addressed, upi, biz>>

\* configure_ipourma_network: an interface that does not appear in time, or an
\* address that cannot be set, is left to the programs.
ConfigureNetwork(g) ==
  /\ At(g, "network")
  /\ \/ g \in iface /\ addressed' = addressed \cup {g}
     \/ UNCHANGED addressed
  /\ Advance(g)
  /\ UNCHANGED <<cmdline, iface, upi, biz>>

\* What each program does first: wait_iface_ready, then its own address on the
\* interface if that has none or another.
SetUpNetwork(g) ==
  /\ g \in iface
  /\ addressed' = addressed \cup {g}
  /\ UNCHANGED <<cmdline, boot, iface, upi, biz>>

-----------------------------------------------------------------------------

BizAt(g, at) == At(g, "bizmsg") /\ biz[g].at = at

\* The next entry of cases[] begins, after an error or without one.
NextCase(b, error) ==
  [b EXCEPT !.case = @ + 1, !.errors = @ \/ error,
            !.at = IF b.case < BizCases THEN "read" ELSE "verdict"]

BizGo(g, b) == /\ biz' = [biz EXCEPT ![g] = b]
               /\ UNCHANGED <<cmdline, boot, iface, addressed>>

\* The remote device is absent (nothing is checked), its link does not come up
\* or its configuration space cannot be opened (an error), or the check begins.
BizOpen(g) ==
  /\ BizAt(g, "link")
  /\ \/ BizGo(g, [biz[g] EXCEPT !.at = "skipped"])
     \/ BizGo(g, [biz[g] EXCEPT !.at = "failed"])
     \/ BizGo(g, [biz[g] EXCEPT !.at = "verdict", !.errors = TRUE])
     \/ BizGo(g, [biz[g] EXCEPT !.at = IF BizCases > 0 THEN "read" ELSE "verdict"])
  /\ UNCHANGED upi

\* read-before
BizRead(g) ==
  /\ BizAt(g, "read")
  /\ \/ BizGo(g, [biz[g] EXCEPT !.at = "write", !.before = upi[g]])
     \/ BizGo(g, NextCase(biz[g], TRUE))
  /\ UNCHANGED upi

\* pwrite; one that reports an error may have reached the remote device.
Poke(g, value, ok) ==
  \/ upi' = [upi EXCEPT ![g] = value]
  \/ ~ok /\ UNCHANGED upi

BizWrite(g) ==
  /\ BizAt(g, "write")
  /\ \E ok \in BOOLEAN :
       /\ Poke(g, biz[g].case, ok)
       /\ BizGo(g, IF ok THEN [biz[g] EXCEPT !.at = "after"] ELSE NextCase(biz[g], TRUE))

\* read-after; when it fails the old value is written back, come what may.
BizAfter(g) ==
  /\ BizAt(g, "after")
  /\ \/ /\ BizGo(g, [biz[g] EXCEPT !.at = "restore",
                                   !.errors = @ \/ upi[g] # biz[g].case])
        /\ UNCHANGED upi
     \/ \E ok \in BOOLEAN : /\ Poke(g, biz[g].before, ok)
                            /\ BizGo(g, NextCase(biz[g], TRUE))

\* restore-write
BizRestore(g) ==
  /\ BizAt(g, "restore")
  /\ \E ok \in BOOLEAN :
       /\ Poke(g, biz[g].before, ok)
       /\ BizGo(g, IF ok THEN [biz[g] EXCEPT !.at = "check"] ELSE NextCase(biz[g], TRUE))

\* restore-read
BizCheck(g) ==
  /\ BizAt(g, "check")
  /\ \/ BizGo(g, NextCase(biz[g], upi[g] # biz[g].before))
     \/ BizGo(g, NextCase(biz[g], TRUE))
  /\ UNCHANGED upi

\* Pass without an error and with an interrupt more than before.
BizVerdict(g) ==
  /\ BizAt(g, "verdict")
  /\ \E interrupts \in BOOLEAN :
       BizGo(g, [biz[g] EXCEPT !.at = IF ~biz[g].errors /\ interrupts THEN "passed" ELSE "failed"])
  /\ UNCHANGED upi

\* main does not look at the result.
BizReturn(g) ==
  /\ At(g, "bizmsg") /\ biz[g].at \in {"skipped", "failed", "passed"}
  /\ Advance(g)
  /\ UNCHANGED <<cmdline, iface, addressed, upi, biz>>

BizStep(g) == \/ BizOpen(g) \/ BizRead(g) \/ BizWrite(g) \/ BizAfter(g) \/ BizRestore(g)
              \/ BizCheck(g) \/ BizVerdict(g) \/ BizReturn(g)

\* linqu_probe waits for an interrupt with a read that has no deadline.
Blocking == "probe_uio" \in cmdline

\* run_probe: started, waited for without a deadline, not looked at.
RunProbe(g) ==
  /\ At(g, "probe")
  /\ Advance(g)
  /\ UNCHANGED <<cmdline, iface, addressed, upi, biz>>

\* should_enter_demo_boot_flow: the exec, or what follows when it fails.
EnterDemoFlow(g) ==
  /\ At(g, "run_demo")
  /\ \/ boot' = [boot EXCEPT ![g] = Len(Stages)]
     \/ Advance(g)
  /\ UNCHANGED <<cmdline, iface, addressed, upi, biz>>

\* What main does of its own accord; it may wait for a blocking probe for ever.
BootStep(g) == \/ BootDrivers(g) \/ ConfigureNetwork(g) \/ BizStep(g) \/ EnterDemoFlow(g)
               \/ ~Blocking /\ RunProbe(g)

\* The interrupt that a blocking probe waits for.
ProbeInterrupt(g) == Blocking /\ RunProbe(g)

\* main is at one of its ends.
AtRest(g) == At(g, "off") \/ At(g, "hold") \/ At(g, "demo_flow")

-----------------------------------------------------------------------------

\* Every guest is at a stage that its command line asks for; "hold", which is
\* for ever, and the demo flow included.
InitTypeOK ==
  /\ cmdline \in Boots
  /\ boot \in [InitGuests -> 1 .. Len(Stages)]
  /\ \A g \in InitGuests : \/ Stages[boot[g]] \in Always \cup cmdline
                           \/ At(g, "demo_flow") /\ "run_demo" \in cmdline
  /\ addressed \subseteq iface /\ iface \subseteq InitGuests
  /\ upi \in [InitGuests -> 0 .. BizCases]

\* The payload check writes to a register in use: when it says "pass" it has
\* put the old value back, although a later entry takes for the old value what
\* an earlier one may have left behind.
PassLeavesRegister ==
  \A g \in InitGuests : biz[g].at = "passed" => upi[g] = 0

=============================================================================
