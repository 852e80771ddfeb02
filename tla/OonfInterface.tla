----------------------------- MODULE OonfInterface -----------------------------
(* The cached view of one network interface, subsystems/oonf_interface.c: a   *)
(* reference-counted object that exists while somebody listens, a copy of the *)
(* kernel's data, and a timer that collects change events before the data is  *)
(* read again and handed to the listeners.                                    *)
EXTENDS Integers, FiniteSets

CONSTANTS Families,    \* the address families
          KernelData   \* what os_net_update_interface() can read

\* Interface data: the link state and one address per family, 0 for none.
IfData == [up : BOOLEAN, addr : [Families -> Nat]]

ASSUME KernelDataAssumption == KernelData \subseteq IfData

\* What is left of the data when the kernel could not be asked.
NoData == [up |-> FALSE, addr |-> [f \in Families |-> 0]]

NoInterface == [exists |-> FALSE, usage |-> 0, data |-> NoData, timer |-> FALSE]

\* _interface_add(): the first user reads the data at once, a later one makes
\* the timer read it again.  'readable' tells whether the kernel can be asked.
interface_add(osif, kernel, readable) ==
  IF osif.exists
  THEN [exists |-> TRUE, usage |-> osif.usage + 1, data |-> osif.data, timer |-> TRUE]
  ELSE [exists |-> TRUE, usage |-> 1, timer |-> ~ readable,
        data |-> IF readable THEN kernel ELSE NoData]

\* _interface_remove(): the last user takes the object and its timer with it.
interface_remove(osif) ==
  IF osif.usage > 1 THEN [osif EXCEPT !.usage = @ - 1] ELSE NoInterface

\* oonf_interface_trigger_change(): an interface that goes down is down at once.
oonf_interface_trigger_change(osif, down) ==
  IF ~ osif.exists THEN osif
  ELSE [osif EXCEPT !.timer = TRUE,
                          !.data = [up |-> osif.data.up /\ ~ down, addr |-> osif.data.addr]]

\* The first half of _cb_change_handler(), up to the calls of the listeners.
change_handler(osif, kernel, readable) ==
  [osif EXCEPT !.timer = ~ readable, !.data = IF readable THEN kernel ELSE @]
=============================================================================
