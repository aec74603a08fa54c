---------------------------- MODULE MCGpioDriver ----------------------------
(* Instances of GpioDriver: which thread of the process makes which calls. *)
EXTENDS GpioDriver

CONSTANTS t1, t2, t3

One == {t1}
Two == {t1, t2}
Three == {t1, t2, t3}
Configures == {"open", "close", "in", "out", "irq", "setpin"}
\* everything by everybody, in turn
AllCalls == [t \in Threads |-> CallNames]
\* two threads configure in turn, all of them read
Pins == [t \in Threads |-> {"read", "readnb", "poll", "pinval"}
                                \cup (IF t = t3 THEN {} ELSE Configures)]
\* the first thread looks at the value now and then, the second reads
Peeking == [t \in Threads |-> IF t = t1 THEN {"open", "irq", "pinval"} ELSE {"read"}]
\* the first thread reconfigures while the second may be reading
Reconfiguring == [t \in Threads |-> IF t = t1 THEN {"open", "in", "irq"} ELSE {"read"}]
\* what select waits for on a file to read; POLLIN alone is never reported
Reading == {"POLLIN", "POLLRDNORM", "POLLRDBAND"}
Pollin == {"POLLIN"}
\* as gpio_test does, but with a wrong interrupt type
BadType == {"falling", "bad"}
AllTypes == ValidTypes
Edges == {"rising", "falling"}
=============================================================================
