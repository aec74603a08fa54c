---------------------------- MODULE MCNvramTools ----------------------------
(***************************************************************************)
(* Instances of NvramTools: "ip" is a network parameter for ubootenv, "sn" *)
(* and "bootcmd" are plain variables.                                      *)
(***************************************************************************)
EXTENDS NvramTools, TLC

CONSTANTS p1, p2
One == {p1}
Two == {p1, p2}

SomeNames == {"ip", "sn", "bootcmd"}
SomeSpecial == {"ip"}
SomeValues == {"1", "2"}
Is(n, v) == [name |-> n, value |-> v]
Valid(f) == [state |-> "valid", vars |-> f]
Invalid == [state |-> "invalid", vars |-> NoVars]
Crit == [n \in Special |-> "1"]

Flashes == {[crit |-> Crit, ubootenv |-> u, prodinfoenv |-> i] :
              u \in {Absent, Invalid, Valid("bootcmd" :> "1")},
              i \in {Absent, Invalid, Valid(NoVars), Valid("sn" :> "1")}}

EnvFiles == {<<>>, <<Is("sn", "1"), Is("bootcmd", "1"), Is("sn", "2")>>,
             <<Is("ip", "2"), Is("sn", NoValue)>>, <<Is("ip", "2"), Is("sn", "2")>>,
             <<Is("ip", "2"), Is("sn", "2"), Is("bootcmd", "2")>>}
EnvCommand(t, c, f, e, s) == [tool |-> t, clean |-> c, file |-> f, erase |-> e, set |-> s,
                              manuf |-> FALSE]
\* process_options refuses --clean with --erase
EnvCommands == {x \in {EnvCommand(t, c, f, e, s) :
                  t \in {"ubootenv", "prodinfoenv"}, c \in BOOLEAN, f \in EnvFiles,
                  e \in {<<>>, <<"sn", "ip">>},
                  s \in {<<>>, <<Is("sn", "2")>>, <<Is("ip", "2")>>, <<Is("sn", NoValue)>>}} :
                ~(x.clean /\ x.erase # <<>>)}

NvramCommands ==
    {[tool |-> "nvram", do |-> d, manuf |-> m] : d \in {"reset", "print"}, m \in BOOLEAN}
    \cup {[tool |-> "nvram", do |-> "set", manuf |-> FALSE, name |-> "ip", value |-> v] :
            v \in SomeValues}
    \cup {[tool |-> "nvram", do |-> "load", manuf |-> FALSE, os |-> t, content |-> x] :
            t \in {"ubootenv", "prodinfoenv"}, x \in {Invalid, Valid("sn" :> "2")}}

AllCommands == EnvCommands \cup NvramCommands
ProdCommands == {EnvCommand("prodinfoenv", FALSE, <<>>, <<>>, <<Is("sn", v)>>) : v \in SomeValues}
EmptyProd == {[crit |-> Crit, ubootenv |-> Absent, prodinfoenv |-> Valid(NoVars)]}
=============================================================================
