------------------------------- MODULE MCSizing -------------------------------
(***************************************************************************)
(* Instances of Sizing for TLC.  CPU is counted in tenths of a millicore   *)
(* (Unit = 10), memory in MiB (Unit = 1: the quantities used are whole).   *)
(***************************************************************************)
EXTENDS Sizing

CPU == {"cpu"}
Both == {"cpu", "memory"}

\* calculator.DefaultConfig and DefaultConstraints.
Margin      == [r \in Resources |-> IF r = "cpu" THEN 20 ELSE 25]
Dampening   == [r \in Resources |-> IF r = "cpu" THEN 80 ELSE 90]
MinDefault  == [r \in Resources |-> IF r = "cpu" THEN 100 ELSE 16]
MaxDefault  == [r \in Resources |-> IF r = "cpu" THEN 160000 ELSE 65536]
Grains      == [r \in Resources |-> IF r = "cpu" THEN 10 ELSE 1]

Of(cpu, memory) == [r \in Resources |-> IF r = "cpu" THEN cpu ELSE memory]
Fresh == Of([req |-> 1000, lim |-> 2000], [req |-> 128, lim |-> 256])

\* 4.5m, 10.5m, 95m, 2 cores and 15 cores of CPU; 8 MiB to 4 GiB of memory.
SomeUsages ==
    {Of(c, 128) : c \in {45, 105, 950, 20000}} \cup {Of(105, 8), Of(150000, 4096)}
FewUsages == {Of(105, 8), Of(950, 128), Of(150000, 4096)}
CpuUsages == {Of(c, 128) : c \in {105, 950, 20000}}
Wants(c) == {Of(c, 128)}
Want10m == Wants(105)

NoVpa == {NoRec}
SomeVpaRecs ==
    NoVpa \cup {Of(c, [target |-> 100, upper |-> Absent]) :
                    c \in {[target |-> 105, upper |-> 5000],
                           [target |-> 3000, upper |-> Absent]}}
OneVpaRec ==
    NoVpa \cup {Of([target |-> 3000, upper |-> Absent], [target |-> 100, upper |-> Absent])}

Item(min, max, ratio) ==
    [type |-> "Container", min |-> min, max |-> max, ratio |-> ratio]
PodItem(max) == [type |-> "Pod", min |-> 0, max |-> max, ratio |-> 0]

NoLimits == {Of(<<>>, <<>>)}
SomeLimits ==
    {Of(c, m) : c \in {<<>>, <<Item(200, 4000, 0)>>,
                       <<Item(500, 30000, 0), Item(0, 3000, 30), PodItem(30000)>>,
                       <<Item(2000, 3000, 0), Item(0, 1000, 0)>>},
                m \in {<<>>, <<Item(32, 256, 12)>>}}
OneItem == {Of(<<Item(200, 4000, 30)>>, m) : m \in {<<>>, <<Item(32, 256, 0)>>}}

NoQuota == {Of(Unlimited, Unlimited)}
SomeQuotas == {Of(h, Unlimited) : h \in {500, 1000, 1600, 5000, Unlimited}}
NobodyElse == Of(0, 0)
Use60m == Of(600, 0)
=============================================================================
