------------------------------ MODULE MCRecords ------------------------------
(***************************************************************************)
(* Instances of Records for TLC: samples in which devices and applications *)
(* come and go, and the formats of earlier versions.                  *)
(***************************************************************************)
EXTENDS Records

Entry(name, value) == [name |-> name, value |-> value]
Disk(name, value, temps) == [name |-> name, value |-> value, temps |-> temps]

\* One disk and one interface, no application.
Plain ==
    [ts |-> 0, usage |-> 10, irq |-> 1, used |-> 5, running |-> 2, users |-> 1,
     ifaces |-> <<Entry("eth0", 7)>>, sensors |-> <<Entry("cpu", 40)>>,
     disks |-> <<Disk("sda", 8, <<>>)>>, fs |-> <<Entry("/", 3)>>, host |-> "kula",
     gpu |-> <<>>, nginx |-> absent, containers |-> <<>>, postgres |-> absent,
     mysql |-> absent, apache2 |-> absent, custom |-> <<>>,
     retrans |-> 0, psu |-> <<>>]

\* Everything there is, numbers beyond their width, and what is not stored.
Full ==
    [Plain EXCEPT
        !.usage = 31, !.used = 2, !.running = 9, !.users = 5,
        !.ifaces = <<Entry("wlan0", 1), Entry("eth0", 2)>>,
        !.disks = <<Disk("sdb", 6, <<Entry("temp1", 30), Entry("temp2", 31)>>),
                    Disk("sda", 3, <<>>)>>,
        !.gpu = <<Entry("card0", 9)>>, !.nginx = <<4>>,
        !.containers = <<Entry("c1", 1), Entry("c2", 2)>>, !.postgres = <<6, 7>>,
        !.mysql = <<5>>, !.apache2 = <<2, 3>>,
        !.custom = [g \in {"fans", "power"} |-> <<Entry("m", 1), Entry("n", 2)>>],
        !.retrans = 6, !.psu = <<Entry("BAT0", 80)>>]

\* A disk less, one application up and another down.
Other ==
    [Plain EXCEPT
        !.usage = 20, !.used = 9, !.disks = <<>>, !.sensors = <<>>,
        !.containers = <<Entry("c2", 5)>>, !.postgres = <<1, 0>>,
        !.custom = [g \in {"power"} |-> <<Entry("n", 8)>>]]

Unstorable == [Plain EXCEPT !.host = "long"]

FourSamples == {Plain, Full, Other, Unstorable}
OneLong == {"long"}
TwoGroups == <<"fans", "power">>

\* No GPU and no applications; applications without the databases that came
\* later and with the first layouts; Apache2 with its first layout; and the
\* records of this version before they had a kind byte.
FormatsBefore ==
    {[kind |-> FALSE, gpu |-> FALSE, apps |-> FALSE, mysql |-> FALSE, apache2 |-> 0, postgres |-> 1],
     [kind |-> FALSE, gpu |-> TRUE, apps |-> FALSE, mysql |-> FALSE, apache2 |-> 0, postgres |-> 1],
     [kind |-> TRUE, gpu |-> TRUE, apps |-> TRUE, mysql |-> FALSE, apache2 |-> 0, postgres |-> 1],
     [kind |-> TRUE, gpu |-> TRUE, apps |-> TRUE, mysql |-> FALSE, apache2 |-> 1, postgres |-> 2],
     [Current EXCEPT !.kind = FALSE]}
=============================================================================
