-------------------------------- MODULE MCIo ---------------------------------
(***************************************************************************)
(* The way to a device: the device tables with the drivers of this kernel  *)
(* and a disk, and the lookup of paths, which share no state.  A behaviour *)
(* is about one of them, and the other stays as it is at the beginning.    *)
(***************************************************************************)
EXTENDS Devices, Vfs

VARIABLE part

Terminal == [name |-> "tty", ops |-> {"write"}]
Disk == [name |-> "disk", ops |-> {"read", "write"}]

CharDrivers == {Devmem, Terminal}
Disks == {Disk}
NoDevice == [name |-> "none", ops |-> {}]
SomeCodes == {0, -19}

SomeTokens == {"/", "dev", "x"}
UpTo(n) == UNION {[1..k -> SomeTokens] : k \in 1..n}

\* Every absolute path of up to four tokens, "/dev/x" and "/devx" among them.
AbsolutePaths == {p \in UpTo(4) : p[1] = "/"}
RelativePaths == {p \in UpTo(2) : p[1] # "/"}

IoInit == part \in {"devices", "vfs"} /\ DevicesInit /\ Init

IoNext ==
    \/ part = "devices" /\ DevicesNext /\ UNCHANGED <<part, vars>>
    \/ part = "vfs" /\ Next /\ UNCHANGED <<part, devicesVars>>

IoSpec == IoInit /\ [][IoNext]_<<part, devicesVars, vars>>
=============================================================================
