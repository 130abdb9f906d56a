SPECIFICATION TrafficSpec
CONSTANTS
    Protocols = {tcp, udp}
    Absent = Absent
    MaxPassed = 3
    MaxSent = 3
SYMMETRY Symmetric
INVARIANTS TrafficTypeOK CountedOnce NoneMissed
