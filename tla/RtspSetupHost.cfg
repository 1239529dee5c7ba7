\* 14 and 15 characters, as in 192.168.1.100 and 192.168.100.100.
SPECIFICATION Spec
CONSTANTS
    Port = {p1, p2, p3}
    NoPort = NoPort
    HostLength = {14, 15}
INVARIANT
    AddressFits
