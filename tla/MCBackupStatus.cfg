CONSTANTS
    Devices = {d1, d2}
    OperatingSystems = {"ios", "android"}
    DeviceOs <- MCDeviceOs
    MaxVersion = 2
    MaxTime = 1
    None = None
    Err = Err
SYMMETRY MCSymmetry
SPECIFICATION Spec
INVARIANTS PairConsistent Linearizable
