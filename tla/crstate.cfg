SPECIFICATION Spec
CONSTANTS
    Kind = {"interfaceName", "configuration", "firmware", "sriov", "policy", "openshift", "railpool", "existence"}
    Templates <- MCTemplates
    DeviceOf <- MCDeviceOf
    Nodes = {"n1", "n2"}
    LabelSets <- MCLabelSets
    Labellings <- MCLabellings
    Policies <- MCPolicies
    Interfaces <- MCInterfaces
    Specs <- MCSpecs
    Reports <- MCReports
    MaxEdits = 1
INVARIANTS
    DevicesConfigured
    VfsInPlace
    ManagedReady
