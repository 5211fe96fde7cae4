SPECIFICATION Spec
CONSTANTS
    V4Bits = 3
    V6Bytes = 2
    ByteBits = 2
    AsnBits = 2
    Configs <- MCConfigs
    Registries <- MCRegistries
    Labels = {"d", "h", "x", "b"}
    BadLabels = {"b"}
    Cards <- MCCards
    Texts = {"", "a", "b"}
    RegistrarHandle = "h"
    Handles = {"e", "y"}
    Entities = {"e"}
    Domains = {"d", "h"}
    Delegated = {"d"}
    Hosts = {"h"}
INVARIANTS ExtensionsDeclared
