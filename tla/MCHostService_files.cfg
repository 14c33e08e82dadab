\* Two clients, two files, two downloads, a renderer between two interfaces.
SPECIFICATION Spec
CONSTANTS
    Client = {k1, k2}
    Device = {d1}
    Ip = {ip1, ip2}
    File = {f1, f2}
    Regular = {f1, f2}
    Response = {r1, r2}
    MaxId = 4
    MaxMapped = 2
SYMMETRY Symmetry
INVARIANTS
    TypeOK
    FilesHaveClients
    UrlNamesOneFile
    ResponsesKeepMapping
PROPERTIES
    OthersKeepTheirFiles
