SPECIFICATION Spec
CONSTANTS
    Clients = {c1, c2, c3}
    MaxConnections = 2
    Silent = {c1}
PROPERTY ServedDespiteSilence
 
