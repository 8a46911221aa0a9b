\* One request at a time for /github.
SPECIFICATION Spec
CONSTANTS
    Requests = {r1}
    Endpoints = {"github"}
    Refresh = 2
    Ttl = 3
    Delay = 1
PROPERTIES
    UnchangedIsConfirmed
