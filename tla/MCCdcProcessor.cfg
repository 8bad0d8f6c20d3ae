\* Enough faults to exhaust the retries of one event, and one crash.
CONSTANTS
    a = a  b = b
    Chunks = {a, b}
    MaxVersion = 2
    Deletes <- MCDeletes
    MaxRetries = 1
    MaxFaults = 2
    MaxRestarts = 1
SPECIFICATION Spec
 
PROPERTIES ImplementsRegister
