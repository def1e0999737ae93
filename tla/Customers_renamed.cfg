SPECIFICATION Spec
CONSTANTS
    User = {u1}
    Email = {e1}
    Phone = {p1}
    Name = {n1, n2}
    None = None
    MaxCustomers = 2
    MaxMails = 2
    MaxReviews = 2
PROPERTIES
    NeverRenamed
CHECK_DEADLOCK FALSE
