SPECIFICATION Spec
CONSTANTS
  Tabs = {t1, t2}
  Donations = {d1, d2, d3}
  Amounts = {25, 50}
  None = None
INVARIANT OneDonationPerVisit
PROPERTY ImplementsBooking
