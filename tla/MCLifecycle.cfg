SPECIFICATION Spec
CONSTANTS
    e1 = e1
    q1 = q1
    q2 = q2
    b1 = b1
    b2 = b2
    Enquiries <- MCEnquiries
    Quotes <- MCQuotes
    Bookings <- MCBookings
    EnquiryOf <- MCEnquiryOf
    QuoteOf <- MCQuoteOf
    Slots <- MCSlots
    Offsets <- MCOffsets
    HourLimit = 1
    WindowLimit = 2
    Window = 2
    MaxLoaded = 1
CHECK_DEADLOCK FALSE
CONSTRAINT MCBound
SYMMETRY MCSymmetry
PROPERTIES KeepsPromise CreationKeepsHour
